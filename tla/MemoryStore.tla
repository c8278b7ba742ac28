----------------------------- MODULE MemoryStore -----------------------------
(***************************************************************************)
(* The typed memory behind the MemoryBackend port, in its two forms:       *)
(* "langgraph" keeps one row per namespace and id, with a side index that  *)
(* says in which namespace an id was last written; "postgres" keeps one    *)
(* row per id, and a second write replaces the row's payload but not its   *)
(* namespace and creation columns.  An id is the session and the number    *)
(* of the action, so that a session run again writes its ids again.        *)
(***************************************************************************)
EXTENDS Naturals, FiniteSets, FiniteSetsExt

CONSTANTS
  Sessions,   \* the sessions whose actions are remembered, and that of the old rows
  Namespaces, \* (domain, dataset hash, model family)
  OldRows,    \* rows an earlier process may have left in a store that persists
  EventIds,   \* the ids of actions: those of the model, of fixtures and of old rows
  TopK,       \* memories the planner is given (3)
  Window      \* the builder asks for Window * TopK rows (3)

\* What the store holds: a memory's id, namespace, writer, event and validity.
Events ==
  (EventIds \cup {"", "action-planner"}) \X Nat \X {"", "succeeded", "failed", "rejected"}
Items == [id : Sessions \X Nat, ns : Namespaces, by : Nat, ref : Events, valid : BOOLEAN]
Rows == [at : Namespaces, born : Nat \ {0}, item : Items]

\* Old rows were written once each, and lie where they were written.
ASSUME MemoryAssumption ==
  /\ TopK \in Nat \ {0} /\ Window \in Nat \ {0}
  /\ OldRows \subseteq Rows /\ IsFiniteSet(OldRows)
  /\ \A r \in OldRows : r.at = r.item.ns
  /\ \A r, q \in OldRows :
       (r.born = q.born \/ r.item.id = q.item.id \/ <<r.item.by, r.item.id[2]>> = <<q.item.by, q.item.id[2]>>)
         => r = q

VARIABLES
  backend,   \* "langgraph" or "postgres"
  rows,      \* the rows: [at: the namespace it is found under, born: its rank, item]
  index,     \* index[id]: the namespace the side index names, if any
  withdrawn, \* the memories that were stored when their id was invalidated
  erased     \* the memories that were stored when their run was deleted

memory == <<backend, rows, index, withdrawn, erased>>

NoNamespace == "none"
\* A memory is told from another by who wrote it and when.
Ident(item) == <<item.by, item.id[2]>>
NamespaceOf(id) == IF id \in DOMAIN index THEN index[id] ELSE NoNamespace
WithId(id) == {r \in rows : r.item.id = id}
Valid(r) == r.item.valid
NextRank == IF rows = {} THEN 1 ELSE 1 + Max({r.born : r \in rows})

MemoryInit ==
  /\ backend \in {"langgraph", "postgres"}
  /\ rows \in {{}, OldRows}
  /\ index = [id \in {r.item.id : r \in rows} |-> CHOOSE ns \in Namespaces :
                \E r \in WithId(id) : r.at = ns]
  /\ withdrawn = {Ident(r.item) : r \in {q \in rows : ~Valid(q)}}
  /\ erased = {}

-----------------------------------------------------------------------------
\* The rows that writing an item replaces, and the row it leaves.
ReplacedNone(item) == {}
Replaced(item) ==
  {r \in WithId(item.id) : backend = "langgraph" => r.at = item.ns}
\* A row that exists is left as it is.
RowOfFirst(item, old) ==
  IF old = {} THEN [at |-> item.ns, born |-> NextRank, item |-> item]
  ELSE CHOOSE r \in old : TRUE
RowOf(item, old) ==
  [at |-> IF backend = "langgraph" \/ old = {} THEN item.ns ELSE (CHOOSE r \in old : TRUE).at,
   born |-> IF old = {} THEN NextRank ELSE (CHOOSE r \in old : TRUE).born,
   item |-> item]

\* LangGraphMemoryBackend.write, PostgresMemoryBackend.write.
Write(item) ==
  /\ rows' = (rows \ Replaced(item)) \cup {RowOf(item, Replaced(item))}
  /\ index' = [id \in DOMAIN index \cup {item.id} |->
                 IF id = item.id THEN item.ns ELSE index[id]]
  /\ UNCHANGED <<backend, withdrawn, erased>>

\* What get finds: by the side index, or by the key.
Found(id) ==
  {r \in WithId(id) : backend = "langgraph" => r.at = NamespaceOf(id)}

\* invalidate: the row get finds is written again, marked.
Invalidate(id) ==
  /\ WithId(id) # {}
  /\ rows' = {IF r \in Found(id) THEN [r EXCEPT !.item.valid = FALSE] ELSE r : r \in rows}
  /\ withdrawn' = withdrawn \cup {Ident(r.item) : r \in WithId(id)}
  /\ UNCHANGED <<backend, index, erased>>

\* delete_run: list_by_run finds the run's rows in every namespace; each is
\* deleted where the index points, and then its index entry, so that a second
\* row of one id is passed over.
OfRun(s) == {r \in rows : r.item.id[1] = s}
\* Only the oldest row of the run is deleted.
DeletedOldest(s) == {r \in OfRun(s) : \A q \in OfRun(s) : r.born <= q.born}
Deleted(s) ==
  {r \in OfRun(s) : backend = "langgraph" => r.at = NamespaceOf(r.item.id)}
DeleteRun(s) ==
  /\ OfRun(s) # {}
  /\ rows' = rows \ Deleted(s)
  /\ index' = [id \in {i \in DOMAIN index : i[1] # s} |-> index[id]]
  /\ erased' = erased \cup {Ident(r.item) : r \in OfRun(s)}
  /\ UNCHANGED <<backend, withdrawn>>

-----------------------------------------------------------------------------
\* query(namespace, top_k=k): some k rows of the namespace; Postgres orders them,
\* newest first by the creation column.
Newest(Q, R) == \A r \in Q, q \in R \ Q : q.born < r.born
\* The namespace is not looked at.
QueriesAnywhere(ns, k) ==
  kSubset(IF Cardinality(rows) < k THEN Cardinality(rows) ELSE k, rows)
Queries(ns, k) ==
  LET R == {r \in rows : r.at = ns}
      n == IF Cardinality(R) < k THEN Cardinality(R) ELSE k
  IN {Q \in kSubset(n, R) : backend = "postgres" => Newest(Q, R)}

\* PlannerContextBuilder.build: the first TopK of those rows that are valid.
\* Invalidated rows are kept.
BuildAll(Q) ==
  LET n == IF Cardinality(Q) < TopK THEN Cardinality(Q) ELSE TopK
  IN {{r.item : r \in C} : C \in kSubset(n, Q)}
Build(Q) ==
  LET V == {r \in Q : Valid(r)}
      n == IF Cardinality(V) < TopK THEN Cardinality(V) ELSE TopK
  IN {{r.item : r \in C} : C \in {K \in kSubset(n, V) : backend = "postgres" => Newest(K, V)}}
\* Only TopK rows are asked for.
WindowOfTopK == TopK
WindowSize == Window * TopK
Contexts(ns) == UNION {Build(Q) : Q \in Queries(ns, WindowSize)}
=============================================================================
