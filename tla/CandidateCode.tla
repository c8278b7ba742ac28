--------------------------- MODULE CandidateCode ---------------------------
(***************************************************************************)
(* What the coding agent makes of one reply of the coding model, and what  *)
(* the fixed gates say of the package it wrote: CodeChangePlan.from_json,  *)
(* inspect_candidate_source, the torch scaffold check and the candidate    *)
(* runner with its evidence checks.  Operators only.                       *)
(*                                                                         *)
(* A path is a sequence of names; a file is what the gates look at:        *)
(*   [kind |-> "py" or "json" or another suffix,                           *)
(*    class |-> its plugin class or "", scaffold |-> it subclasses         *)
(*    TorchArchitecturePlugin, methods |-> set of names,                   *)
(*    dirty |-> inspect_candidate_source finds a violation]                *)
(* A reply is [json |-> BOOLEAN, files |-> [paths -> files],               *)
(*             manifest |-> path, entry |-> [path, class]]; entry.path is  *)
(* <<>> where the manifest names no source.                                *)
(***************************************************************************)
EXTENDS Naturals, Sequences, FiniteSets

LOCAL IsPrefix(s, t) == Len(s) <= Len(t) /\ SubSeq(t, 1, Len(s)) = s

Base(name) == <<"models", "candidates", name>>

\* A path below any candidate's directory is moved below this candidate's.
Rebased(path, name) ==
  IF Len(path) >= 4 /\ IsPrefix(<<"models", "candidates">>, path)
  THEN Base(name) \o SubSeq(path, 4, Len(path)) ELSE path

\* _candidate_relative_path
RelativePath(path, name) ==
  /\ path # <<>> /\ ".." \notin {path[k] : k \in DOMAIN path}
  /\ IsPrefix(Base(name), Rebased(path, name))

Returned(reply, name) ==
  LET paths == {Rebased(p, name) : p \in DOMAIN reply.files}
  IN  [q \in paths |->
         reply.files[CHOOSE p \in DOMAIN reply.files : Rebased(p, name) = q]]

\* The classes the entry point may mean when the manifest names no source.
Inferred(files, hint) ==
  {q \in DOMAIN files : /\ files[q].kind = "py" /\ files[q].class # ""
                        /\ \/ files[q].class = hint
                           \/ {"train", "estimate_parameters"} \subseteq files[q].methods}

LastName(path) == path[Len(path)]

\* The source file the entry point resolves to, as a set of at most one path.
EntrySource(reply, files) ==
  LET named == reply.entry.path
      same == {q \in DOMAIN files :
                 files[q].kind = "py" /\ LastName(q) = LastName(named)}
  IN  IF named = <<>>
      THEN IF Cardinality(Inferred(files, reply.entry.class)) = 1
           THEN Inferred(files, reply.entry.class) ELSE {}
      ELSE IF named \in DOMAIN files
      THEN {q \in {named} : files[q].kind = "py"}
      ELSE IF Cardinality(same) = 1 THEN same ELSE {}

\* _validate_torch_scaffold_package
ScaffoldOK(file, class) ==
  /\ file.class = class /\ file.scaffold
  /\ "build_model" \in file.methods
  /\ file.methods \cap {"train", "estimate_parameters"} = {}

EntryClass(reply, file) == IF reply.entry.path = <<>> THEN file.class ELSE reply.entry.class

\* CodeChangePlan.from_json: the reply is a package of this candidate.
FromJson(reply, name) ==
  /\ reply.json /\ DOMAIN reply.files # {}
  /\ \A p \in DOMAIN reply.files :
       RelativePath(p, name) /\ reply.files[p].kind \in {"py", "json"}
  /\ RelativePath(reply.manifest, name)
  /\ LET files == Returned(reply, name)
     IN  /\ Rebased(reply.manifest, name) \in DOMAIN files
         /\ \E q \in EntrySource(reply, files) :
              ScaffoldOK(files[q], EntryClass(reply, files[q]))

\* inspect_candidate_source over every Python file.
StaticClean(files) == \A q \in DOMAIN files : files[q].kind = "py" => ~files[q].dirty

\* apply_patch: a path through .env.local is left out and reported.
Written(files) ==
  [q \in {p \in DOMAIN files : ".env.local" \notin {p[k] : k \in DOMAIN p}} |-> files[q]]

\* What can go wrong when the fixed runner loads, validates and trains a
\* candidate: the plugin contract or the parameter budget, the subprocess,
\* the result it reports, and the artifacts that must confirm it.
LoadFaults == {"contract", "over_budget", "no_result"}
TrainFaults == {"timeout", "runner_failed", "not_completed", "hash", "not_finite",
                "count", "no_artifact", "disagrees"}

\* ExecutionAgent.execute on run_candidate_model: every fault reaches it as
\* an exception that is neither TimeoutError nor MemoryError.
CandidateClass(fault) == IF fault = "none" THEN "ok" ELSE "error"

\* ExecutionAgent.execute on run_training, which reports what the training
\* script left behind; a subprocess timeout is no TimeoutError either.
TrainingClass(fault) ==
  CASE fault = "none" -> "ok"
    [] fault = "not_finite" -> "nan"
    [] fault = "no_artifact" -> "missing_artifact"
    [] OTHER -> "error"
============================================================================
