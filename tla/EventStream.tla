---------------------------- MODULE EventStream ----------------------------
(***************************************************************************)
(* The SSE stream of a Fixed Workflow session (stream_sse_events) and the  *)
(* client that resumes it with Last-Event-ID.  The runtime records each    *)
(* event in the control plane and yields it; the server numbers it from an *)
(* in-memory counter of the process and hands it to the connection, which  *)
(* may break with any number of messages in transit.  A client that        *)
(* reconnects is first sent the persisted events past its last id, under   *)
(* their sequence numbers, and then the events of a NEW execution of the   *)
(* request.                                                                *)
(***************************************************************************)
EXTENDS Integers, Sequences, FiniteSets

CONSTANTS
  EventsPerRun, \* events one execution of the request yields, start to complete
  MaxRuns,      \* bound on the executions of a run of the model
  MaxRestarts   \* bound on the server restarts of a run of the model

ASSUME EventStreamAssumption ==
  /\ EventsPerRun \in Nat \ {0}
  /\ MaxRuns \in Nat \ {0}
  /\ MaxRestarts \in Nat

VARIABLES
  log,       \* persisted events in order: log[i] has sequence number i - 1
  run,       \* executions started so far; the current one while stream = "live"
  emitted,   \* events the current execution has yielded
  stream,    \* "none", "replaying" or "live"
  toReplay,  \* the part of log (by index) still to be replayed
  replayed,  \* the replayed id the counter has not taken over yet, or None
  transit,   \* messages handed to the connection and not yet read
  counter,   \* _session_event_counters[session_id]
  restarts,  \* server restarts so far
  got,       \* the events the client has read
  lastId,    \* the client's Last-Event-ID
  since      \* the execution the client first connected to (history)

execution == <<log, run, emitted>>
connection == <<stream, toReplay, replayed, transit>>
server == <<counter, restarts>>
client == <<got, lastId, since>>
streamVars == <<execution, connection, server, client>>

None == -1

\* An event is the k-th event of the r-th execution.
Events == [run : 1..MaxRuns, k : 1..EventsPerRun]
Messages == [id : Nat, event : Events]

Larger(m, n) == IF m > n THEN m ELSE n

-----------------------------------------------------------------------------
(* The client *)

\* The client reads one message; collect_until keeps the largest id.
Receive ==
  /\ transit # <<>>
  /\ got' = got \cup {Head(transit).event}
  /\ lastId' = Larger(lastId, Head(transit).id)
  /\ transit' = Tail(transit)
  /\ UNCHANGED <<execution, stream, toReplay, replayed, server, since>>

StartExecution ==
  /\ run < MaxRuns
  /\ run' = run + 1
  /\ emitted' = 0
  /\ stream' = "live"
  /\ UNCHANGED log

\* A new client opens the session without Last-Event-ID: nothing is replayed.
Connect ==
  /\ stream = "none"
  /\ StartExecution
  /\ got' = {}
  /\ lastId' = None
  /\ since' = run + 1
  /\ UNCHANGED <<toReplay, replayed, transit, server>>

\* get_events_since: the persisted events, by index, whose sequence number is
\* larger than id.
EventsSince(id) == [n \in 1..(Len(log) - 1 - id) |-> id + 1 + n]

\* Mutant: the replay skips the event after the last one.
ReconnectSkips ==
  /\ stream = "none"
  /\ since > 0
  /\ stream' = "replaying"
  /\ toReplay' = EventsSince(lastId + 1)
  /\ UNCHANGED <<execution, replayed, transit, server, client>>

\* The client comes back with the last id it saw; collect_until starts over
\* from -1 when that id was 0 ("last_event_id or -1").
Reconnect ==
  /\ stream = "none"
  /\ since > 0
  /\ stream' = "replaying"
  /\ toReplay' = EventsSince(lastId)
  /\ lastId' = IF lastId = 0 THEN None ELSE lastId
  /\ UNCHANGED <<execution, replayed, transit, server, got, since>>

-----------------------------------------------------------------------------
(* The server *)

\* One turn of the replay loop: the counter takes over the id yielded by the
\* turn before, then the next event is yielded.
Replay ==
  /\ stream = "replaying"
  /\ toReplay # <<>>
  /\ LET i == Head(toReplay)
     IN  /\ transit' = Append(transit, [id |-> i - 1, event |-> log[i]])
         /\ replayed' = i - 1
  /\ counter' = Larger(counter, replayed)
  /\ toReplay' = Tail(toReplay)
  /\ UNCHANGED <<execution, stream, restarts, client>>

\* runtime.run(request) starts over once the replay is exhausted.
RunAfterReplay ==
  /\ stream = "replaying"
  /\ toReplay = <<>>
  /\ StartExecution
  /\ counter' = Larger(counter, replayed)
  /\ replayed' = None
  /\ UNCHANGED <<toReplay, transit, restarts, client>>

\* Mutant: an execution yields one event more than it has.
EmitOneMore ==
  /\ stream = "live"
  /\ emitted <= EventsPerRun
  /\ emitted' = emitted + 1
  /\ log' = Append(log, [run |-> run, k |-> emitted + 1])
  /\ counter' = counter + 1
  /\ transit' = Append(transit, [id |-> counter', event |-> log'[Len(log')]])
  /\ UNCHANGED <<run, stream, toReplay, replayed, restarts, client>>

\* Mutant: the id is taken before the event is persisted and counted twice.
EmitCountsTwice ==
  /\ stream = "live"
  /\ emitted < EventsPerRun
  /\ emitted' = emitted + 1
  /\ log' = Append(log, [run |-> run, k |-> emitted + 1])
  /\ counter' = counter + 2
  /\ transit' = Append(transit, [id |-> counter', event |-> log'[Len(log')]])
  /\ UNCHANGED <<run, stream, toReplay, replayed, restarts, client>>

\* _record, the yield and _next_event_id, with no suspension between them.
Emit ==
  /\ stream = "live"
  /\ emitted < EventsPerRun
  /\ emitted' = emitted + 1
  /\ log' = Append(log, [run |-> run, k |-> emitted + 1])
  /\ counter' = counter + 1
  /\ transit' = Append(transit, [id |-> counter', event |-> log'[Len(log')]])
  /\ UNCHANGED <<run, stream, toReplay, replayed, restarts, client>>

\* The generator is closed and the execution abandoned; what is in transit is
\* lost with the connection.
Close ==
  /\ stream' = "none"
  /\ toReplay' = <<>>
  /\ replayed' = None
  /\ transit' = <<>>
  /\ UNCHANGED <<execution, client>>

Finish ==
  /\ stream = "live"
  /\ emitted = EventsPerRun
  /\ transit = <<>>
  /\ Close
  /\ UNCHANGED server

\* Mutant: the session's counter is cleared together with its connection.
DisconnectForgetsCounter ==
  /\ stream # "none"
  /\ Close
  /\ counter' = 0
  /\ UNCHANGED restarts

Disconnect ==
  /\ stream # "none"
  /\ Close
  /\ UNCHANGED server

\* The server process restarts: the counters are gone, the database is not.
Restart ==
  /\ restarts < MaxRestarts
  /\ restarts' = restarts + 1
  /\ counter' = 0
  /\ Close

-----------------------------------------------------------------------------
StreamInit ==
  /\ log = <<>>
  /\ run = 0
  /\ emitted = 0
  /\ stream = "none"
  /\ toReplay = <<>>
  /\ replayed = None
  /\ transit = <<>>
  /\ counter = 0
  /\ restarts = 0
  /\ got = {}
  /\ lastId = None
  /\ since = 0

StreamNext == Connect \/ Reconnect \/ Receive \/ Replay \/ RunAfterReplay \/ Emit
          \/ Finish \/ Disconnect \/ Restart

StreamSafety == StreamInit /\ [][StreamNext]_streamVars

-----------------------------------------------------------------------------
StreamTypeOK ==
  /\ log \in Seq(Events)
  /\ run \in 0..MaxRuns
  /\ emitted \in 0..EventsPerRun
  /\ stream \in {"none", "replaying", "live"}
  /\ toReplay \in Seq(DOMAIN log)
  /\ replayed \in Nat \cup {None}
  /\ transit \in Seq(Messages)
  /\ counter \in Nat
  /\ restarts \in 0..MaxRestarts
  /\ got \subseteq Events
  /\ lastId \in Nat \cup {None}
  /\ since \in 0..MaxRuns

\* Persisted events of executions the client was connected to that it was not
\* sent and that neither this connection nor a reconnection will bring it.
Lost ==
  {log[i] : i \in {j \in DOMAIN log :
      /\ log[j].run >= since
      /\ log[j] \notin got
      /\ \A k \in DOMAIN transit : transit[k].event # log[j]
      /\ \A k \in DOMAIN toReplay : toReplay[k] # j
      /\ ~(stream = "none" /\ j - 1 > lastId)}}

\* Connections of the client that have ended.
Ended == run - since + (IF stream = "live" THEN 0 ELSE 1)

\* Live ids count from one and sequence numbers from zero, yet a connection
\* that breaks costs the client at most one event, however many messages were
\* in transit, however many replays before it were cut short, and also when the
\* server restarted in between.
AtMostOneLostPerConnection == since > 0 => Cardinality(Lost) <= Ended

\* Until the process restarts, the client is only sent ids larger than the last
\* one it knows, across replays, live events and any number of reconnections: a
\* live id never falls behind a replayed sequence number.
IdsIncrease ==
  restarts = 0 =>
    \A m \in DOMAIN transit :
      /\ transit[m].id > lastId
      /\ \A n \in DOMAIN transit : n < m => transit[n].id < transit[m].id

\* A Last-Event-ID never points past what is persisted, whatever connections
\* broke and however often the process and its counters restarted: a
\* reconnection cannot skip events that are not yet written.
LastIdPersisted == lastId <= Len(log)

(* The ids a client sees increase within a process of the server and never   *)
(* run ahead of the log it resumes from.                                     *)
IdsSound ==
  /\ StreamTypeOK
  /\ IdsIncrease
  /\ LastIdPersisted

=============================================================================
