---------------------------- MODULE RunRegistry ----------------------------
(***************************************************************************)
(* The HTTP handlers of server.py that start, stream, cancel and review    *)
(* the runs of one session.  Two dictionaries keyed by the session id,     *)
(* _cancel_events and app.state.approval_controllers, are all a later      *)
(* request has to reach a run: every run of the session overwrites and     *)
(* removes the same entries.  A multi-agent run is a graph on a thread of  *)
(* its own, which hands events over an asyncio queue and goes on when the  *)
(* client is gone; an agent run is a generator the client drives.          *)
(***************************************************************************)
EXTENDS Approval, Sequences

CONSTANTS
  Reviewed, \* the runs posted, if to /multi-agent, with approval_mode "review"
  Roles,    \* bound: loop events of an agent run, one more than a graph's roles
  NoRun     \* dict.get's None

ASSUME RegistryAssumption == Reviewed \subseteq Runs /\ Roles \in Nat /\ NoRun \notin Runs

VARIABLES
  agents,   \* the runs posted to /agent or /controlled-search
  graphs,   \* the runs posted to /multi-agent
  stage,    \* stage[r]: where the request of run r is
  cancelOf, \* _cancel_events[session]: whose event it is
  ctrlOf,   \* approval_controllers[session]: whose controller it is
  event,    \* event[r]: cancel_evt.is_set()
  thread,   \* thread[r]: the producer thread, which runs the graph
  queue,    \* queue[r]: the asyncio queue between the two
  sent,     \* sent[r]: what the client was sent
  late,     \* late[r]: loop events sent with the cancel event set (history)
  orphans   \* reviews begun after their client had gone (history)

registryVars == <<agents, graphs, stage, cancelOf, ctrlOf, event, thread, queue, sent, late, orphans>>
serverVars == <<approvalVars, registryVars>>

kinds == <<agents, graphs>>
Stages == {"new", "refused", "response", "abandoned", "streaming", "yielded",
           "closed", "gone"}
Live(r) == stage[r] \in {"response", "streaming", "yielded"}

Move(r, from, to) == stage[r] \in from /\ stage' = [stage EXCEPT ![r] = to]

\* Mutants: no finally clause, or one that leaves the controller.
UnregisterForgets == UNCHANGED <<cancelOf, ctrlOf>>
UnregisterKeepsController == cancelOf' = NoRun /\ UNCHANGED ctrlOf

\* The finally clause of a stream: pop(session_id, None), whoever's entry it is.
Unregister == cancelOf' = NoRun /\ ctrlOf' = NoRun

-----------------------------------------------------------------------------
(* Multi-agent requests. *)

\* A request, by what decides whether a graph can be built from it: its
\* approval mode, its provider and its named anchor ("" for none).
Requests == [mode : {"auto", "review", "other"}, provider : {"deepseek", "other"},
             profile : {"", "tiny-mem15-mp3-h80-40db", "other"}]
RegisteredAnchor(q) == q.profile # "other"
BuildGraph(q) == q.provider = "deepseek" /\ RegisteredAnchor(q)

\* The cancel event is registered first; an approval mode the controller does
\* not know ends the request there.  A graph that cannot be built ends it with
\* both entries removed.
PostGraph(r) ==
  /\ graphs' = graphs \cup {r} /\ UNCHANGED agents
  /\ \E q \in Requests :
       /\ q.mode # IF r \in Reviewed THEN "auto" ELSE "review"
       /\ \/ /\ q.mode # "other" /\ BuildGraph(q)
             /\ Move(r, {"new"}, "response")
             /\ cancelOf' = r /\ ctrlOf' = r
          \/ /\ q.mode # "other" /\ ~BuildGraph(q)
             /\ Move(r, {"new"}, "refused")
             /\ Unregister
          \/ /\ q.mode = "other"
             /\ Move(r, {"new"}, "refused")
             /\ cancelOf' = r /\ UNCHANGED ctrlOf
  /\ UNCHANGED <<approvalVars, event, thread, queue, sent, late, orphans>>

\* The response is iterated for the first time: the producer thread starts.
StartGraph(r) ==
  /\ r \in graphs
  /\ Move(r, {"response"}, "streaming")
  /\ thread' = [thread EXCEPT ![r] = "busy"]
  /\ UNCHANGED <<approvalVars, kinds, cancelOf, ctrlOf, event, queue, sent, late, orphans>>

Put(r, items) == queue' = [queue EXCEPT ![r] = @ \o items]
InReview(r) == \E a \in Ids : a[1] = r /\ phase[a] \notin {"unborn", "returned"}

\* A node ends and its role event is put.
PutRole(r) ==
  /\ thread[r] = "busy" /\ ~InReview(r)
  /\ Len(sent[r]) + Len(queue[r]) < Roles - 1
  /\ Put(r, <<"role">>)
  /\ UNCHANGED <<approvalVars, kinds, stage, cancelOf, ctrlOf, event, thread, sent, late, orphans>>

\* Mutant: the thread has no finally clause.
PutLastAlone(r) ==
  /\ thread[r] = "busy" /\ ~InReview(r)
  /\ thread' = [thread EXCEPT ![r] = "over"]
  /\ \/ Put(r, <<"terminal", "none">>)
     \/ Put(r, <<"error">>)
  /\ UNCHANGED <<approvalVars, kinds, stage, cancelOf, ctrlOf, event, sent, late, orphans>>

\* The terminal node's event, or the error the graph ended with, and then, in
\* the finally clause, the sentinel.
PutLast(r) ==
  /\ thread[r] = "busy" /\ ~InReview(r)
  /\ thread' = [thread EXCEPT ![r] = "over"]
  /\ \E item \in {"terminal", "error"} : Put(r, <<item, "none">>)
  /\ UNCHANGED <<approvalVars, kinds, stage, cancelOf, ctrlOf, event, sent, late, orphans>>

\* A node calls the controller's review, and waits in it (in mode auto the
\* call returns at once, and no review begins).
BeginReview(a) ==
  /\ a[1] \in Reviewed
  /\ thread[a[1]] = "busy" /\ ~InReview(a[1])
  /\ Register(a)
  /\ orphans' = IF stage[a[1]] = "gone" THEN orphans \cup {a} ELSE orphans
  /\ UNCHANGED <<kinds, stage, cancelOf, ctrlOf, event, thread, queue, sent, late>>

GoOnReview(a) ==
  /\ Reviewing(a) \/ Return(a)
  /\ UNCHANGED registryVars

\* Mutant: the stream ends before it has emptied the queue.
DeliverStopsAtTerminal(r) ==
  /\ stage[r] = "streaming" /\ queue[r] # <<>>
  /\ queue' = [queue EXCEPT ![r] = Tail(@)]
  /\ IF Head(queue[r]) \in {"none", "terminal"}
     THEN Move(r, {"streaming"}, "closed") /\ Unregister /\ UNCHANGED sent
     ELSE /\ sent' = [sent EXCEPT ![r] = Append(@, Head(queue[r]))]
          /\ UNCHANGED <<stage, cancelOf, ctrlOf>>
  /\ UNCHANGED <<approvalVars, kinds, event, thread, late, orphans>>

\* The stream sends the next item; at the sentinel it ends.
Deliver(r) ==
  /\ r \in graphs
  /\ stage[r] = "streaming" /\ queue[r] # <<>>
  /\ queue' = [queue EXCEPT ![r] = Tail(@)]
  /\ IF Head(queue[r]) = "none"
     THEN Move(r, {"streaming"}, "closed") /\ Unregister /\ UNCHANGED sent
     ELSE /\ sent' = [sent EXCEPT ![r] = Append(@, Head(queue[r]))]
          /\ UNCHANGED <<stage, cancelOf, ctrlOf>>
  /\ UNCHANGED <<approvalVars, kinds, event, thread, late, orphans>>

-----------------------------------------------------------------------------
(* Agent requests. *)

\* A controlled search is refused if its model or field lists do not fit.
PostAgent(r) ==
  /\ agents' = agents \cup {r} /\ UNCHANGED graphs
  /\ Move(r, {"new"}, "response") \/ Move(r, {"new"}, "refused")
  /\ UNCHANGED <<approvalVars, cancelOf, ctrlOf, event, thread, queue, sent, late, orphans>>

\* The generator registers its cancel event when it is iterated for the first
\* time, and removes the entry again if the provider is unknown.
StartAgent(r) ==
  /\ r \in agents
  /\ \/ Move(r, {"response"}, "streaming") /\ cancelOf' = r /\ UNCHANGED sent
     \/ /\ Move(r, {"response"}, "closed") /\ cancelOf' = NoRun
        /\ sent' = [sent EXCEPT ![r] = <<"error">>]
  /\ UNCHANGED <<approvalVars, kinds, ctrlOf, event, thread, queue, late, orphans>>

\* The loop's next event is sent; the generator is suspended in the yield.
AgentYield(r) ==
  /\ r \in agents
  /\ Len(sent[r]) < Roles
  /\ Move(r, {"streaming"}, "yielded")
  /\ sent' = [sent EXCEPT ![r] = Append(@, "role")]
  /\ late' = [late EXCEPT ![r] = IF event[r] THEN @ + 1 ELSE @]
  /\ UNCHANGED <<approvalVars, kinds, cancelOf, ctrlOf, event, thread, queue, orphans>>

\* Mutant: the registry is asked, not the event the run has created.
AgentResumeAsksRegistry(r) ==
  /\ r \in agents
  /\ IF cancelOf # NoRun /\ event[cancelOf]
     THEN /\ Move(r, {"yielded"}, "closed") /\ cancelOf' = NoRun
          /\ sent' = [sent EXCEPT ![r] = Append(@, "cancelled")]
     ELSE Move(r, {"yielded"}, "streaming") /\ UNCHANGED <<cancelOf, sent>>
  /\ UNCHANGED <<approvalVars, kinds, ctrlOf, event, thread, queue, late, orphans>>

\* The generator goes on after the yield and looks at its cancel event.
AgentResume(r) ==
  /\ r \in agents
  /\ IF event[r]
     THEN /\ Move(r, {"yielded"}, "closed") /\ cancelOf' = NoRun
          /\ sent' = [sent EXCEPT ![r] = Append(@, "cancelled")]
     ELSE Move(r, {"yielded"}, "streaming") /\ UNCHANGED <<cancelOf, sent>>
  /\ UNCHANGED <<approvalVars, kinds, ctrlOf, event, thread, queue, late, orphans>>

\* The loop ends, or raises and an error event is sent.
AgentEnd(r) ==
  /\ r \in agents
  /\ Move(r, {"streaming"}, "closed")
  /\ cancelOf' = NoRun
  /\ \/ UNCHANGED sent
     \/ sent' = [sent EXCEPT ![r] = Append(@, "error")]
  /\ UNCHANGED <<approvalVars, kinds, ctrlOf, event, thread, queue, late, orphans>>

-----------------------------------------------------------------------------
(* The client and the other handlers. *)

\* The client disconnects: the generator is closed and its finally clause runs,
\* unless it was never iterated.  The graph's thread goes on.
Leave(r) ==
  /\ \/ /\ Move(r, {"streaming", "yielded"}, "gone")
        /\ IF r \in agents THEN cancelOf' = NoRun /\ UNCHANGED ctrlOf ELSE Unregister
     \/ Move(r, {"response"}, "abandoned") /\ UNCHANGED <<cancelOf, ctrlOf>>
  /\ UNCHANGED <<approvalVars, kinds, event, thread, queue, sent, late, orphans>>

\* Mutant: the entry is taken out of the registry.
CancelRunTakes ==
  /\ cancelOf # NoRun
  /\ event' = [event EXCEPT ![cancelOf] = TRUE]
  /\ cancelOf' = NoRun
  /\ UNCHANGED <<approvalVars, kinds, stage, ctrlOf, thread, queue, sent, late, orphans>>

\* POST /cancel: without an entry nothing happens (and the reply is the same).
CancelRun ==
  /\ cancelOf # NoRun
  /\ event' = [event EXCEPT ![cancelOf] = TRUE]
  /\ UNCHANGED <<approvalVars, kinds, stage, cancelOf, ctrlOf, thread, queue, sent, late, orphans>>

\* POST /approvals/.../decision: 404 unless the review is one of the
\* registered controller's.
DecideApproval(a, d) ==
  /\ ctrlOf = a[1]
  /\ Decide(a, d)
  /\ UNCHANGED registryVars

-----------------------------------------------------------------------------
ServerInit ==
  /\ ApprovalInit
  /\ agents = {} /\ graphs = {}
  /\ stage = [r \in Runs |-> "new"]
  /\ cancelOf = NoRun /\ ctrlOf = NoRun
  /\ event = [r \in Runs |-> FALSE]
  /\ thread = [r \in Runs |-> "off"]
  /\ queue = [r \in Runs |-> <<>>]
  /\ sent = [r \in Runs |-> <<>>]
  /\ late = [r \in Runs |-> 0]
  /\ orphans = {}

Graph(r) == \/ PutRole(r) \/ PutLast(r)
            \/ \E n \in 1..Reviews : BeginReview(<<r, n>>) \/ GoOnReview(<<r, n>>)
Stream(r) == \/ StartGraph(r) \/ Deliver(r)
             \/ StartAgent(r) \/ AgentYield(r) \/ AgentResume(r) \/ AgentEnd(r)

ServerNext == \/ \E r \in Runs : PostGraph(r) \/ PostAgent(r) \/ Graph(r) \/ Stream(r) \/ Leave(r)
        \/ CancelRun
        \/ \E a \in Ids, d \in Decisions : DecideApproval(a, d)

ServerSafety == ServerInit /\ [][ServerNext]_serverVars

\* The event loop and the threads run; nobody needs to post, decide, cancel or stay.
ServerSpec == ServerSafety /\ \A r \in Runs : WF_serverVars(Graph(r)) /\ WF_serverVars(Stream(r))

-----------------------------------------------------------------------------
Items == {"role", "terminal", "error", "none", "cancelled"}

ServerTypeOK ==
  /\ ApprovalTypeOK
  /\ agents \subseteq Runs /\ graphs \subseteq Runs /\ agents \cap graphs = {}
  /\ stage \in [Runs -> Stages]
  /\ cancelOf \in Runs \cup {NoRun} /\ ctrlOf \in graphs \cup {NoRun}
  /\ event \in [Runs -> BOOLEAN]
  /\ thread \in [Runs -> {"off", "busy", "over"}]
  /\ queue \in [Runs -> Seq(Items)] /\ sent \in [Runs -> Seq(Items)]
  /\ late \in [Runs -> Nat]
  /\ orphans \subseteq Ids

\* Nobody can approve for a run whose client is gone: the graph goes on, but a
\* review it then begins is rejected by its timeout, even when another run of
\* the session is being reviewed at that time.
OrphansRejected == \A a \in orphans : phase[a] = "returned" => result[a] = "rejected"

\* A connected run loses its place in the registry, and with it cancellation
\* and approval, only by a step of another request of the session.
LosesEntryToAnother ==
  [][\A r \in Runs :
       (Live(r) /\ Live(r)' /\ \E e \in {<<cancelOf, cancelOf'>>, <<ctrlOf, ctrlOf'>>} : e[1] = r /\ e[2] # r)
         => \E s \in Runs \ {r} : stage'[s] # stage[s]]_serverVars

\* A client that stays until the stream of a graph ends has been told how the
\* run ended, after all else it was told, and the graph is over.
ClosedIsTold ==
  \A r \in graphs : stage[r] = "closed" =>
    /\ thread[r] = "over"
    /\ sent[r] # <<>> /\ sent[r][Len(sent[r])] \in {"terminal", "error"}
    /\ \A i \in 1..(Len(sent[r]) - 1) : sent[r][i] = "role"

\* A cancelled agent run sends at most the one event its loop was producing,
\* also when its entry was removed after the cancel.
CancelIsPrompt == \A r \in agents : late[r] <= 1

\* With no run under way, an entry is left behind only by a request that was
\* refused, or whose client left before the first byte.
LeakExplained ==
  (\A r \in Runs : ~Live(r)) =>
    \A r \in {cancelOf, ctrlOf} \cap Runs : stage[r] \in {"refused", "abandoned"}

\* Every stream ends and every graph's thread ends, also those of a client that
\* left, whatever nobody decides.
RunsEnd == \A r \in Runs : /\ stage[r] \in {"response", "streaming"}
                                ~> stage[r] \in {"closed", "gone", "abandoned"}
                           /\ thread[r] = "busy" ~> thread[r] = "over"

\* Every review returns without anybody deciding it.
ReviewsReturn == \A a \in Ids : phase[a] = "waiting" ~> phase[a] = "returned"

(* Reviews are decided by people: no silence approves, no rejection is        *)
(* reversed, what can be decided is what is waiting, and the reviews of a run *)
(* whose stream is gone can only be rejected.                                 *)
ReviewsSound ==
  /\ ApprovalIsHuman
  /\ RejectionStands
  /\ OnlyCurrentPending
  /\ OrphansRejected

(* A client that stays is told everything, a cancelled agent stream shows at  *)
(* most the event at hand, and an entry of the registries outlives its stream *)
(* only where that stream never began or lost it to another run.              *)
StreamsSound ==
  /\ ServerTypeOK
  /\ ClosedIsTold
  /\ CancelIsPrompt
  /\ LeakExplained

(* Every run that is posted ends, and every review that waits returns.        *)
AllEnd == RunsEnd /\ ReviewsReturn

=============================================================================
