----------------------------- MODULE HarnessRun -----------------------------
(***************************************************************************)
(* The runs of one session: ExperimentHarnessRuntime.run with the retries  *)
(* of ToolRegistry.run, the session file of SessionStore and the trace.    *)
(* A run is an async generator: between two suspensions (a yield, or the   *)
(* wait for a tool) it is not interrupted by another run of the session,   *)
(* but its consumer may drop it at any suspension and the process may die  *)
(* at any time, also in the middle of a save, which overwrites the file in *)
(* place.  Each run has its own copy of the session, loaded at its start.  *)
(***************************************************************************)
EXTENDS Integers

CONSTANTS
  HarnessRuns,      \* runs of the session
  Steps,     \* number of steps of the request
  Retries,   \* call.retries
  Retryable  \* the error types the retry policy retries

ErrorTypes == {"timeout_error", "tool_error"}

ASSUME HarnessAssumption ==
  /\ Steps \in Nat \ {0}
  /\ Retries \in Nat
  /\ Retryable \subseteq ErrorTypes

VARIABLES
  file,      \* sessions/<session_id>.json
  session,   \* session[r]: the session object of run r
  pc,        \* pc[r]: "idle", suspended "between" steps or in a "tool", "ended"
  from,      \* from[r]: request.resume_from_step
  step,      \* step[r]: the last step run r has started
  attempt,   \* attempt[r]: the attempt ToolRegistry.run is at
  cancelled, \* cancelled[r]: controller.cancelled
  trace,     \* the tool_end events of the trace file: <<run, step>>
  delivered, \* steps whose tool_end event a consumer was given (history)
  overlapped, \* two runs of the session have been active at once (history)
  skipped    \* steps a run resumed behind that its session had not done (history)

local == <<session, pc, from, step, attempt, cancelled>>
harnessVars == <<file, local, trace, delivered, overlapped, skipped>>

StepIds == 1..Steps
Status == {"initialized", "running", "succeeded", "failed", "cancelled"}
Sessions == [status : Status, completed : SUBSET StepIds]

\* SessionStore.create; a file that does not exist is the same to load_or_create.
Created == [status |-> "initialized", completed |-> {}]

\* What a save that was cut short leaves: no JSON.
Torn == [status |-> "torn", completed |-> {}]

Active(r) == pc[r] \in {"between", "tool"}

-----------------------------------------------------------------------------
(* Parts of a run *)

\* _should_retry, and the attempts call.retries allows.
MayRetryOnceMore(r, e) == e \in Retryable /\ attempt[r] <= Retries + 1
MayRetry(r, e) == e \in Retryable /\ attempt[r] < Retries + 1

\* Mutant: the step to resume from is skipped too.
RemainingAfterResume(r) == {i \in StepIds : i > step[r] /\ i > from[r]}

\* The steps the loop has still to execute.
Remaining(r) == {i \in StepIds : i > step[r] /\ i >= from[r]}

\* What resume_from_step may say: any step, done or not, of a fresh session or of
\* an old one.  A number below 1 is as good as 1, and all behind the last step are
\* the same.
ResumePoints == 1..Steps + 1

Save(r) == file' = session'[r]

\* The status is set, the event recorded, the session saved, the generator done.
End(r, status) ==
  /\ session' = [session EXCEPT ![r].status = status]
  /\ pc' = [pc EXCEPT ![r] = "ended"]
  /\ Save(r)

-----------------------------------------------------------------------------
(* Actions of a run *)

\* load_or_create, the start event and its yield.
Start(r) ==
  /\ pc[r] = "idle"
  /\ file # Torn
  /\ session' = [session EXCEPT ![r] = [file EXCEPT !.status = "running"]]
  /\ \E i \in ResumePoints :
       /\ from' = [from EXCEPT ![r] = i]
       /\ skipped' = skipped \cup (1..(i - 1) \ file.completed)
  /\ pc' = [pc EXCEPT ![r] = "between"]
  /\ overlapped' = (overlapped \/ \E q \in HarnessRuns : Active(q))
  /\ UNCHANGED <<file, step, attempt, cancelled, trace, delivered>>

\* load raises on a file that is no JSON: nothing is yielded.
StartFails(r) ==
  /\ pc[r] = "idle"
  /\ file = Torn
  /\ pc' = [pc EXCEPT ![r] = "ended"]
  /\ UNCHANGED <<file, session, from, step, attempt, cancelled, trace, delivered,
                 overlapped, skipped>>

\* The next step: its tool_start event.
StartTool(r) ==
  /\ pc[r] = "between"
  /\ ~cancelled[r]
  /\ \E i \in Remaining(r) :
       /\ \A j \in Remaining(r) : i <= j
       /\ step' = [step EXCEPT ![r] = i]
  /\ attempt' = [attempt EXCEPT ![r] = 1]
  /\ pc' = [pc EXCEPT ![r] = "tool"]
  /\ UNCHANGED <<file, session, from, cancelled, trace, delivered, overlapped, skipped>>

\* Mutant: the session is not saved after a step.
ToolSucceedsUnsaved(r) ==
  /\ pc[r] = "tool"
  /\ session' = [session EXCEPT ![r].completed = @ \cup {step[r]}]
  /\ trace' = trace \cup {<<r, step[r]>>}
  /\ delivered' = delivered \cup {step[r]}
  /\ pc' = [pc EXCEPT ![r] = "between"]
  /\ UNCHANGED <<file, from, step, attempt, cancelled, overlapped, skipped>>

\* The output is merged, the tool_end event recorded, the session saved and the
\* event yielded.
ToolSucceeds(r) ==
  /\ pc[r] = "tool"
  /\ session' = [session EXCEPT ![r].completed = @ \cup {step[r]}]
  /\ trace' = trace \cup {<<r, step[r]>>}
  /\ Save(r)
  /\ delivered' = delivered \cup {step[r]}
  /\ pc' = [pc EXCEPT ![r] = "between"]
  /\ UNCHANGED <<from, step, attempt, cancelled, overlapped, skipped>>

\* Mutant: a retry starts the step afresh, its attempts with it.
ToolFailsStartsAfresh(r, e) ==
  /\ pc[r] = "tool"
  /\ \/ /\ MayRetry(r, e)
        /\ step' = [step EXCEPT ![r] = @ - 1]
        /\ pc' = [pc EXCEPT ![r] = "between"]
        /\ UNCHANGED <<file, session>>
     \/ ~MayRetry(r, e) /\ End(r, "failed") /\ UNCHANGED step
  /\ UNCHANGED <<from, attempt, cancelled, trace, delivered, overlapped, skipped>>

\* Mutant: the step is entered as completed before its result is looked at.
ToolFailsCompletes(r, e) ==
  /\ pc[r] = "tool"
  /\ ~MayRetry(r, e)
  /\ session' = [session EXCEPT ![r].completed = @ \cup {step[r]},
                                ![r].status = "failed"]
  /\ pc' = [pc EXCEPT ![r] = "ended"]
  /\ Save(r)
  /\ UNCHANGED <<from, step, attempt, cancelled, trace, delivered, overlapped, skipped>>

\* An attempt fails: the next one, or the error event and the end of the run.
ToolFails(r, e) ==
  /\ pc[r] = "tool"
  /\ \/ /\ MayRetry(r, e)
        /\ attempt' = [attempt EXCEPT ![r] = @ + 1]
        /\ UNCHANGED <<file, session, pc>>
     \/ ~MayRetry(r, e) /\ End(r, "failed") /\ UNCHANGED attempt
  /\ UNCHANGED <<from, step, cancelled, trace, delivered, overlapped, skipped>>

\* The controller is looked at between two steps only.
EndCancelled(r) ==
  /\ pc[r] = "between"
  /\ cancelled[r]
  /\ Remaining(r) # {}
  /\ End(r, "cancelled")
  /\ UNCHANGED <<from, step, attempt, cancelled, trace, delivered, overlapped, skipped>>

Complete(r) ==
  /\ pc[r] = "between"
  /\ Remaining(r) = {}
  /\ End(r, "succeeded")
  /\ UNCHANGED <<from, step, attempt, cancelled, trace, delivered, overlapped, skipped>>

-----------------------------------------------------------------------------
(* The world around the runs *)

Cancel(r) ==
  /\ Active(r)
  /\ ~cancelled[r]
  /\ cancelled' = [cancelled EXCEPT ![r] = TRUE]
  /\ UNCHANGED <<file, session, pc, from, step, attempt, trace, delivered, overlapped, skipped>>

\* The traces a run that is cut short can leave: the tool_end event is recorded
\* before the session is saved.
LastTraces(rs) == {trace} \cup {trace \cup {<<r, step[r]>>} : r \in {q \in rs : pc[q] = "tool"}}

\* The consumer closes the generator, a hook or the control plane's record raises,
\* or the tool is unknown: nothing is saved.
Drop(r) ==
  /\ Active(r)
  /\ pc' = [pc EXCEPT ![r] = "ended"]
  /\ trace' \in LastTraces({r})
  /\ UNCHANGED <<file, session, from, step, attempt, cancelled, delivered, overlapped, skipped>>

\* The runs whose next step saves the session.
Saving(r) == pc[r] = "tool" \/ (pc[r] = "between" /\ (cancelled[r] \/ Remaining(r) = {}))

\* The process dies with all its runs; the files stay, except that a save that
\* had begun leaves a torn one.
CrashRun ==
  /\ \E r \in HarnessRuns : Active(r)
  /\ file' \in {file} \cup {Torn : r \in {q \in HarnessRuns : Saving(q)}}
  /\ trace' \in LastTraces(HarnessRuns)
  /\ pc' = [r \in HarnessRuns |-> IF Active(r) THEN "ended" ELSE pc[r]]
  /\ UNCHANGED <<session, from, step, attempt, cancelled, delivered, overlapped, skipped>>

-----------------------------------------------------------------------------
HarnessInit ==
  /\ file = Created
  /\ session = [r \in HarnessRuns |-> Created]
  /\ pc = [r \in HarnessRuns |-> "idle"]
  /\ from = [r \in HarnessRuns |-> 1]
  /\ step = [r \in HarnessRuns |-> 0]
  /\ attempt = [r \in HarnessRuns |-> 0]
  /\ cancelled = [r \in HarnessRuns |-> FALSE]
  /\ trace = {}
  /\ delivered = {}
  /\ overlapped = FALSE
  /\ skipped = {}

Proceed(r) ==
  \/ StartTool(r) \/ ToolSucceeds(r) \/ EndCancelled(r) \/ Complete(r)
  \/ \E e \in ErrorTypes : ToolFails(r, e)

HarnessNext ==
  \/ \E r \in HarnessRuns : Start(r) \/ StartFails(r) \/ Proceed(r) \/ Cancel(r) \/ Drop(r)
  \/ CrashRun

HarnessSafety == HarnessInit /\ [][HarnessNext]_harnessVars

\* The event loop resumes a run whose consumer asks for more, and every attempt
\* at a tool is ended by its timeout.
HarnessSpec == HarnessSafety /\ \A r \in HarnessRuns : WF_harnessVars(Proceed(r))

-----------------------------------------------------------------------------
HarnessTypeOK ==
  /\ file \in Sessions \cup {Torn}
  /\ session \in [HarnessRuns -> Sessions]
  /\ pc \in [HarnessRuns -> {"idle", "between", "tool", "ended"}]
  /\ from \in [HarnessRuns -> ResumePoints]
  /\ step \in [HarnessRuns -> 0..Steps]
  /\ attempt \in [HarnessRuns -> 0..Retries + 1]
  /\ cancelled \in [HarnessRuns -> BOOLEAN]
  /\ trace \subseteq HarnessRuns \X StepIds
  /\ delivered \subseteq StepIds
  /\ overlapped \in BOOLEAN
  /\ skipped \subseteq StepIds

\* A step whose end a consumer was shown is never lost from the session file, by
\* no crash, drop, failure or later run, as long as runs do not overlap and no
\* crash hits a save.
DeliveredIsSaved ==
  (~overlapped /\ file # Torn) => delivered \subseteq file.completed

\* The session file claims no step without its tool_end event in the trace, also
\* when runs overlap: whoever resumes relies on work that has been recorded.
SavedIsTraced == \A i \in file.completed : \E r \in HarnessRuns : <<r, i>> \in trace

\* The completed steps of the file are the first ones, except for steps that a
\* caller asked to skip (test_runtime_can_resume_from_step_...): whoever resumes
\* behind the completed steps skips none that has not been done.
NoGap ==
  ~overlapped => \A i \in file.completed : 1..i \subseteq file.completed \cup skipped

\* A session saved as succeeded has completed every step that no caller asked to
\* skip, whatever runs it took, from whatever step they resumed and however they
\* overlapped.  The runtime does not look whether a skipped step was ever done.
SucceededIsComplete ==
  file.status = "succeeded" => StepIds \subseteq file.completed \cup skipped

\* A run that was started ends, whatever its tools do.
HarnessRunsEnd == \A r \in HarnessRuns : Active(r) ~> pc[r] = "ended"

(* The session file claims no step the trace does not record, and success    *)
(* only with every step done that no caller resumed behind                   *)
(* (ExperimentHarnessRuntime.run, SessionStore.save).                        *)
ClaimsSound ==
  /\ HarnessTypeOK
  /\ SavedIsTraced
  /\ SucceededIsComplete

(* As long as runs of a session do not overlap, a crash or a consumer that    *)
(* leaves costs no step that was shown, and the completed steps have no gap   *)
(* but where a caller asked for one.                                          *)
NothingLost == DeliveredIsSaved /\ NoGap

=============================================================================
