----------------------------- MODULE LLMClient -----------------------------
(***************************************************************************)
(* OpenAICompatibleClient.complete: a request is tried up to MaxRetries    *)
(* times again; each try runs in a watchdog thread that is abandoned when  *)
(* it outlives the timeout.  The connection object is shared by the client *)
(* and by every thread it abandoned.                                       *)
(***************************************************************************)
EXTENDS Integers

CONSTANTS
  MaxRetries, \* max_retries
  MaxLosses   \* bound: requests of one run that hang, or are charged for and lost

ASSUME ClientAssumption == MaxRetries \in Nat /\ MaxLosses \in Nat

VARIABLES
  call,    \* "idle", "trying", "ok" (a reply is there) or "raised"
  attempt, \* number of the current try
  conn,    \* self._conn: "open" or "none"
  dying,   \* abandoned threads whose socket was closed under them
  leaked,  \* abandoned threads whose socket stays open
  nulled,  \* times an abandoned thread dropped the connection of a later try
  hangs,   \* requests that hung
  lost,    \* requests charged for that broke off or came back without a usage
  billed,  \* requests the provider may have charged for
  counted  \* replies in total_prompt_tokens and total_completion_tokens

clientVars == <<call, attempt, conn, dying, leaked, nulled, hangs, lost, billed,
                counted>>

ClientTypeOK ==
  /\ call \in {"idle", "trying", "ok", "raised"}
  /\ attempt \in 0..MaxRetries
  /\ conn \in {"open", "none"}
  /\ {dying, leaked, nulled, hangs, lost} \subseteq 0..MaxLosses
  /\ {billed, counted} \subseteq Nat

ClientInit ==
  /\ call = "idle" /\ attempt = 0 /\ conn = "none"
  /\ dying = 0 /\ leaked = 0 /\ nulled = 0 /\ hangs = 0
  /\ lost = 0 /\ billed = 0 /\ counted = 0

\* A call of complete; its first try opens a fresh connection.  Threads given up
\* before may have ended since: between two calls their end changes nothing.
StartCall ==
  /\ call' = "trying" /\ attempt' = 0 /\ conn' = "open"
  /\ dying' \in 0..dying /\ leaked' \in 0..leaked
  /\ UNCHANGED <<nulled, hangs, lost, billed, counted>>

\* The caller takes the reply or the exception.
EndCall ==
  /\ call' = "idle"
  /\ UNCHANGED <<attempt, conn, dying, leaked, nulled, hangs, lost, billed, counted>>

\* A retryable error: the next try, on a fresh connection, or the last error.
TryAgain ==
  IF attempt < MaxRetries
  THEN call' = "trying" /\ attempt' = attempt + 1 /\ conn' = "open"
  ELSE call' = "raised" /\ attempt' = attempt /\ conn' = "none"

\* Mutant: the usage of the last reply replaces the totals.
AnswerOverwrites ==
  /\ call = "trying"
  /\ call' = "ok" /\ billed' = billed + 1 /\ counted' = 1
  /\ UNCHANGED <<attempt, conn, dying, leaked, nulled, hangs, lost>>

\* _complete_once; a reply that names no usage counts nothing.
Answer ==
  /\ call = "trying"
  /\ call' = "ok" /\ billed' = billed + 1
  /\ \/ counted' = counted + 1 /\ lost' = lost
     \/ hangs + lost < MaxLosses /\ counted' = counted /\ lost' = lost + 1
  /\ UNCHANGED <<attempt, conn, dying, leaked, nulled, hangs>>

\* A client error, or a body without a reply in it: no retry, nothing counted.
AnswerUnusable ==
  /\ call = "trying"
  /\ call' = "raised" /\ billed' = billed + 1
  /\ UNCHANGED <<attempt, conn, dying, leaked, nulled, hangs, lost, counted>>

\* 429, 5xx, or a connection that breaks, times out or ends too early: before the
\* provider had anything to charge for, or after.
Refused ==
  /\ call = "trying"
  /\ TryAgain
  /\ \/ UNCHANGED <<lost, billed>>
     \/ hangs + lost < MaxLosses /\ lost' = lost + 1 /\ billed' = billed + 1
  /\ UNCHANGED <<dying, leaked, nulled, hangs, counted>>

\* Mutant: the connection is forgotten before it is closed.
HangForgetsSocket ==
  /\ call = "trying" /\ hangs + lost < MaxLosses
  /\ hangs' = hangs + 1
  /\ billed' = billed + 1
  /\ leaked' = leaked + 1 /\ dying' = dying
  /\ TryAgain
  /\ UNCHANGED <<nulled, lost, counted>>

\* The watchdog fires: it closes the connection it finds and gives up the
\* thread, whose answer may come, and be charged for, all the same.
Hang ==
  /\ call = "trying" /\ hangs + lost < MaxLosses
  /\ hangs' = hangs + 1
  /\ billed' = billed + 1
  /\ IF conn = "open" THEN dying' = dying + 1 /\ leaked' = leaked
     ELSE leaked' = leaked + 1 /\ dying' = dying
  /\ TryAgain
  /\ UNCHANGED <<nulled, lost, counted>>

\* During a try an abandoned thread gets its OSError and drops self._conn,
\* whoever owns it.
ThreadDies ==
  /\ call = "trying"
  /\ \/ dying > 0 /\ dying' = dying - 1 /\ leaked' = leaked
     \/ leaked > 0 /\ leaked' = leaked - 1 /\ dying' = dying
  /\ conn' = "none"
  /\ nulled' = IF conn = "open" THEN nulled + 1 ELSE nulled
  /\ UNCHANGED <<call, attempt, hangs, lost, billed, counted>>

ClientStep == Answer \/ AnswerUnusable \/ Refused \/ Hang \/ ThreadDies

\* Steps a call and the threads still have, for a decreasing measure.
ClientLeft ==
  (IF call = "trying" THEN 2 + MaxRetries - attempt ELSE IF call = "idle" THEN 0 ELSE 1)
  + dying + leaked + 2 * (MaxLosses - hangs)

-----------------------------------------------------------------------------
(* A request that outlives the watchdog ("a watchdog thread + force-closing  *)
(* the socket turns those hangs into retryable errors", llm.py) has its      *)
(* socket closed, so its thread ends, unless an earlier abandoned thread had *)
(* dropped the connection of that very try.                                  *)
HungSocketsClosed == leaked <= nulled
=============================================================================
