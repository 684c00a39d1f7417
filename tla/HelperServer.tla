---------------------------- MODULE HelperServer ----------------------------
(***************************************************************************)
(* helper/main.py and helper/control.py: the helper's request loop and the  *)
(* cancellation of requests.                                                *)
(*                                                                          *)
(* The main thread reads frames.  An images request gets a RequestControl   *)
(* in _active_controls and goes to a pool of worker threads.  A cancel      *)
(* frame, and for every request the end of the input, is carried out by the *)
(* main thread itself: it sets the control's event and closes the network   *)
(* sessions registered with it.  Meanwhile the threads of the request open  *)
(* sessions, block on them, judge their failures and close them             *)
(* (generate_with_credential).                                              *)
(*                                                                          *)
(* The deadline of a control is left out: it never closes a session, and a  *)
(* network call that runs into it fails like any other.                     *)
(***************************************************************************)
EXTENDS Naturals, FiniteSets

CONSTANTS
    ID,         \* the requests the plugin sends
    Session,    \* the network sessions a request opens, each in its thread
    MaxWorkers  \* threads of the pool (8 in serve_stdio)

ASSUME WorkersAssumption == MaxWorkers \in Nat \ {0}

VARIABLES
    main,       \* whether the main thread reads, stops or has exited
    stage,      \* how far each request is
    active,     \* the keys of _active_controls
    cancelling, \* how far the main thread is with cancelling each request
    closing,    \* the sessions cancel() has still to close
    registered, \* the sessions in each control's _resources
    closed,     \* the sessions of each request that were closed
    session     \* where each session's thread is

requests == <<stage, active>>
cancels  == <<cancelling, closing>>
sessions == <<registered, closed, session>>
vars     == <<main, requests, cancels, sessions>>

TypeOK ==
    /\ main \in {"read", "stop", "exited"}
    /\ stage \in [ID -> {"unread", "queued", "running", "leaving", "answered", "dropped"}]
    /\ Cardinality({i \in ID : stage[i] \in {"running", "leaving"}}) <= MaxWorkers
    /\ active \subseteq ID
    /\ cancelling \in [ID -> {"none", "asked", "set", "closing", "done"}]
    /\ closing \in [ID -> SUBSET Session]
    /\ registered \in [ID -> SUBSET Session]
    /\ closed \in [ID -> SUBSET Session]
    /\ session \in [ID -> [Session -> {"new", "open", "failed", "interrupted",
                                       "punished", "ok", "timeout", "ended"}]]

Init ==
    /\ main = "read"
    /\ stage = [i \in ID |-> "unread"]
    /\ active = {}
    /\ cancelling = [i \in ID |-> "none"]
    /\ closing = [i \in ID |-> {}]
    /\ registered = [i \in ID |-> {}]
    /\ closed = [i \in ID |-> {}]
    /\ session = [i \in ID |-> [s \in Session |-> "new"]]

(* Mutant: the event is set after the sessions are closed. *)
CancelledLast(i) == cancelling[i] = "done"

(* The control's event is set. *)
Cancelled(i) == cancelling[i] \in {"set", "closing", "done"}

(* The main thread carries out one cancel after the other. *)
CancelInHand == \E i \in ID : cancelling[i] \in {"set", "closing"}
MainIsFree   == \A i \in ID : cancelling[i] \in {"none", "done"}

-----------------------------------------------------------------------------
(* serve_stdio, the main thread.                                            *)

(* The control is in the table before a worker can see the request. *)
ReadImages(i) ==
    /\ main = "read" /\ MainIsFree
    /\ stage[i] = "unread"
    /\ stage' = [stage EXCEPT ![i] = "queued"]
    /\ active' = active \cup {i}
    /\ UNCHANGED <<main, cancels, sessions>>

(* The plugin cancels a request at most once.  When the request has left    *)
(* the table the frame is only acknowledged, which changes nothing.         *)
ReadCancel(i) ==
    /\ main = "read" /\ MainIsFree
    /\ i \in active
    /\ cancelling[i] = "none"
    /\ cancelling' = [cancelling EXCEPT ![i] = "asked"]
    /\ UNCHANGED <<main, requests, closing, sessions>>

(* Mutant: the requests in the table are not cancelled. *)
ReadEndOnly ==
    /\ main = "read" /\ MainIsFree
    /\ main' = "stop"
    /\ UNCHANGED <<requests, cancels, sessions>>

(* The end of the input, or a frame that cannot be read. *)
ReadEnd ==
    /\ main = "read" /\ MainIsFree
    /\ main' = "stop"
    /\ cancelling' = [i \in ID |->
                        IF i \in active /\ cancelling[i] = "none"
                        THEN "asked" ELSE cancelling[i]]
    /\ UNCHANGED <<requests, closing, sessions>>

(* RequestControl.cancel: set the event; *)
CancelSet(i) ==
    /\ cancelling[i] = "asked" /\ ~CancelInHand
    /\ cancelling' = [cancelling EXCEPT ![i] = "set"]
    /\ UNCHANGED <<main, requests, closing, sessions>>

(* copy the resources under the lock; *)
CancelSnapshot(i) ==
    /\ cancelling[i] = "set"
    /\ cancelling' = [cancelling EXCEPT ![i] = "closing"]
    /\ closing' = [closing EXCEPT ![i] = registered[i]]
    /\ UNCHANGED <<main, requests, sessions>>

(* Mutant: the session is left open. *)
CancelSkips(i) ==
    /\ cancelling[i] = "closing"
    /\ \E s \in closing[i] : closing' = [closing EXCEPT ![i] = @ \ {s}]
    /\ UNCHANGED <<main, requests, cancelling, sessions>>

(* close them one by one; *)
CancelClose(i) ==
    /\ cancelling[i] = "closing"
    /\ \E s \in closing[i] :
         /\ closing' = [closing EXCEPT ![i] = @ \ {s}]
         /\ closed' = [closed EXCEPT ![i] = @ \cup {s}]
    /\ UNCHANGED <<main, requests, cancelling, registered, session>>

(* and, for a cancel frame, acknowledge it. *)
CancelDone(i) ==
    /\ cancelling[i] = "closing"
    /\ closing[i] = {}
    /\ cancelling' = [cancelling EXCEPT ![i] = "done"]
    /\ UNCHANGED <<main, requests, closing, sessions>>

(* executor.shutdown: what no worker has begun is dropped, and the process  *)
(* exits once the workers have finished the rest.                           *)
DropQueue ==
    /\ main = "stop" /\ MainIsFree
    /\ \E i \in ID : stage[i] = "queued"
    /\ stage' = [i \in ID |-> IF stage[i] = "queued" THEN "dropped" ELSE stage[i]]
    /\ UNCHANGED <<main, active, cancels, sessions>>

Exit ==
    /\ main = "stop" /\ MainIsFree
    /\ \A i \in ID : stage[i] \notin {"queued", "running", "leaving"}
    /\ main' = "exited"
    /\ UNCHANGED <<requests, cancels, sessions>>

-----------------------------------------------------------------------------
(* process_request, a thread of the pool.                                   *)

WorkerStarts(i) ==
    /\ stage[i] = "queued"
    /\ Cardinality({j \in ID : stage[j] \in {"running", "leaving"}}) < MaxWorkers
    /\ stage' = [stage EXCEPT ![i] = "running"]
    /\ UNCHANGED <<main, active, cancels, sessions>>

(* Mutant: the control stays in the table. *)
WorkerLeavesControl(i) ==
    /\ stage[i] = "running"
    /\ \A s \in Session : session[i][s] = "ended"
    /\ stage' = [stage EXCEPT ![i] = "leaving"]
    /\ UNCHANGED <<main, active, cancels, sessions>>

(* The finally clause: the control leaves the table; then the answer is     *)
(* written.                                                                 *)
WorkerLeaves(i) ==
    /\ stage[i] = "running"
    /\ \A s \in Session : session[i][s] = "ended"
    /\ active' = active \ {i}
    /\ stage' = [stage EXCEPT ![i] = "leaving"]
    /\ UNCHANGED <<main, cancels, sessions>>

WorkerAnswers(i) ==
    /\ stage[i] = "leaving"
    /\ stage' = [stage EXCEPT ![i] = "answered"]
    /\ UNCHANGED <<main, active, cancels, sessions>>

-----------------------------------------------------------------------------
(* A thread of the request with its session (generate_with_credential).     *)

Move(i, s, from, to) ==
    /\ stage[i] = "running"
    /\ session[i][s] = from
    /\ session' = [session EXCEPT ![i][s] = to]

(* Mutant: a session registers without looking at the event. *)
RegisterUnchecked(i, s) ==
    /\ Move(i, s, "new", "open")
    /\ registered' = [registered EXCEPT ![i] = @ \cup {s}]
    /\ UNCHANGED <<main, requests, cancels, closed>>

(* control.register: the test of the event and the entry are one critical   *)
(* section.  A session that comes too late is closed on the spot.           *)
Register(i, s) ==
    /\ ~Cancelled(i)
    /\ Move(i, s, "new", "open")
    /\ registered' = [registered EXCEPT ![i] = @ \cup {s}]
    /\ UNCHANGED <<main, requests, cancels, closed>>

RegisterRefused(i, s) ==
    /\ Cancelled(i)
    /\ Move(i, s, "new", "ended")
    /\ closed' = [closed EXCEPT ![i] = @ \cup {s}]
    /\ UNCHANGED <<main, requests, cancels, registered>>

(* control.timeout() refuses the next network call of a cancelled request.  *)
RefuseCall(i, s) ==
    /\ Cancelled(i)
    /\ Move(i, s, "open", "timeout")
    /\ UNCHANGED <<main, requests, cancels, registered, closed>>

(* A network call fails because cancel closed the session under it, *)
Interrupted(i, s) ==
    /\ s \in closed[i]
    /\ Move(i, s, "open", "interrupted")
    /\ UNCHANGED <<main, requests, cancels, registered, closed>>

(* or for a reason of its own, *)
NetworkFails(i, s) ==
    /\ Move(i, s, "open", "failed")
    /\ UNCHANGED <<main, requests, cancels, registered, closed>>

(* or the image is there. *)
NetworkSucceeds(i, s) ==
    /\ Move(i, s, "open", "ok")
    /\ UNCHANGED <<main, requests, cancels, registered, closed>>

(* The except clause judges a failure only now: a timeout when the request  *)
(* has expired, otherwise a retryable upstream error, for which the         *)
(* credential will be put in a cooldown.                                    *)
Judge(i, s, failure) ==
    /\ Move(i, s, failure, IF Cancelled(i) THEN "timeout" ELSE "punished")
    /\ UNCHANGED <<main, requests, cancels, registered, closed>>

(* Mutant: the session is closed, but stays registered. *)
FinishRegistered(i, s) ==
    /\ \E outcome \in {"ok", "timeout", "punished"} : Move(i, s, outcome, "ended")
    /\ closed' = [closed EXCEPT ![i] = @ \cup {s}]
    /\ UNCHANGED <<main, requests, cancels, registered>>

(* backend.close in the finally clause: unregister, then close. *)
Finish(i, s) ==
    /\ \E outcome \in {"ok", "timeout", "punished"} : Move(i, s, outcome, "ended")
    /\ registered' = [registered EXCEPT ![i] = @ \ {s}]
    /\ closed' = [closed EXCEPT ![i] = @ \cup {s}]
    /\ UNCHANGED <<main, requests, cancels>>

-----------------------------------------------------------------------------
MainStep ==
    \/ \E i \in ID :
         \/ CancelSet(i)
         \/ CancelSnapshot(i)
         \/ CancelClose(i)
         \/ CancelDone(i)
    \/ DropQueue
    \/ Exit

WorkerStep(i) == WorkerStarts(i) \/ WorkerLeaves(i) \/ WorkerAnswers(i)

(* What a session's thread does by itself once its network call returns. *)
SessionStep(i, s) ==
    \/ Register(i, s)
    \/ RegisterRefused(i, s)
    \/ Interrupted(i, s)
    \/ Judge(i, s, "failed")
    \/ Judge(i, s, "interrupted")
    \/ Finish(i, s)

Next ==
    \/ \E i \in ID : ReadImages(i) \/ ReadCancel(i)
    \/ ReadEnd
    \/ MainStep
    \/ \E i \in ID : WorkerStep(i)
    \/ \E i \in ID, s \in Session :
         \/ SessionStep(i, s)
         \/ RefuseCall(i, s)
         \/ NetworkFails(i, s)
         \/ NetworkSucceeds(i, s)

Spec == Init /\ [][Next]_vars

(* Threads that can run are scheduled; a network call on a session that was *)
(* closed returns.  Nothing is assumed of other network calls, which may    *)
(* block for as long as the request's deadline allows.                      *)
FairSpec ==
    /\ Spec
    /\ WF_vars(MainStep)
    /\ \A i \in ID : WF_vars(WorkerStep(i))
    /\ \A i \in ID, s \in Session : WF_vars(SessionStep(i, s))

-----------------------------------------------------------------------------
(* Once a cancel is through, no session of the request is left open: not    *)
(* one that registered while the cancel ran, nor one that would come later. *)
CancelReachesEverySession ==
    \A i \in ID :
      cancelling[i] = "done" =>
        /\ registered[i] \subseteq closed[i]
        /\ \A s \in Session : session[i][s] = "open" => s \in closed[i]

(* A call that failed because its session was closed by a cancel is never   *)
(* taken for a failure of the network, which would put a healthy credential *)
(* in a cooldown (protocol.py:283).                                         *)
CancelNeverPunishes ==
    [][\A i \in ID, s \in Session :
         session[i][s] = "interrupted" => session'[i][s] # "punished"]_vars

(* The table of controls holds the requests that wait or run, so that a     *)
(* cancel finds them, and nothing else.                                     *)
ActiveIsExact ==
    \A i \in ID :
      /\ stage[i] \in {"queued", "running"} => i \in active
      /\ i \in active => stage[i] \in {"queued", "running", "dropped"}

(* However its sessions ended (late, refused, interrupted, failed or well), *)
(* a request that is answered has closed all of them and left none with its *)
(* control, and a helper that exits leaves none behind.                     *)
SessionsAreGivenBack ==
    /\ \A i \in ID :
         stage[i] \in {"leaving", "answered"} =>
           registered[i] = {} /\ closed[i] = Session
    /\ main = "exited" => \A i \in ID : registered[i] = {}

(* A cancelled request that a worker has begun is answered, although        *)
(* nothing is assumed of its network calls.                                 *)
CancelEndsRequest ==
    \A i \in ID :
      cancelling[i] = "asked" /\ stage[i] = "running" ~> stage[i] = "answered"

(* When its input ends the helper process exits. *)
EndOfInputExits == main = "stop" ~> main = "exited"
=============================================================================
