---------------------------- MODULE CallContract ----------------------------
(***************************************************************************)
(* What helperClient.Call promises to the goroutines that run it, without   *)
(* the helper process, its pipes, the map of pending calls and the          *)
(* goroutines that tidy up: HelperClient implements it.                     *)
(*                                                                          *)
(* A call is decided at most once, by an answer to what it sent or by the   *)
(* failure of the helper, and it returns what was decided.  Failures come   *)
(* for any number of calls together.  A deadline may overtake the decision, *)
(* and then the call returns without it.                                    *)
(***************************************************************************)
CONSTANT Callers

VARIABLE call   \* what has become of each caller's call

States == {"none", "open", "sent", "answered", "failed", "expired", "panicked"}

Undecided == {"open", "sent"}
Decided   == {"answered", "failed"}

Init == call = [c \in Callers |-> "none"]

Become(c, from, to) ==
    /\ call[c] \in from
    /\ call' = [call EXCEPT ![c] = to]

Open(c)   == Become(c, {"none"}, "open")
Send(c)   == Become(c, {"open"}, "sent")
Answer(c) == Become(c, {"sent"}, "answered")
Return(c) == Become(c, Decided, "none")

Fail(failing) ==
    /\ \A c \in failing : call[c] \in Undecided
    /\ call' = [c \in Callers |-> IF c \in failing THEN "failed" ELSE call[c]]

(* The deadline, and the return after the helper was told of it. *)
Expire(c) == Become(c, {"sent"} \cup Decided, "expired")
Leave(c)  == Become(c, {"expired"}, "none")

(* A panic stops the host: nothing follows it. *)
Panic(c)  == Become(c, {"open", "failed"}, "panicked")
Panicked  == \E c \in Callers : call[c] = "panicked"

Next ==
    /\ ~Panicked
    /\ \/ \E c \in Callers :
            \/ Open(c)
            \/ Send(c)
            \/ Answer(c)
            \/ Return(c)
            \/ Expire(c)
            \/ Leave(c)
            \/ Panic(c)
       \/ \E failing \in SUBSET Callers : Fail(failing)

Spec == Init /\ [][Next]_call
=============================================================================
