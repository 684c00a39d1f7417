--------------------- MODULE HelperClientContractProofs ---------------------
(* HelperClient implements CallContract, for any number of callers,          *)
(* processes and identifiers.                                                *)
EXTENDS HelperClientProofs

(* A call that has not been sent is known to no helper, and nothing that    *)
(* counts as its answer exists.                                             *)
UnsentUnanswered ==
    /\ \A p \in Proc : \A i \in toHelper[p] \cup fromHelper[p] : i <= nextID
    /\ \A c \in Callers :
         pc[c] = "write" =>
           /\ \A p \in Proc : id[c] \notin toHelper[p] \cup fromHelper[p]
           /\ ~Answered(id[c])

(* What the proofs below start from. *)
Reachable == IInv /\ UnsentUnanswered

-----------------------------------------------------------------------------
(* Facts about single states. *)

(* A channel that holds something, and a request somebody took, are out of  *)
(* pending; so what is pending has not been answered.                       *)
LEMMA PendingUnanswered ==
    ASSUME IInv, NEW i \in pending
    PROVE  ~Answered(i) /\ ch[i] = "empty"
<1>1. ch[i] = "empty"
      <2>1. PICK c \in Callers : id[c] = i
            BY DEF IInv, PendingHasCaller
      <2>2. c \in Goroutine
            BY DEF Goroutine
      <2>3. QED
            BY <2>2 DEF IInv, SendNeverBlocks
<1>2. \A p \in Proc : i \notin taken[p]
      BY DEF IInv, OneAnswerer, Goroutine
<1>3. QED
      BY <1>1, <1>2 DEF Answered

(* The state of a call depends on where its caller is, on its entry in      *)
(* pending and on its answer.                                               *)
LEMMA StateKept ==
    ASSUME NEW c \in Callers,
           pc'[c] = pc[c], id'[c] = id[c],
           id[c] \in pending' <=> id[c] \in pending,
           Answered(id[c])' <=> Answered(id[c])
    PROVE  CallState(c)' = CallState(c)
<1>1. (id[c] \in pending)' <=> id[c] \in pending
      OBVIOUS
<1>2. QED
      BY <1>1 DEF CallState

(* What leaves the callers, pending and the answers alone moves no call. *)
LEMMA CallsKept ==
    ASSUME \A c \in Callers : pc'[c] = pc[c],
           UNCHANGED <<id, pending>>,
           \A i : Answered(i)' <=> Answered(i)
    PROVE  UNCHANGED CallStates
<1>1. ASSUME NEW c \in Callers
      PROVE  CallState(c)' = CallState(c)
      <2>1. Answered(id[c])' <=> Answered(id[c])
            OBVIOUS
      <2>2. QED
            BY <2>1, StateKept
<1>2. QED
      BY <1>1 DEF CallStates

(* One call moves and the others stay. *)
LEMMA OneCallMoves ==
    ASSUME NEW c \in Callers, NEW from, NEW to,
           CallState(c) \in from, CallState(c)' = to,
           \A d \in Callers : d # c => CallState(d)' = CallState(d)
    PROVE  Contract!Become(c, from, to)
BY DEF Contract!Become, CallStates

(* No call moves. *)
LEMMA NoCallMoves ==
    ASSUME \A d \in Callers : CallState(d)' = CallState(d)
    PROVE  UNCHANGED CallStates
BY DEF CallStates

-----------------------------------------------------------------------------
(* Nothing was sent yet. *)
LEMMA InitUnsent == Init => UnsentUnanswered
<1> SUFFICES ASSUME Init
             PROVE  UnsentUnanswered
    OBVIOUS
<1>1. \A c \in Callers : pc[c] = "idle"
      BY GoroutineAssumption DEF Init, Goroutine
<1>2. \A p \in Proc : toHelper[p] \cup fromHelper[p] = {}
      BY DEF Init
<1>3. QED
      BY <1>1, <1>2 DEF UnsentUnanswered

(* A step that sends nothing, answers nothing and brings no caller to its   *)
(* write keeps it.                                                          *)
LEMMA UnsentKept ==
    ASSUME TypeOK, UnsentUnanswered,
           nextID' \in Nat, nextID' >= nextID,
           \A p \in Proc : toHelper'[p] \cup fromHelper'[p]
                            \subseteq toHelper[p] \cup fromHelper[p],
           \A c \in Callers :
             pc'[c] = "write" =>
               /\ pc[c] = "write" /\ id'[c] = id[c]
               /\ Answered(id[c])' => Answered(id[c])
    PROVE  UnsentUnanswered'
<1>1. ASSUME NEW p \in Proc, NEW i \in toHelper'[p] \cup fromHelper'[p]
      PROVE  i <= nextID'
      <2>1. i \in toHelper[p] \cup fromHelper[p]
            BY <1>1
      <2>2. i \in Nat /\ nextID \in Nat
            BY <2>1, BoundsAssumption DEF TypeOK, ID
      <2>3. i <= nextID
            BY <2>1 DEF UnsentUnanswered
      <2>4. QED
            BY <2>2, <2>3
<1>2. ASSUME NEW c \in Callers, pc'[c] = "write"
      PROVE  /\ \A p \in Proc : id'[c] \notin toHelper'[p] \cup fromHelper'[p]
             /\ ~Answered(id[c])'
      BY <1>2 DEF UnsentUnanswered
<1>3. QED
      BY <1>1, <1>2 DEF UnsentUnanswered

-----------------------------------------------------------------------------
(* Every step of the client is a step of the contract, or none. *)
LEMMA StepKeepsContract ==
    ASSUME Reachable, ~Panicked, [Next]_vars
    PROVE  [Contract!Next]_CallStates
<1> USE DEF Reachable, IInv
<1>0. ~Contract!Panicked
      <2>1. \A c \in Callers : pc[c] # "panic" => CallState(c) # "panicked"
            BY DEF CallState
      <2>2. QED
            BY <2>1 DEF Panicked, Contract!Panicked, CallStates
<1>1. ASSUME NEW c \in Callers, AlreadyStarted(c)
      PROVE  UNCHANGED CallStates
      <2>1. \A d \in Callers : CallState(d)' = CallState(d)
            BY <1>1, GoroutineAssumption DEF AlreadyStarted, Goto, CallState,
                Answered, client, calls, duty, Goroutine, TypeOK
      <2>2. QED
            BY <2>1, NoCallMoves
<1>2. ASSUME NEW c \in Callers, Start(c)
      PROVE  UNCHANGED CallStates
      <2>1. started + 1 \in Proc /\ pc[started + 1] = "off"
            BY <1>2, BoundsAssumption DEF Start, HoldsWhatItShould, TypeOK, Proc
      <2>2. /\ \A d \in Callers : d # c => pc'[d] = pc[d]
            /\ pc'[c] = "register" /\ pc[c] = "idle"
            /\ \A p \in Proc : p # started + 1 => pc'[p] = pc[p]
            /\ pc'[started + 1] = "read"
            BY <1>2, <2>1, GoroutineAssumption DEF Start, TypeOK, Goroutine
      <2>3. \A d \in Callers : CallState(d)' = CallState(d)
            BY <1>2, GoroutineAssumption, <2>1, <2>2
            DEF Start, Goto, Return, CallState, Answered, client,
               calls, duty, pipes, Goroutine, Proc, TypeOK
      <2>4. QED
            BY <2>3, NoCallMoves
<1>3. ASSUME NEW c \in Callers, CallRegister(c)
      PROVE  Contract!Open(c)
      <2>1. \A d \in Callers : d # c => CallState(d)' = CallState(d)
            BY <1>3, GoroutineAssumption
            DEF CallRegister, IdentifierUnique, ID, Goto, Return, CallState,
                Answered, client,
               calls, duty, pipes, Goroutine, Proc, TypeOK
      <2>2. CallState(c) \in {"none"} /\ CallState(c)' = "open"
            BY <1>3, GoroutineAssumption
            DEF CallRegister, IdentifierUnique, ID, Goto, Return, CallState,
                Answered, client,
               calls, duty, pipes, Goroutine, Proc, TypeOK
      <2>3. QED
            BY <2>1, <2>2, OneCallMoves DEF Contract!Open, Contract!Decided
<1>4. ASSUME NEW c \in Callers, CallWritePanics(c)
      PROVE  Contract!Panic(c)
      <2>1. \A d \in Callers : d # c => CallState(d)' = CallState(d)
            BY <1>4, GoroutineAssumption
            DEF CallWritePanics, UnsentUnanswered, Goto, Return, CallState,
                Answered, client,
               calls, duty, pipes, Goroutine, Proc, TypeOK
      <2>2. CallState(c) \in {"open", "failed"} /\ CallState(c)' = "panicked"
            BY <1>4, GoroutineAssumption
            DEF CallWritePanics, UnsentUnanswered, Goto, Return, CallState,
                Answered, client,
               calls, duty, pipes, Goroutine, Proc, TypeOK
      <2>3. QED
            BY <2>1, <2>2, OneCallMoves DEF Contract!Panic, Contract!Decided
<1>5. ASSUME NEW c \in Callers, CallWriteFails(c)
      PROVE  [Contract!Next]_CallStates
      <2>1. \A d \in Callers : d # c => CallState(d)' = CallState(d)
            BY <1>5, GoroutineAssumption
            DEF CallWriteFails, Goto, Return, CallState, Answered, client,
               calls, duty, pipes, Goroutine, Proc, TypeOK
      <2>2. CallState(c)' = "failed"
            BY <1>5, GoroutineAssumption DEF CallWriteFails, Goto, CallState,
                Goroutine, TypeOK
      <2>3. CallState(c) \in {"open", "failed"}
            BY <1>5 DEF CallWriteFails, CallState, UnsentUnanswered
      <2>4. CASE CallState(c) = "failed"
            BY <2>1, <2>2, <2>4, NoCallMoves
      <2>5. CASE CallState(c) = "open"
            <3>1. Contract!Fail({c})
                  BY <2>1, <2>2, <2>5 DEF Contract!Fail, Contract!Undecided, CallStates
            <3>2. QED
                  BY <3>1, <1>0 DEF Contract!Next
      <2>6. QED
            BY <2>3, <2>4, <2>5
<1>6. ASSUME NEW c \in Callers, CallWriteDelivers(c)
      PROVE  [Contract!Next]_CallStates
      <2>1. \A d \in Callers : d # c => CallState(d)' = CallState(d)
            BY <1>6, GoroutineAssumption
            DEF CallWriteDelivers, Goto, Return, CallState, Answered, client,
               calls, duty, pipes, Goroutine, Proc, TypeOK
      <2>2. CASE id[c] \in pending
            <3>1. CallState(c) \in {"open"} /\ CallState(c)' = "sent"
                  BY <1>6, <2>2, GoroutineAssumption
                  DEF CallWriteDelivers, Goto, Return, CallState, Answered, client,
               calls, duty, pipes, Goroutine, Proc, TypeOK
            <3>2. Contract!Send(c)
                  BY <2>1, <3>1, OneCallMoves DEF Contract!Send
            <3>3. QED
                  BY <3>2, <1>0 DEF Contract!Next
      <2>3. CASE id[c] \notin pending
            <3>1. CallState(c)' = CallState(c)
                  BY <1>6, <2>3, GoroutineAssumption
                  DEF CallWriteDelivers, UnsentUnanswered, Goto, Return,
                      CallState, Answered, client,
               calls, duty, pipes, Goroutine, Proc, TypeOK
            <3>2. QED
                  BY <2>1, <3>1, NoCallMoves
      <2>4. QED
            BY <2>2, <2>3
<1>7. ASSUME NEW c \in Callers, CallReceive(c)
      PROVE  Contract!Return(c)
      <2>1. \A d \in Callers : d # c => CallState(d)' = CallState(d)
            BY <1>7, GoroutineAssumption
            DEF CallReceive, IdentifierUnique, SendNeverBlocks, Goto, Return,
                CallState, Answered, client,
               calls, duty, pipes, Goroutine, Proc, TypeOK
      <2>2. CallState(c) \in {"answered", "failed"} /\ CallState(c)' = "none"
            BY <1>7, GoroutineAssumption
            DEF CallReceive, IdentifierUnique, SendNeverBlocks, Goto, Return,
                CallState, Answered, client,
               calls, duty, pipes, Goroutine, Proc, TypeOK
      <2>3. QED
            BY <2>1, <2>2, OneCallMoves DEF Contract!Return, Contract!Decided
<1>8. ASSUME NEW c \in Callers, CallExpire(c)
      PROVE  Contract!Expire(c)
      <2>1. \A d \in Callers : d # c => CallState(d)' = CallState(d)
            BY <1>8, GoroutineAssumption
            DEF CallExpire, IdentifierUnique, Goto, Return, CallState, Answered, client,
               calls, duty, pipes, Goroutine, Proc, TypeOK
      <2>2. CallState(c) \in {"sent", "answered", "failed"} /\ CallState(c)' = "expired"
            BY <1>8, GoroutineAssumption
            DEF CallExpire, IdentifierUnique, Goto, Return, CallState, Answered, client,
               calls, duty, pipes, Goroutine, Proc, TypeOK
      <2>3. QED
            BY <2>1, <2>2, OneCallMoves DEF Contract!Expire, Contract!Decided
<1>9. ASSUME NEW c \in Callers, CancelSkipped(c)
      PROVE  Contract!Leave(c)
      <2>1. \A d \in Callers : d # c => CallState(d)' = CallState(d)
            BY <1>9, GoroutineAssumption
            DEF CancelSkipped, Goto, Return, CallState, Answered, client,
               calls, duty, pipes, Goroutine, Proc, TypeOK
      <2>2. CallState(c) \in {"expired"} /\ CallState(c)' = "none"
            BY <1>9, GoroutineAssumption
            DEF CancelSkipped, Goto, Return, CallState, Answered, client,
               calls, duty, pipes, Goroutine, Proc, TypeOK
      <2>3. QED
            BY <2>1, <2>2, OneCallMoves DEF Contract!Leave, Contract!Decided
<1>10. ASSUME NEW c \in Callers, CancelSnapshot(c)
      PROVE  UNCHANGED CallStates
      <2>1. \A d \in Callers : CallState(d)' = CallState(d)
            BY <1>10, GoroutineAssumption
            DEF CancelSnapshot, Goto, Return, CallState, Answered, client,
               calls, duty, pipes, Goroutine, Proc, TypeOK
      <2>2. QED
            BY <2>1, NoCallMoves
<1>11. ASSUME NEW c \in Callers, CancelWrite(c)
      PROVE  Contract!Leave(c)
      <2>1. \A d \in Callers : d # c => CallState(d)' = CallState(d)
            BY <1>11, GoroutineAssumption
            DEF CancelWrite, Goto, Return, CallState, Answered, client,
               calls, duty, pipes, Goroutine, Proc, TypeOK
      <2>2. CallState(c) \in {"expired"} /\ CallState(c)' = "none"
            BY <1>11, GoroutineAssumption
            DEF CancelWrite, Goto, Return, CallState, Answered, client,
               calls, duty, pipes, Goroutine, Proc, TypeOK
      <2>3. QED
            BY <2>1, <2>2, OneCallMoves DEF Contract!Leave, Contract!Decided
<1>12. ASSUME NEW c \in Callers, CallFailed(c)
      PROVE  Contract!Return(c)
      <2>1. \A d \in Callers : d # c => CallState(d)' = CallState(d)
            BY <1>12, GoroutineAssumption
            DEF CallFailed, Goto, Return, CallState, Answered, client,
               calls, duty, pipes, Goroutine, Proc, TypeOK
      <2>2. CallState(c) \in {"answered", "failed"} /\ CallState(c)' = "none"
            BY <1>12, GoroutineAssumption
            DEF CallFailed, Goto, Return, CallState, Answered, client,
               calls, duty, pipes, Goroutine, Proc, TypeOK
      <2>3. QED
            BY <2>1, <2>2, OneCallMoves DEF Contract!Return, Contract!Decided
<1>13. ASSUME NEW g \in Goroutine, Kill(g)
      PROVE  UNCHANGED CallStates
      <2>1. \A d \in Callers : CallState(d)' = CallState(d)
            BY <1>13, GoroutineAssumption
            DEF Kill, End, HoldsWhatItShould, Goto, Return, CallState, Answered, client,
               calls, duty, pipes, Goroutine, Proc, TypeOK
      <2>2. QED
            BY <2>1, NoCallMoves
<1>14. ASSUME NEW g \in Goroutine, Notify(g)
      PROVE  UNCHANGED CallStates
      <2>1. \A d \in Callers : CallState(d)' = CallState(d)
            BY <1>14, GoroutineAssumption
            DEF Notify, OneAnswerer, SendNeverBlocks, Goto, Return, CallState,
                Answered, client,
               calls, duty, pipes, Goroutine, Proc, TypeOK
      <2>2. QED
            BY <2>1, NoCallMoves
<1>15. ASSUME NEW g \in Closers \cup Proc, Finish(g)
      PROVE  UNCHANGED CallStates
      <2>1. \A d \in Callers : CallState(d)' = CallState(d)
            BY <1>15, GoroutineAssumption
            DEF Finish, Goto, Return, CallState, Answered, client,
               calls, duty, pipes, Goroutine, Proc, TypeOK
      <2>2. QED
            BY <2>1, NoCallMoves
<1>16. ASSUME NEW p \in Proc, ReadDropped(p)
      PROVE  UNCHANGED CallStates
      <2>1. /\ pc[p] = "read" /\ pc'[p] = "read"
            /\ \A g \in Goroutine : g # p => pc'[g] = pc[g]
            /\ UNCHANGED <<pending, ch, id, taken>>
            BY <1>16 DEF ReadDropped, NextFrame, Goto, TypeOK, Goroutine, client,
                calls, duty, pipes
      <2>2. \A i : Answered(i)' <=> Answered(i)
            BY <2>1 DEF Answered, Goroutine
      <2>3. QED
            BY <2>1, <2>2, CallsKept, GoroutineAssumption DEF Goroutine
<1>17. ASSUME NEW p \in Proc, ReadBadLength(p)
      PROVE  UNCHANGED CallStates
      <2>1. /\ pc[p] = "read" /\ pc'[p] = "fail"
            /\ \A g \in Goroutine : g # p => pc'[g] = pc[g]
            /\ UNCHANGED <<pending, ch, id, taken>>
            BY <1>17 DEF ReadBadLength, NextFrame, Goto, TypeOK, Goroutine,
                client, calls, duty
      <2>2. \A i : Answered(i)' <=> Answered(i)
            BY <2>1 DEF Answered, Goroutine
      <2>3. QED
            BY <2>1, <2>2, CallsKept, GoroutineAssumption DEF Goroutine
<1>18. ASSUME NEW p \in Proc, ReadEOF(p)
      PROVE  UNCHANGED CallStates
      <2>1. /\ pc[p] = "read" /\ pc'[p] = "fail"
            /\ \A g \in Goroutine : g # p => pc'[g] = pc[g]
            /\ UNCHANGED <<pending, ch, id, taken>>
            BY <1>18 DEF ReadEOF, Goto, TypeOK, Goroutine, client, calls,
                duty, pipes
      <2>2. \A i : Answered(i)' <=> Answered(i)
            BY <2>1 DEF Answered, Goroutine
      <2>3. QED
            BY <2>1, <2>2, CallsKept, GoroutineAssumption DEF Goroutine
<1>19. ASSUME NEW p \in Proc, Deliver(p)
      PROVE  UNCHANGED CallStates
      <2>1. PICK i \in ID : taken[p] = {i}
            BY <1>19 DEF Deliver, HoldsWhatItShould
      <2>2. /\ pc[p] = "deliver" /\ ch'[i] = "answer"
            /\ \A j : j # i => ch'[j] = ch[j]
            BY <1>19, <2>1 DEF Deliver, TypeOK
      <2>3. /\ pc'[p] = "read"
            /\ \A g \in Goroutine : g # p => pc'[g] = pc[g] /\ taken'[g] = taken[g]
            /\ UNCHANGED <<pending, id>>
            BY <1>19 DEF Deliver, Goto, TypeOK, Goroutine, client
      <2>4. ASSUME NEW j
            PROVE  Answered(j)' <=> Answered(j)
            <3>1. CASE j = i
                  BY <2>1, <2>2, <3>1 DEF Answered
            <3>2. CASE j # i
                  BY <2>1, <2>2, <2>3, <3>2 DEF Answered, Goroutine
            <3>3. QED
                  BY <3>1, <3>2
      <2>5. QED
            BY <2>3, <2>4, CallsKept, GoroutineAssumption DEF Goroutine
<1>20. ASSUME NEW p \in Proc, HelperReply(p)
      PROVE  UNCHANGED CallStates
      <2>1. UNCHANGED <<pc, id, pending, ch, taken>>
            BY <1>20 DEF HelperReply, client, calls, duty
      <2>2. \A i : Answered(i)' <=> Answered(i)
            BY <2>1 DEF Answered
      <2>3. QED
            BY <2>1, <2>2, CallsKept
<1>21. ASSUME NEW p \in Proc, HelperExit(p)
      PROVE  UNCHANGED CallStates
      <2>1. UNCHANGED <<pc, id, pending, ch, taken>>
            BY <1>21 DEF HelperExit, End, client, calls, duty
      <2>2. \A i : Answered(i)' <=> Answered(i)
            BY <2>1 DEF Answered
      <2>3. QED
            BY <2>1, <2>2, CallsKept
<1>22. ASSUME NEW g \in Goroutine, TakeOver(g),
              pc[g] = "fail" \/ (g \in Closers /\ pc[g] = "idle")
       PROVE  [Contract!Next]_CallStates
       <2> DEFINE failing == {c \in Callers : CallState(c) \in {"open", "sent"}}
       <2>1. \A i : Answered(i)' <=> Answered(i)
             <3>1. /\ pc[g] # "deliver" /\ pc'[g] = "kill"
                   /\ \A h \in Goroutine : h # g => pc'[h] = pc[h] /\ taken'[h] = taken[h]
                   /\ ch' = ch
                   BY <1>22 DEF TakeOver, Goto, TypeOK, calls
             <3>2. QED
                   BY <3>1 DEF Answered, Goroutine
       <2>2. ASSUME NEW c \in Callers, c \notin failing
             PROVE  CallState(c)' = CallState(c)
             <3>1. CallState(c) \notin {"open", "sent"}
                   BY <2>2
             <3>2. id'[c] = id[c] /\ pending' = {}
                   BY <1>22 DEF TakeOver, calls
             <3>3. CASE c = g
                   <4>1. pc[c] = "fail" /\ pc'[c] = "kill"
                         BY <1>22, <3>3, GoroutineAssumption DEF TakeOver, Goto, TypeOK
                   <4>2. QED
                         BY <4>1 DEF CallState
             <3>4. CASE c # g
                   <4>1. pc'[c] = pc[c]
                         BY <1>22, <3>4 DEF TakeOver, Goto, TypeOK, Goroutine
                   <4>2. CASE pc[c] \in {"write", "wait"}
                         <5>1. id[c] \notin pending
                               BY <3>1, <4>2 DEF CallState
                         <5>2. Answered(id[c])' <=> Answered(id[c])
                               BY <2>1, <3>2
                         <5>3. QED
                               BY <3>2, <4>1, <5>1, <5>2, StateKept
                   <4>3. CASE pc[c] \notin {"write", "wait"}
                         BY <4>1, <4>3 DEF CallState, TypeOK, CallerPC
                   <4>4. QED
                         BY <4>2, <4>3
             <3>5. QED
                   BY <3>3, <3>4
       <2>3. ASSUME NEW c \in failing
             PROVE  CallState(c)' = "failed"
             <3>1. pc[c] \in {"write", "wait"} /\ id[c] \in pending
                   BY DEF CallState, TypeOK, CallerPC
             <3>2. ~Answered(id[c]) /\ ~Answered(id[c])'
                   BY <1>22, <2>1, <3>1, PendingUnanswered DEF TakeOver, calls
             <3>3. QED
                   BY <1>22, <3>1, <3>2, GoroutineAssumption
                   DEF TakeOver, Goto, CallState, Goroutine, TypeOK, calls
       <2>4. Contract!Fail(failing)
             BY <2>2, <2>3 DEF Contract!Fail, Contract!Undecided, CallStates
       <2>5. QED
             BY <2>4, <1>0 DEF Contract!Next
<1>23. ASSUME NEW p \in Proc, ReadAnswer(p)
       PROVE  [Contract!Next]_CallStates
       <2>1. PICK i \in fromHelper[p] : NextFrame(p, i) /\ i \in pending
                  /\ pending' = pending \ {i}
                  /\ taken' = [taken EXCEPT ![p] = {i}]
                  /\ Goto(p, "deliver")
                  /\ UNCHANGED <<cmd, started, nextID, calls, victim, alive, toHelper>>
             BY <1>23 DEF ReadAnswer
       <2>2. \A j : j # i => (Answered(j)' <=> Answered(j))
             BY <2>1, GoroutineAssumption
             DEF NextFrame, HoldsWhatItShould, Goto, Return, CallState, Answered, client,
               calls, duty, pipes, Goroutine, Proc, TypeOK
       <2>3. Answered(i)'
             BY <2>1, GoroutineAssumption DEF Answered, Goto, Goroutine, TypeOK
       <2>4. ASSUME NEW d \in Callers, ~(id[d] = i /\ pc[d] = "wait")
             PROVE  CallState(d)' = CallState(d)
             <3>1. id[d] = i => pc[d] # "write"
                   BY <2>1 DEF UnsentUnanswered
             <3>2. pc'[d] = pc[d] /\ id'[d] = id[d]
                   BY <2>1, GoroutineAssumption DEF Goto, Goroutine, TypeOK, calls
             <3>3. CASE id[d] = i
                   BY <2>4, <3>1, <3>2, <3>3 DEF CallState, TypeOK, CallerPC
             <3>4. CASE id[d] # i
                   <4>1. Answered(id[d])' <=> Answered(id[d])
                         BY <2>2, <3>2, <3>4
                   <4>2. id[d] \in pending' <=> id[d] \in pending
                         BY <2>1, <3>4
                   <4>3. QED
                         BY <3>2, <4>1, <4>2, StateKept
             <3>5. QED
                   BY <3>3, <3>4
       <2>5. CASE \E c \in Callers : id[c] = i /\ pc[c] = "wait"
             <3>1. PICK c \in Callers : id[c] = i /\ pc[c] = "wait"
                   BY <2>5
             <3>2. \A d \in Callers : d # c => id[d] # i
                   BY <3>1 DEF IdentifierUnique, TypeOK
             <3>3. CallState(c) \in {"sent"}
                   BY <2>1, <3>1 DEF CallState
             <3>4. CallState(c)' = "answered"
                   BY <2>1, <2>3, <3>1, GoroutineAssumption
                   DEF CallState, Goto, Goroutine, TypeOK, calls
             <3>5. Contract!Answer(c)
                   BY <2>4, <3>2, <3>3, <3>4, OneCallMoves DEF Contract!Answer
             <3>6. QED
                   BY <3>5, <1>0 DEF Contract!Next
       <2>6. CASE ~\E c \in Callers : id[c] = i /\ pc[c] = "wait"
             BY <2>4, <2>6, NoCallMoves
       <2>7. QED
             BY <2>5, <2>6
<1>24. CASE UNCHANGED vars
       <2>1. \A c \in Callers : CallState(c)' = CallState(c)
             BY <1>24 DEF vars, Goto, Return, CallState, Answered, client,
               calls, duty, pipes, Goroutine, Proc, TypeOK
       <2>2. QED
             BY <2>1, NoCallMoves
<1>25. ASSUME NEW g \in Goroutine, TakeDownStep(g)
       PROVE  [Contract!Next]_CallStates
       <2>1. CASE FailProcess(g)
             BY <1>22, <2>1 DEF FailProcess
       <2>2. QED
             BY <1>13, <1>14, <1>25, <2>1 DEF TakeDownStep
<1>26. ASSUME NEW k \in Closers, Close(k)
       PROVE  [Contract!Next]_CallStates
       BY <1>22, <1>26 DEF Close, Goroutine
<1>27. ASSUME NEW c \in Callers, CallStep(c) \/ CallExpire(c)
       PROVE  [Contract!Next]_CallStates
       BY <1>0, <1>3, <1>4, <1>5, <1>6, <1>7, <1>8, <1>9, <1>10, <1>11, <1>12, <1>27
       DEF CallStep, Contract!Next
<1>28. ASSUME NEW p \in Proc, ReaderStep(p)
       PROVE  [Contract!Next]_CallStates
       BY <1>16, <1>17, <1>18, <1>19, <1>23, <1>28 DEF ReaderStep
<1>29. QED
       BY <1>1, <1>2, <1>15, <1>20, <1>21, <1>24, <1>25, <1>26, <1>27, <1>28 DEF Next

-----------------------------------------------------------------------------
(* Every step keeps UnsentUnanswered. *)
LEMMA NextUnsent ==
    ASSUME Reachable, [Next]_vars
    PROVE  UnsentUnanswered'
<1> USE DEF Reachable, IInv
<1>1. ASSUME NEW c \in Callers, AlreadyStarted(c)
      PROVE  UnsentUnanswered'
      BY <1>1, UnsentKept, GoroutineAssumption, BoundsAssumption
      DEF AlreadyStarted, Goto, Return, Answered, client, calls, duty,
         pipes, Goroutine, Proc, TypeOK
<1>2. ASSUME NEW c \in Callers, Start(c)
      PROVE  UnsentUnanswered'
      <2>1. /\ started + 1 \in Proc /\ pc[started + 1] = "off"
            /\ pc' = [pc EXCEPT ![c] = "register", ![started + 1] = "read"]
            /\ UNCHANGED <<nextID, id, ch, taken, toHelper, fromHelper>>
            BY <1>2, BoundsAssumption
            DEF Start, HoldsWhatItShould, TypeOK, Proc, calls, duty
      <2>2. \A i : Answered(i)' => Answered(i)
            BY <2>1, GoroutineAssumption DEF Answered, TypeOK, Goroutine
      <2>3. \A d \in Callers : pc'[d] = "write" => pc[d] = "write"
            BY <2>1, GoroutineAssumption DEF TypeOK, Goroutine
      <2>4. QED
            BY <2>1, <2>2, <2>3 DEF UnsentUnanswered
<1>3. ASSUME NEW c \in Callers, CallRegister(c)
      PROVE  UnsentUnanswered'
      <2>1. /\ id' = [id EXCEPT ![c] = nextID + 1]
            /\ nextID' = nextID + 1 /\ nextID \in Nat /\ nextID + 1 \in ID
            /\ UNCHANGED <<ch, taken, toHelper, fromHelper>>
            /\ \A d \in Callers : d # c => pc'[d] = pc[d]
            /\ \A p \in Proc : pc'[p] = pc[p]
            <3>1. nextID \in Nat /\ nextID + 1 \in ID
                  BY <1>3, BoundsAssumption DEF CallRegister, TypeOK, ID
            <3>2. pc' = [pc EXCEPT ![c] = "write"] /\ c \notin Proc
                  BY <1>3, GoroutineAssumption DEF CallRegister, Goto
            <3>3. QED
                  BY <1>3, <3>1, <3>2 DEF CallRegister, TypeOK, Goroutine, duty, pipes
      <2>2. \A i : Answered(i)' <=> Answered(i)
            BY <2>1 DEF Answered
      <2>3. ~Answered(nextID + 1)
            BY <2>1 DEF Answered, IdentifierUnique, Goroutine
      <2>4. \A p \in Proc : \A i \in toHelper[p] \cup fromHelper[p] :
              i \in Nat /\ i <= nextID
            BY BoundsAssumption DEF UnsentUnanswered, TypeOK, ID
      <2>5. \A p \in Proc : nextID + 1 \notin toHelper[p] \cup fromHelper[p]
            BY <2>1, <2>4
      <2>6. ASSUME NEW d \in Callers, pc'[d] = "write"
            PROVE  /\ \A p \in Proc : id'[d] \notin toHelper'[p] \cup fromHelper'[p]
                   /\ ~Answered(id[d])'
            <3>1. CASE d = c
                  BY <2>1, <2>2, <2>3, <2>5, <3>1 DEF TypeOK
            <3>2. CASE d # c
                  BY <2>1, <2>2, <2>6, <3>2 DEF UnsentUnanswered, TypeOK
            <3>3. QED
                  BY <3>1, <3>2
      <2>7. \A p \in Proc : \A i \in toHelper'[p] \cup fromHelper'[p] : i <= nextID'
            BY <2>1, <2>4
      <2>8. QED
            BY <2>6, <2>7 DEF UnsentUnanswered
<1>4. ASSUME NEW c \in Callers, CallWritePanics(c)
      PROVE  UnsentUnanswered'
      BY <1>4, UnsentKept, GoroutineAssumption, BoundsAssumption
      DEF CallWritePanics, Goto, Return, Answered, client, calls, duty,
         pipes, Goroutine, Proc, TypeOK
<1>5. ASSUME NEW c \in Callers, CallWriteFails(c)
      PROVE  UnsentUnanswered'
      BY <1>5, UnsentKept, GoroutineAssumption, BoundsAssumption
      DEF CallWriteFails, Goto, Return, Answered, client, calls, duty,
         pipes, Goroutine, Proc, TypeOK
<1>6. ASSUME NEW c \in Callers, CallWriteDelivers(c)
      PROVE  UnsentUnanswered'
      <2>1. /\ toHelper' = [toHelper EXCEPT ![stdin[c]] = @ \cup {id[c]}]
            /\ pc' = [pc EXCEPT ![c] = "wait"]
            /\ UNCHANGED <<nextID, id, ch, taken, fromHelper>>
            /\ pc[c] = "write"
            BY <1>6 DEF CallWriteDelivers, Goto, client, calls, duty
      <2>2. \A i : Answered(i)' <=> Answered(i)
            BY <2>1, GoroutineAssumption DEF Answered, TypeOK, Goroutine
      <2>3. id[c] <= nextID
            BY DEF IdentifierUnique
      <2>4. \A p \in Proc : toHelper'[p] \subseteq toHelper[p] \cup {id[c]}
            BY <2>1 DEF TypeOK
      <2>5. ASSUME NEW d \in Callers, pc'[d] = "write"
            PROVE  d # c /\ pc[d] = "write" /\ id[d] # id[c]
            <3>1. c \in Goroutine
                  BY DEF Goroutine
            <3>2. d # c /\ pc[d] = "write"
                  BY <2>1, <2>5, <3>1 DEF TypeOK
            <3>3. id[d] # 0
                  BY <3>2 DEF TypeOK
            <3>4. QED
                  BY <3>2, <3>3 DEF IdentifierUnique
      <2>6. QED
            BY <2>1, <2>2, <2>3, <2>4, <2>5 DEF UnsentUnanswered
<1>7. ASSUME NEW c \in Callers, CallReceive(c)
      PROVE  UnsentUnanswered'
      BY <1>7, UnsentKept, GoroutineAssumption, BoundsAssumption
      DEF CallReceive, IdentifierUnique, Goto, Return, Answered, client, calls, duty,
         pipes, Goroutine, Proc, TypeOK
<1>8. ASSUME NEW c \in Callers, CallExpire(c)
      PROVE  UnsentUnanswered'
      BY <1>8, UnsentKept, GoroutineAssumption, BoundsAssumption
      DEF CallExpire, Goto, Return, Answered, client, calls, duty,
         pipes, Goroutine, Proc, TypeOK
<1>9. ASSUME NEW c \in Callers, CancelSkipped(c)
      PROVE  UnsentUnanswered'
      BY <1>9, UnsentKept, GoroutineAssumption, BoundsAssumption
      DEF CancelSkipped, Goto, Return, Answered, client, calls, duty,
         pipes, Goroutine, Proc, TypeOK
<1>10. ASSUME NEW c \in Callers, CancelSnapshot(c)
      PROVE  UnsentUnanswered'
      BY <1>10, UnsentKept, GoroutineAssumption, BoundsAssumption
      DEF CancelSnapshot, Goto, Return, Answered, client, calls, duty,
         pipes, Goroutine, Proc, TypeOK
<1>11. ASSUME NEW c \in Callers, CancelWrite(c)
      PROVE  UnsentUnanswered'
      <2>1. /\ nextID' = nextID + 1 /\ nextID \in Nat
            /\ pc' = [pc EXCEPT ![c] = "idle"]
            /\ id' = [id EXCEPT ![c] = 0]
            /\ UNCHANGED <<ch, taken, fromHelper>>
            /\ \A p \in Proc : toHelper'[p] \subseteq toHelper[p] \cup {nextID + 1}
            BY <1>11, BoundsAssumption DEF CancelWrite, Return, Goto, TypeOK, duty
      <2>2. \A i : Answered(i)' <=> Answered(i)
            BY <2>1, GoroutineAssumption DEF Answered, TypeOK, Goroutine
      <2>3. \A p \in Proc : \A i \in toHelper[p] \cup fromHelper[p] :
              i \in Nat /\ i <= nextID
            BY BoundsAssumption DEF UnsentUnanswered, TypeOK, ID
      <2>4. ASSUME NEW d \in Callers, pc'[d] = "write"
            PROVE  /\ d # c /\ pc[d] = "write" /\ id'[d] = id[d]
                   /\ id[d] \in Nat /\ id[d] <= nextID
            BY <2>1, <2>4, BoundsAssumption DEF TypeOK, Goroutine, IdentifierUnique
      <2>5. QED
            BY <2>1, <2>2, <2>3, <2>4 DEF UnsentUnanswered
<1>12. ASSUME NEW c \in Callers, CallFailed(c)
      PROVE  UnsentUnanswered'
      <2>1. /\ pc[c] = "notify" /\ pc' = [pc EXCEPT ![c] = "idle"]
            /\ id' = [id EXCEPT ![c] = 0]
            /\ UNCHANGED <<nextID, ch, taken, toHelper, fromHelper>>
            BY <1>12 DEF CallFailed, Return, Goto, client, duty, pipes
      <2>2. \A i : Answered(i)' <=> Answered(i)
            BY <2>1, GoroutineAssumption DEF Answered, TypeOK, Goroutine
      <2>3. \A d \in Callers : pc'[d] = "write" => pc[d] = "write" /\ id'[d] = id[d]
            BY <2>1 DEF TypeOK, Goroutine
      <2>4. QED
            BY <2>1, <2>2, <2>3 DEF UnsentUnanswered
<1>13. ASSUME NEW g \in Goroutine, Kill(g)
      PROVE  UnsentUnanswered'
      <2>1. /\ pc[g] = "kill" /\ pc' = [pc EXCEPT ![g] = "notify"]
            /\ UNCHANGED <<nextID, id, ch, taken, fromHelper>>
            /\ \A p \in Proc : toHelper'[p] \subseteq toHelper[p]
            BY <1>13 DEF Kill, End, Goto, client, calls
      <2>2. \A i : Answered(i)' <=> Answered(i)
            BY <2>1 DEF Answered, TypeOK, Goroutine
      <2>3. \A d \in Callers : pc'[d] = "write" => pc[d] = "write"
            BY <2>1 DEF TypeOK, Goroutine
      <2>4. QED
            BY <2>1, <2>2, <2>3 DEF UnsentUnanswered
<1>14. ASSUME NEW g \in Goroutine, Notify(g)
      PROVE  UnsentUnanswered'
      BY <1>14, UnsentKept, GoroutineAssumption, BoundsAssumption
      DEF Notify, OneAnswerer, SendNeverBlocks, Goto, Return, Answered, client,
          calls, duty,
         pipes, Goroutine, Proc, TypeOK
<1>15. ASSUME NEW g \in Closers \cup Proc, Finish(g)
      PROVE  UnsentUnanswered'
      BY <1>15, UnsentKept, GoroutineAssumption, BoundsAssumption
      DEF Finish, Goto, Return, Answered, client, calls, duty,
         pipes, Goroutine, Proc, TypeOK
<1>16. ASSUME NEW p \in Proc, ReadDropped(p)
      PROVE  UnsentUnanswered'
      BY <1>16, UnsentKept, GoroutineAssumption, BoundsAssumption
      DEF ReadDropped, NextFrame, Goto, Return, Answered, client, calls, duty,
         pipes, Goroutine, Proc, TypeOK
<1>17. ASSUME NEW p \in Proc, ReadBadLength(p)
      PROVE  UnsentUnanswered'
      BY <1>17, UnsentKept, GoroutineAssumption, BoundsAssumption
      DEF ReadBadLength, NextFrame, Goto, Return, Answered, client, calls, duty,
         pipes, Goroutine, Proc, TypeOK
<1>18. ASSUME NEW p \in Proc, ReadEOF(p)
      PROVE  UnsentUnanswered'
      BY <1>18, UnsentKept, GoroutineAssumption, BoundsAssumption
      DEF ReadEOF, Goto, Return, Answered, client, calls, duty,
         pipes, Goroutine, Proc, TypeOK
<1>19. ASSUME NEW p \in Proc, Deliver(p)
      PROVE  UnsentUnanswered'
      BY <1>19, UnsentKept, GoroutineAssumption, BoundsAssumption
      DEF Deliver, HoldsWhatItShould, Goto, Return, Answered, client, calls, duty,
         pipes, Goroutine, Proc, TypeOK
<1>20. ASSUME NEW p \in Proc, HelperReply(p)
      PROVE  UnsentUnanswered'
      BY <1>20, UnsentKept, GoroutineAssumption, BoundsAssumption
      DEF HelperReply, Goto, Return, Answered, client, calls, duty,
         pipes, Goroutine, Proc, TypeOK
<1>21. ASSUME NEW p \in Proc, HelperExit(p)
      PROVE  UnsentUnanswered'
      BY <1>21, UnsentKept, GoroutineAssumption, BoundsAssumption
      DEF HelperExit, End, Goto, Return, Answered, client, calls, duty,
         pipes, Goroutine, Proc, TypeOK
<1>22. ASSUME NEW g \in Goroutine, TakeOver(g),
              pc[g] = "fail" \/ (g \in Closers /\ pc[g] = "idle")
       PROVE  UnsentUnanswered'
       <2>1. /\ pc[g] # "deliver" /\ pc'[g] = "kill"
             /\ \A h \in Goroutine : h # g => pc'[h] = pc[h] /\ taken'[h] = taken[h]
             /\ UNCHANGED <<ch, id, nextID, toHelper, fromHelper>>
             BY <1>22 DEF TakeOver, Goto, TypeOK, calls, pipes
       <2>2. \A i : Answered(i)' <=> Answered(i)
             BY <2>1 DEF Answered, Goroutine
       <2>3. QED
             BY <2>1, <2>2, GoroutineAssumption DEF UnsentUnanswered, Goroutine
<1>23. ASSUME NEW p \in Proc, ReadAnswer(p)
       PROVE  UnsentUnanswered'
       <2>1. PICK i \in fromHelper[p] : NextFrame(p, i) /\ i \in pending
                  /\ pending' = pending \ {i}
                  /\ taken' = [taken EXCEPT ![p] = {i}]
                  /\ Goto(p, "deliver")
                  /\ UNCHANGED <<cmd, started, nextID, calls, victim, alive, toHelper>>
             BY <1>23 DEF ReadAnswer
       <2>2. \A j : j # i => (Answered(j)' <=> Answered(j))
             BY <2>1, GoroutineAssumption DEF NextFrame, HoldsWhatItShould,
                 Goto, Return, Answered, client, calls, duty,
         pipes, Goroutine, Proc, TypeOK
       <2>3. ASSUME NEW c \in Callers, pc'[c] = "write"
             PROVE  pc[c] = "write" /\ id'[c] = id[c] /\ id[c] # i
             BY <2>1, <2>3, GoroutineAssumption
             DEF Goto, Goroutine, TypeOK, calls, UnsentUnanswered
       <2>4. \A q \in Proc : fromHelper'[q] \subseteq fromHelper[q]
             BY <2>1 DEF NextFrame, TypeOK
       <2>5. QED
             BY <2>1, <2>2, <2>3, <2>4 DEF UnsentUnanswered
<1>24. CASE UNCHANGED vars
       BY <1>24, UnsentKept, BoundsAssumption DEF vars, Goto, Return, Answered,
           client, calls, duty,
         pipes, Goroutine, Proc, TypeOK
<1>25. QED
       BY <1>1, <1>2, <1>3, <1>4, <1>5, <1>6, <1>7, <1>8, <1>9, <1>10, <1>11,
          <1>12, <1>13, <1>14, <1>15, <1>16, <1>17, <1>18, <1>19, <1>20, <1>21,
          <1>22, <1>23, <1>24
       DEF Next, CallStep, TakeDownStep, ReaderStep, FailProcess, Close, Goroutine

-----------------------------------------------------------------------------
(* All of the invariants hold in every reachable state. *)
LEMMA ReachableAlways == Spec => []Reachable
<1>1. Init => Reachable
      BY InitIInv, InitUnsent DEF Reachable
<1>2. Reachable /\ [Next]_vars => Reachable'
      BY NextIInv, NextUnsent DEF Reachable
<1>3. QED
      BY <1>1, <1>2, PTL DEF Spec

(* helperClient implements CallContract: readLoop, failProcess, Close, the  *)
(* restarts and the deadlines together decide a call once, answer it only   *)
(* after it was sent, and return what was decided.                          *)
THEOREM ClientKeepsContract == Spec => KeepsContract
<1>1. Init => Contract!Init
      <2>1. ASSUME Init, NEW c \in Callers
            PROVE  CallState(c) = "none"
            BY <2>1, GoroutineAssumption DEF Init, Goroutine, CallState
      <2>2. QED
            BY <2>1 DEF Contract!Init, CallStates
<1>2. Reachable /\ [Next]_vars => [Contract!Next]_CallStates
      <2>1. CASE Panicked
            <3>1. ~Next
                  BY <2>1 DEF Next
            <3>2. ASSUME UNCHANGED vars
                  PROVE  CallStates' = CallStates
                  BY <3>2 DEF CallStates, CallState, Answered, vars, client, calls, duty
            <3>3. QED
                  BY <3>1, <3>2
      <2>2. CASE ~Panicked
            BY <2>2, StepKeepsContract
      <2>3. QED
            BY <2>1, <2>2
<1>3. QED
      BY <1>1, <1>2, ReachableAlways, PTL DEF Spec, Contract!Spec, KeepsContract
=============================================================================
