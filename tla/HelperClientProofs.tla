------------------------- MODULE HelperClientProofs -------------------------
(* Proofs about HelperClient, for any number of callers, processes and       *)
(* identifiers.                                                              *)
EXTENDS HelperClient, TLAPS

-----------------------------------------------------------------------------
(* Type correctness. *)

(* The variables have their types initially. *)
LEMMA InitTypeOK == Init => TypeOK
BY BoundsAssumption, GoroutineAssumption
   DEF Init, TypeOK, Goroutine, Proc, ID, PC, CallerPC, CloserPC, ReaderPC,
       ChannelContent

(* Every action keeps the types, and leaves goroutines at points of their   *)
(* kind.                                                                     *)
LEMMA NextTypeOK == TypeOK /\ [Next]_vars => TypeOK'
<1> SUFFICES ASSUME TypeOK, [Next]_vars
             PROVE  TypeOK'
    OBVIOUS
<1> USE BoundsAssumption, GoroutineAssumption
    DEF TypeOK, Goroutine, Proc, ID, PC, CallerPC, CloserPC, ReaderPC,
        ChannelContent, Goto, Return, vars, client, calls, duty, pipes
<1>1. ASSUME NEW c \in Callers, AlreadyStarted(c)
      PROVE  TypeOK'
      BY <1>1 DEF AlreadyStarted
<1>2. ASSUME NEW c \in Callers, Start(c)
      PROVE  TypeOK'
      <2>1. started + 1 \in Proc
            BY <1>2 DEF Start
      <2>2. /\ pc' \in [Goroutine -> PC]
            /\ \A d \in Callers : pc'[d] \in CallerPC
            /\ \A k \in Closers : pc'[k] \in CloserPC
            /\ \A p \in Proc : pc'[p] \in ReaderPC
            <3>1. pc' = [pc EXCEPT ![c] = "register", ![started + 1] = "read"]
                  BY <1>2 DEF Start
            <3>2. c \notin Proc /\ started + 1 \notin Callers \cup Closers
                  BY <2>1
            <3>3. QED
                  BY <2>1, <3>1, <3>2
      <2>3. /\ pc[c] \notin {"write", "wait"}
            /\ \A d \in Callers : d # c => pc'[d] = pc[d]
            /\ pc'[c] = "register"
            BY <1>2, <2>1 DEF Start
      <2>4. /\ cmd' \in 0..MaxProc
            /\ started' \in 0..MaxProc
            /\ alive' \subseteq Proc
            BY <1>2, <2>1 DEF Start
      <2>5. UNCHANGED <<pending, nextID, calls, duty, toHelper, fromHelper>>
            BY <1>2 DEF Start
      <2>6. QED
            BY <2>2, <2>3, <2>4, <2>5
<1>3. ASSUME NEW c \in Callers, CallRegister(c)
      PROVE  TypeOK'
      BY <1>3 DEF CallRegister
<1>4. ASSUME NEW c \in Callers, CallWritePanics(c)
      PROVE  TypeOK'
      BY <1>4 DEF CallWritePanics
<1>5. ASSUME NEW c \in Callers, CallWriteDelivers(c)
      PROVE  TypeOK'
      <2>1. id[c] \in ID
            BY <1>5 DEF CallWriteDelivers
      <2>2. QED
            BY <1>5, <2>1 DEF CallWriteDelivers
<1>6. ASSUME NEW c \in Callers, CallWriteFails(c)
      PROVE  TypeOK'
      BY <1>6 DEF CallWriteFails
<1>7. ASSUME NEW c \in Callers, CallReceive(c)
      PROVE  TypeOK'
      <2>1. id[c] \in ID
            BY <1>7 DEF CallReceive
      <2>2. QED
            BY <1>7, <2>1 DEF CallReceive
<1>8. ASSUME NEW c \in Callers, CallExpire(c)
      PROVE  TypeOK'
      BY <1>8 DEF CallExpire
<1>9. ASSUME NEW c \in Callers, CancelSkipped(c)
      PROVE  TypeOK'
      BY <1>9 DEF CancelSkipped
<1>10. ASSUME NEW c \in Callers, CancelSnapshot(c)
       PROVE  TypeOK'
       BY <1>10 DEF CancelSnapshot
<1>11. ASSUME NEW c \in Callers, CancelWrite(c)
       PROVE  TypeOK'
       BY <1>11 DEF CancelWrite
<1>12. ASSUME NEW c \in Callers, CallFailed(c)
       PROVE  TypeOK'
       <2>1. /\ pc' = [pc EXCEPT ![c] = "idle"]
             /\ id' = [id EXCEPT ![c] = 0]
             /\ stdin' = [stdin EXCEPT ![c] = 0]
             /\ UNCHANGED <<client, ch, duty, pipes>>
             BY <1>12 DEF CallFailed
       <2>2. QED
             BY <2>1
<1>13. ASSUME NEW g \in Goroutine, FailProcess(g)
       PROVE  TypeOK'
       <2>1. /\ pc' = [pc EXCEPT ![g] = "kill"]
             /\ g \in Callers \cup Proc
             BY <1>13 DEF FailProcess, TakeOver
       <2>2. /\ pc' \in [Goroutine -> PC]
             /\ \A c \in Callers : pc'[c] \in CallerPC
             /\ \A k \in Closers : pc'[k] \in CloserPC
             /\ \A p \in Proc : pc'[p] \in ReaderPC
             BY <2>1
       <2>3. QED
             BY <1>13, <2>1, <2>2 DEF FailProcess, TakeOver
<1>14. ASSUME NEW g \in Goroutine, Kill(g)
       PROVE  TypeOK'
       <2>1. pc' = [pc EXCEPT ![g] = "notify"]
             BY <1>14 DEF Kill
       <2>2. g \in Callers \cup Closers \cup Proc
             OBVIOUS
       <2>3. /\ pc' \in [Goroutine -> PC]
             /\ \A c \in Callers : pc'[c] \in CallerPC
             /\ \A k \in Closers : pc'[k] \in CloserPC
             /\ \A p \in Proc : pc'[p] \in ReaderPC
             BY <2>1, <2>2
       <2>4. \A c \in Callers : pc'[c] \in {"write", "wait"} => id[c] # 0
             BY <2>1
       <2>5. /\ alive' \subseteq Proc
             /\ toHelper' \in [Proc -> SUBSET ID]
             BY <1>14 DEF Kill, End
       <2>6. victim' \in [Goroutine -> 0..MaxProc]
             BY <1>14 DEF Kill
       <2>7. UNCHANGED <<client, calls, taken, fromHelper>>
             BY <1>14 DEF Kill, End
       <2>8. QED
             BY <2>3, <2>4, <2>5, <2>6, <2>7
<1>15. ASSUME NEW g \in Goroutine, Notify(g)
       PROVE  TypeOK'
       <2>1. PICK i \in taken[g] : /\ ch' = [ch EXCEPT ![i] = "gone"]
                                  /\ taken' = [taken EXCEPT ![g] = @ \ {i}]
             BY <1>15 DEF Notify
       <2>2. /\ ch' \in [ID -> ChannelContent]
             /\ taken' \in [Goroutine -> SUBSET ID]
             BY <2>1
       <2>3. UNCHANGED <<client, id, stdin, victim, pipes, pc>>
             BY <1>15 DEF Notify
       <2>4. QED
             BY <2>2, <2>3
<1>16. ASSUME NEW k \in Closers, Close(k)
       PROVE  TypeOK'
       BY <1>16 DEF Close, TakeOver
<1>17. ASSUME NEW g \in Closers \cup Proc, Finish(g)
       PROVE  TypeOK'
       BY <1>17 DEF Finish
<1>18. ASSUME NEW p \in Proc, ReadAnswer(p)
       PROVE  TypeOK'
       BY <1>18 DEF ReadAnswer, NextFrame
<1>19. ASSUME NEW p \in Proc, ReadDropped(p)
       PROVE  TypeOK'
       BY <1>19 DEF ReadDropped, NextFrame
<1>20. ASSUME NEW p \in Proc, ReadBadLength(p)
       PROVE  TypeOK'
       BY <1>20 DEF ReadBadLength, NextFrame
<1>21. ASSUME NEW p \in Proc, ReadEOF(p)
       PROVE  TypeOK'
       BY <1>21 DEF ReadEOF
<1>22. ASSUME NEW p \in Proc, Deliver(p)
       PROVE  TypeOK'
       BY <1>22 DEF Deliver
<1>23. ASSUME NEW p \in Proc, HelperReply(p)
       PROVE  TypeOK'
       BY <1>23 DEF HelperReply
<1>24. ASSUME NEW p \in Proc, HelperExit(p)
       PROVE  TypeOK'
       BY <1>24 DEF HelperExit, End
<1>25. CASE UNCHANGED vars
       BY <1>25
<1>26. QED
       BY <1>1, <1>2, <1>3, <1>4, <1>5, <1>6, <1>7, <1>8, <1>9, <1>10, <1>11,
          <1>12, <1>13, <1>14, <1>15, <1>16, <1>17, <1>18, <1>19, <1>20,
          <1>21, <1>22, <1>23, <1>24, <1>25
       DEF Next, CallStep, TakeDownStep, ReaderStep

(* Every reachable state has the type TypeOK gives it. *)
THEOREM TypeCorrect == Spec => []TypeOK
<1>1. Init => TypeOK
      BY InitTypeOK
<1>2. TypeOK /\ [Next]_vars => TypeOK'
      BY NextTypeOK
<1>3. QED
      BY <1>1, <1>2, PTL DEF Spec

-----------------------------------------------------------------------------
(* The invariants.  IInv is inductive; each property below is one of its     *)
(* conjuncts.  CallNotLost needs IdentifierUnique (an answer read by one     *)
(* call cannot be another's), SendNeverBlocks needs OneAnswerer,             *)
(* PendingHasCaller needs SendNeverBlocks (a call that received is no longer *)
(* in the map) and all of them need HoldsWhatItShould (nobody overwrites     *)
(* what it still has to kill or to answer).                                  *)

(* The inductive invariant holds before anything was started.                *)
LEMMA InitIInv == Init => IInv
<1> SUFFICES ASSUME Init
             PROVE  IInv
    OBVIOUS
<1>1. TypeOK
      BY InitTypeOK
<1>2. HoldsWhatItShould /\ IdentifierUnique
      BY BoundsAssumption, GoroutineAssumption
      DEF Init, HoldsWhatItShould, IdentifierUnique, Goroutine, Proc, ID
<1>3. OneAnswerer /\ SendNeverBlocks /\ CallNotLost
      BY BoundsAssumption, GoroutineAssumption
      DEF Init, OneAnswerer, SendNeverBlocks, CallNotLost, Goroutine, Proc
<1>4. /\ PendingHasCaller
      /\ PendingOnCurrent
      /\ CurrentHasReader
      /\ NoOrphanProcess
      BY DEF Init, PendingHasCaller, PendingOnCurrent, CurrentHasReader,
             NoOrphanProcess
<1>5. QED
      BY <1>1, <1>2, <1>3, <1>4 DEF IInv

(* Every action of Next keeps it: one step for each action.                  *)
LEMMA NextIInv == IInv /\ [Next]_vars => IInv'
<1> SUFFICES ASSUME IInv, [Next]_vars
             PROVE  IInv'
    OBVIOUS
<1> USE DEF vars, client, calls, duty, pipes, Goroutine, Proc, ID
<1>1. TypeOK /\ TypeOK'
      BY NextTypeOK DEF IInv
<1>2. /\ HoldsWhatItShould
      /\ IdentifierUnique
      /\ OneAnswerer
      /\ SendNeverBlocks
      /\ CallNotLost
      /\ PendingHasCaller
      /\ PendingOnCurrent
      /\ CurrentHasReader
      /\ NoOrphanProcess
      BY DEF IInv
<1>3. /\ MaxProc \in Nat
      /\ MaxID \in Nat
      /\ \A c \in Callers : c \notin Closers /\ c \notin Proc
      /\ \A k \in Closers : k \notin Proc
      BY BoundsAssumption, GoroutineAssumption
<1> USE <1>1, <1>2, <1>3 DEF TypeOK
<1>4. ASSUME NEW c \in Callers, AlreadyStarted(c)
      PROVE  IInv'
      <2>1. HoldsWhatItShould'
            BY <1>4 DEF AlreadyStarted, Goto, HoldsWhatItShould
      <2>2. IdentifierUnique'
            BY <1>4 DEF AlreadyStarted, Goto, IdentifierUnique
      <2>3. OneAnswerer'
            BY <1>4 DEF AlreadyStarted, Goto, OneAnswerer, IdentifierUnique
      <2>4. SendNeverBlocks'
            BY <1>4 DEF AlreadyStarted, Goto, SendNeverBlocks, OneAnswerer, IdentifierUnique
      <2>5. CallNotLost'
            BY <1>4 DEF AlreadyStarted, Goto, CallNotLost, IdentifierUnique
      <2>6. PendingHasCaller'
            BY <1>4 DEF AlreadyStarted, Goto, PendingHasCaller, SendNeverBlocks
      <2>7. PendingOnCurrent'
            BY <1>4 DEF AlreadyStarted, Goto, PendingOnCurrent, HoldsWhatItShould, IdentifierUnique
      <2>8. CurrentHasReader'
            BY <1>4 DEF AlreadyStarted, Goto, CurrentHasReader
      <2>9. NoOrphanProcess'
            BY <1>4 DEF AlreadyStarted, Goto, NoOrphanProcess, HoldsWhatItShould
      <2>10. QED
            BY <2>1, <2>2, <2>3, <2>4, <2>5, <2>6, <2>7, <2>8, <2>9
            DEF IInv
<1>5. ASSUME NEW c \in Callers, Start(c)
      PROVE  IInv'
      <2>1. HoldsWhatItShould'
            <3>1. started + 1 \in Proc /\ pc[started + 1] = "off"
                  BY <1>5 DEF Start, HoldsWhatItShould
            <3>2. pc' = [pc EXCEPT ![c] = "register", ![started + 1] = "read"]
                  BY <1>5 DEF Start
            <3>3. /\ \A g \in Goroutine : g \notin {c, started + 1} => pc'[g] = pc[g]
                  /\ pc'[c] = "register"
                  /\ pc'[started + 1] = "read"
                  /\ pc[c] = "idle"
                  BY <1>5, <3>1, <3>2 DEF Start
            <3>4. UNCHANGED <<pending, id, stdin, duty>> /\ started' = started + 1
                  BY <1>5 DEF Start
            <3>5. \A d \in Callers :
                    pc'[d] = "write" /\ id'[d] \in pending' => stdin'[d] \in {0, cmd'}
                  BY <1>5, <3>1, <3>3, <3>4 DEF Start, HoldsWhatItShould
            <3>6. \A p \in Proc : p > started' => pc'[p] = "off"
                  <4> SUFFICES ASSUME NEW p \in Proc, p > started'
                               PROVE  pc'[p] = "off"
                      OBVIOUS
                  <4>1. p > started /\ p # started + 1
                        BY <3>4
                  <4>2. p # c
                        OBVIOUS
                  <4>3. QED
                        BY <4>1, <4>2, <3>3 DEF HoldsWhatItShould
            <3>7. \A p \in Proc : pc'[p] = "deliver" => pc[p] = "deliver"
                  BY <3>1, <3>3
            <3>8. \A g \in Goroutine :
                    /\ pc'[g] # "kill" => pc[g] # "kill"
                    /\ pc'[g] \notin {"kill", "notify", "deliver"} =>
                         pc[g] \notin {"kill", "notify", "deliver"}
                  BY <3>1, <3>3
            <3>9. \A d \in Callers : pc'[d] = "wait" => pc[d] = "wait"
                  BY <3>3
            <3>10. QED
                  BY <3>4, <3>5, <3>6, <3>7, <3>8, <3>9 DEF HoldsWhatItShould
      <2>2. IdentifierUnique'
            BY <1>5 DEF Start, Goto, IdentifierUnique
      <2>3. OneAnswerer'
            BY <1>5 DEF Start, Goto, OneAnswerer, IdentifierUnique
      <2>4. SendNeverBlocks'
            BY <1>5 DEF Start, Goto, SendNeverBlocks, OneAnswerer, IdentifierUnique
      <2>5. CallNotLost'
            BY <1>5 DEF Start, Goto, CallNotLost, IdentifierUnique
      <2>6. PendingHasCaller'
            <3>1. started + 1 \in Proc /\ pc[c] = "idle" /\ UNCHANGED <<pending, id>>
                  BY <1>5 DEF Start
            <3>2. \A d \in Callers : d # c => pc'[d] = pc[d]
                  BY <1>5, <3>1 DEF Start
            <3>3. QED
                  BY <3>1, <3>2 DEF PendingHasCaller
      <2>7. PendingOnCurrent'
            BY <1>5 DEF Start, Goto, PendingOnCurrent, HoldsWhatItShould, IdentifierUnique
      <2>8. CurrentHasReader'
            BY <1>5 DEF Start, Goto, CurrentHasReader
      <2>9. NoOrphanProcess'
            BY <1>5 DEF Start, Goto, NoOrphanProcess, HoldsWhatItShould
      <2>10. QED
            BY <2>1, <2>2, <2>3, <2>4, <2>5, <2>6, <2>7, <2>8, <2>9
            DEF IInv
<1>6. ASSUME NEW c \in Callers, CallRegister(c)
      PROVE  IInv'
      <2>1. HoldsWhatItShould'
            <3>1. \A g \in Goroutine : g # c => pc'[g] = pc[g]
                  BY <1>6 DEF CallRegister, Goto
            <3>2. /\ pc'[c] = "write"
                  /\ pc[c] = "register"
                  /\ stdin'[c] = cmd
                  /\ \A d \in Callers : d # c => stdin'[d] = stdin[d]
                  /\ UNCHANGED <<cmd, started, duty>>
                  BY <1>6 DEF CallRegister, Goto
            <3>3. \A d \in Callers :
                    d # c => id'[d] = id[d] /\ (id[d] \in pending' => id[d] \in pending)
                  BY <1>6 DEF CallRegister, IdentifierUnique
            <3>4. \A d \in Callers :
                    pc'[d] = "write" /\ id'[d] \in pending' => stdin'[d] \in {0, cmd'}
                  BY <3>1, <3>2, <3>3 DEF HoldsWhatItShould
            <3>5. QED
                  BY <3>1, <3>2, <3>4 DEF HoldsWhatItShould
      <2>2. IdentifierUnique'
            BY <1>6 DEF CallRegister, Goto, IdentifierUnique
      <2>3. OneAnswerer'
            BY <1>6 DEF CallRegister, Goto, OneAnswerer, IdentifierUnique
      <2>4. SendNeverBlocks'
            BY <1>6 DEF CallRegister, Goto, SendNeverBlocks, OneAnswerer, IdentifierUnique
      <2>5. CallNotLost'
            BY <1>6 DEF CallRegister, Goto, CallNotLost, IdentifierUnique
      <2>6. PendingHasCaller'
            BY <1>6 DEF CallRegister, Goto, PendingHasCaller, SendNeverBlocks
      <2>7. PendingOnCurrent'
            BY <1>6 DEF CallRegister, Goto, PendingOnCurrent, HoldsWhatItShould, IdentifierUnique
      <2>8. CurrentHasReader'
            BY <1>6 DEF CallRegister, Goto, CurrentHasReader
      <2>9. NoOrphanProcess'
            BY <1>6 DEF CallRegister, Goto, NoOrphanProcess, HoldsWhatItShould
      <2>10. QED
            BY <2>1, <2>2, <2>3, <2>4, <2>5, <2>6, <2>7, <2>8, <2>9
            DEF IInv
<1>7. ASSUME NEW c \in Callers, CallWritePanics(c)
      PROVE  IInv'
      BY <1>7 DEF CallWritePanics, Goto, IInv, HoldsWhatItShould,
         IdentifierUnique, OneAnswerer, SendNeverBlocks, CallNotLost,
         PendingHasCaller, PendingOnCurrent, CurrentHasReader, NoOrphanProcess
<1>8. ASSUME NEW c \in Callers, CallWriteDelivers(c)
      PROVE  IInv'
      <2>1. HoldsWhatItShould'
            <3>1. \A g \in Goroutine : g # c => pc'[g] = pc[g]
                  BY <1>8 DEF CallWriteDelivers, Goto
            <3>2. /\ pc'[c] = "wait"
                  /\ pc[c] = "write"
                  /\ stdin[c] # 0
                  /\ UNCHANGED <<client, id, stdin, duty>>
                  BY <1>8 DEF CallWriteDelivers, Goto
            <3>3. QED
                  BY <3>1, <3>2 DEF HoldsWhatItShould
      <2>2. IdentifierUnique'
            BY <1>8 DEF CallWriteDelivers, Goto, IdentifierUnique
      <2>3. OneAnswerer'
            BY <1>8 DEF CallWriteDelivers, Goto, OneAnswerer, IdentifierUnique
      <2>4. SendNeverBlocks'
            BY <1>8 DEF CallWriteDelivers, Goto, SendNeverBlocks, OneAnswerer, IdentifierUnique
      <2>5. CallNotLost'
            BY <1>8 DEF CallWriteDelivers, Goto, CallNotLost, IdentifierUnique
      <2>6. PendingHasCaller'
            BY <1>8 DEF CallWriteDelivers, Goto, PendingHasCaller, SendNeverBlocks
      <2>7. PendingOnCurrent'
            BY <1>8 DEF CallWriteDelivers, Goto, PendingOnCurrent, HoldsWhatItShould, IdentifierUnique
      <2>8. CurrentHasReader'
            BY <1>8 DEF CallWriteDelivers, Goto, CurrentHasReader
      <2>9. NoOrphanProcess'
            BY <1>8 DEF CallWriteDelivers, Goto, NoOrphanProcess, HoldsWhatItShould
      <2>10. QED
            BY <2>1, <2>2, <2>3, <2>4, <2>5, <2>6, <2>7, <2>8, <2>9
            DEF IInv
<1>9. ASSUME NEW c \in Callers, CallWriteFails(c)
      PROVE  IInv'
      BY <1>9 DEF CallWriteFails, Goto, IInv, HoldsWhatItShould,
         IdentifierUnique, OneAnswerer, SendNeverBlocks, CallNotLost,
         PendingHasCaller, PendingOnCurrent, CurrentHasReader, NoOrphanProcess
<1>10. ASSUME NEW c \in Callers, CallReceive(c)
      PROVE  IInv'
      <2>1. HoldsWhatItShould'
            BY <1>10 DEF CallReceive, Return, Goto, HoldsWhatItShould
      <2>2. IdentifierUnique'
            BY <1>10 DEF CallReceive, Return, Goto, IdentifierUnique
      <2>3. OneAnswerer'
            BY <1>10 DEF CallReceive, Return, Goto, OneAnswerer, IdentifierUnique
      <2>4. SendNeverBlocks'
            BY <1>10 DEF CallReceive, Return, Goto, SendNeverBlocks, OneAnswerer, IdentifierUnique
      <2>5. CallNotLost'
            BY <1>10 DEF CallReceive, Return, Goto, CallNotLost, IdentifierUnique
      <2>6. PendingHasCaller'
            <3>1. id[c] \in ID /\ c \in Goroutine /\ ch[id[c]] # "empty"
                  BY <1>10 DEF CallReceive
            <3>2. id[c] \notin pending
                  BY <3>1 DEF SendNeverBlocks
            <3>3. /\ \A d \in Callers : d # c => pc'[d] = pc[d] /\ id'[d] = id[d]
                  /\ pending' = pending
                  BY <1>10 DEF CallReceive, Return, Goto
            <3>4. \A i \in pending : \E d \in Callers :
                    /\ id[d] = i /\ d # c
                    /\ pc[d] \in {"write", "wait", "fail", "panic"}
                  BY <3>2 DEF PendingHasCaller
            <3>5. QED
                  BY <3>3, <3>4 DEF PendingHasCaller
      <2>7. PendingOnCurrent'
            BY <1>10 DEF CallReceive, Return, Goto, PendingOnCurrent, HoldsWhatItShould, IdentifierUnique
      <2>8. CurrentHasReader'
            BY <1>10 DEF CallReceive, Return, Goto, CurrentHasReader
      <2>9. NoOrphanProcess'
            BY <1>10 DEF CallReceive, Return, Goto, NoOrphanProcess, HoldsWhatItShould
      <2>10. QED
            BY <2>1, <2>2, <2>3, <2>4, <2>5, <2>6, <2>7, <2>8, <2>9
            DEF IInv
<1>11. ASSUME NEW c \in Callers, CallExpire(c)
      PROVE  IInv'
      BY <1>11 DEF CallExpire, Goto, IInv, HoldsWhatItShould,
         IdentifierUnique, OneAnswerer, SendNeverBlocks, CallNotLost,
         PendingHasCaller, PendingOnCurrent, CurrentHasReader, NoOrphanProcess
<1>12. ASSUME NEW c \in Callers, CancelSkipped(c)
      PROVE  IInv'
      <2>1. HoldsWhatItShould'
            BY <1>12 DEF CancelSkipped, Return, Goto, HoldsWhatItShould
      <2>2. IdentifierUnique'
            BY <1>12 DEF CancelSkipped, Return, Goto, IdentifierUnique
      <2>3. OneAnswerer'
            BY <1>12 DEF CancelSkipped, Return, Goto, OneAnswerer, IdentifierUnique
      <2>4. SendNeverBlocks'
            BY <1>12 DEF CancelSkipped, Return, Goto, SendNeverBlocks, OneAnswerer, IdentifierUnique
      <2>5. CallNotLost'
            BY <1>12 DEF CancelSkipped, Return, Goto, CallNotLost, IdentifierUnique
      <2>6. PendingHasCaller'
            BY <1>12 DEF CancelSkipped, Return, Goto, PendingHasCaller, SendNeverBlocks
      <2>7. PendingOnCurrent'
            BY <1>12 DEF CancelSkipped, Return, Goto, PendingOnCurrent, HoldsWhatItShould, IdentifierUnique
      <2>8. CurrentHasReader'
            BY <1>12 DEF CancelSkipped, Return, Goto, CurrentHasReader
      <2>9. NoOrphanProcess'
            BY <1>12 DEF CancelSkipped, Return, Goto, NoOrphanProcess, HoldsWhatItShould
      <2>10. QED
            BY <2>1, <2>2, <2>3, <2>4, <2>5, <2>6, <2>7, <2>8, <2>9
            DEF IInv
<1>13. ASSUME NEW c \in Callers, CancelSnapshot(c)
      PROVE  IInv'
      <2>1. HoldsWhatItShould'
            BY <1>13 DEF CancelSnapshot, Goto, HoldsWhatItShould
      <2>2. IdentifierUnique'
            BY <1>13 DEF CancelSnapshot, Goto, IdentifierUnique
      <2>3. OneAnswerer'
            BY <1>13 DEF CancelSnapshot, Goto, OneAnswerer, IdentifierUnique
      <2>4. SendNeverBlocks'
            BY <1>13 DEF CancelSnapshot, Goto, SendNeverBlocks, OneAnswerer, IdentifierUnique
      <2>5. CallNotLost'
            BY <1>13 DEF CancelSnapshot, Goto, CallNotLost, IdentifierUnique
      <2>6. PendingHasCaller'
            BY <1>13 DEF CancelSnapshot, Goto, PendingHasCaller, SendNeverBlocks
      <2>7. PendingOnCurrent'
            BY <1>13 DEF CancelSnapshot, Goto, PendingOnCurrent, HoldsWhatItShould, IdentifierUnique
      <2>8. CurrentHasReader'
            BY <1>13 DEF CancelSnapshot, Goto, CurrentHasReader
      <2>9. NoOrphanProcess'
            BY <1>13 DEF CancelSnapshot, Goto, NoOrphanProcess, HoldsWhatItShould
      <2>10. QED
            BY <2>1, <2>2, <2>3, <2>4, <2>5, <2>6, <2>7, <2>8, <2>9
            DEF IInv
<1>14. ASSUME NEW c \in Callers, CancelWrite(c)
      PROVE  IInv'
      <2>1. HoldsWhatItShould'
            BY <1>14 DEF CancelWrite, Return, Goto, HoldsWhatItShould
      <2>2. IdentifierUnique'
            BY <1>14 DEF CancelWrite, Return, Goto, IdentifierUnique
      <2>3. OneAnswerer'
            BY <1>14 DEF CancelWrite, Return, Goto, OneAnswerer, IdentifierUnique
      <2>4. SendNeverBlocks'
            BY <1>14 DEF CancelWrite, Return, Goto, SendNeverBlocks, OneAnswerer, IdentifierUnique
      <2>5. CallNotLost'
            BY <1>14 DEF CancelWrite, Return, Goto, CallNotLost, IdentifierUnique
      <2>6. PendingHasCaller'
            BY <1>14 DEF CancelWrite, Return, Goto, PendingHasCaller, SendNeverBlocks
      <2>7. PendingOnCurrent'
            BY <1>14 DEF CancelWrite, Return, Goto, PendingOnCurrent, HoldsWhatItShould, IdentifierUnique
      <2>8. CurrentHasReader'
            BY <1>14 DEF CancelWrite, Return, Goto, CurrentHasReader
      <2>9. NoOrphanProcess'
            BY <1>14 DEF CancelWrite, Return, Goto, NoOrphanProcess, HoldsWhatItShould
      <2>10. QED
            BY <2>1, <2>2, <2>3, <2>4, <2>5, <2>6, <2>7, <2>8, <2>9
            DEF IInv
<1>15. ASSUME NEW c \in Callers, CallFailed(c)
      PROVE  IInv'
      <2>1. HoldsWhatItShould'
            BY <1>15 DEF CallFailed, Return, Goto, HoldsWhatItShould
      <2>2. IdentifierUnique'
            BY <1>15 DEF CallFailed, Return, Goto, IdentifierUnique
      <2>3. OneAnswerer'
            BY <1>15 DEF CallFailed, Return, Goto, OneAnswerer, IdentifierUnique
      <2>4. SendNeverBlocks'
            BY <1>15 DEF CallFailed, Return, Goto, SendNeverBlocks, OneAnswerer, IdentifierUnique
      <2>5. CallNotLost'
            BY <1>15 DEF CallFailed, Return, Goto, CallNotLost, IdentifierUnique
      <2>6. PendingHasCaller'
            BY <1>15 DEF CallFailed, Return, Goto, PendingHasCaller, SendNeverBlocks
      <2>7. PendingOnCurrent'
            BY <1>15 DEF CallFailed, Return, Goto, PendingOnCurrent, HoldsWhatItShould, IdentifierUnique
      <2>8. CurrentHasReader'
            BY <1>15 DEF CallFailed, Return, Goto, CurrentHasReader
      <2>9. NoOrphanProcess'
            BY <1>15 DEF CallFailed, Return, Goto, NoOrphanProcess, HoldsWhatItShould
      <2>10. QED
            BY <2>1, <2>2, <2>3, <2>4, <2>5, <2>6, <2>7, <2>8, <2>9
            DEF IInv
<1>16. ASSUME NEW g \in Goroutine, FailProcess(g)
      PROVE  IInv'
      <2>1. HoldsWhatItShould'
            BY <1>16 DEF FailProcess, TakeOver, Goto, HoldsWhatItShould
      <2>2. IdentifierUnique'
            BY <1>16 DEF FailProcess, TakeOver, Goto, IdentifierUnique
      <2>3. OneAnswerer'
            BY <1>16 DEF FailProcess, TakeOver, Goto, OneAnswerer, IdentifierUnique
      <2>4. SendNeverBlocks'
            BY <1>16 DEF FailProcess, TakeOver, Goto, SendNeverBlocks, OneAnswerer, IdentifierUnique
      <2>5. CallNotLost'
            <3>1. g \in Goroutine /\ taken[g] = {}
                  BY <1>16 DEF FailProcess, HoldsWhatItShould
            <3>2. taken' = [taken EXCEPT ![g] = pending]
                  BY <1>16 DEF FailProcess, TakeOver
            <3>3. /\ taken'[g] = pending
                  /\ \A h \in Goroutine : taken[h] \subseteq taken'[h]
                  BY <3>1, <3>2
            <3>4. /\ UNCHANGED <<ch, id>>
                  /\ \A c \in Callers : pc'[c] \in {"write", "wait"} => pc'[c] = pc[c]
                  BY <1>16 DEF FailProcess, TakeOver, Goto
            <3>5. QED
                  BY <3>1, <3>3, <3>4 DEF CallNotLost
      <2>6. PendingHasCaller'
            BY <1>16 DEF FailProcess, TakeOver, Goto, PendingHasCaller, SendNeverBlocks
      <2>7. PendingOnCurrent'
            BY <1>16 DEF FailProcess, TakeOver, Goto, PendingOnCurrent, HoldsWhatItShould, IdentifierUnique
      <2>8. CurrentHasReader'
            BY <1>16 DEF FailProcess, TakeOver, Goto, CurrentHasReader
      <2>9. NoOrphanProcess'
            BY <1>16 DEF FailProcess, TakeOver, Goto, NoOrphanProcess, HoldsWhatItShould
      <2>10. QED
            BY <2>1, <2>2, <2>3, <2>4, <2>5, <2>6, <2>7, <2>8, <2>9
            DEF IInv
<1>17. ASSUME NEW g \in Goroutine, Kill(g)
      PROVE  IInv'
      <2>1. HoldsWhatItShould'
            BY <1>17 DEF Kill, End, Goto, HoldsWhatItShould
      <2>2. IdentifierUnique'
            BY <1>17 DEF Kill, End, Goto, IdentifierUnique
      <2>3. OneAnswerer'
            BY <1>17 DEF Kill, End, Goto, OneAnswerer, IdentifierUnique
      <2>4. SendNeverBlocks'
            BY <1>17 DEF Kill, End, Goto, SendNeverBlocks, OneAnswerer, IdentifierUnique
      <2>5. CallNotLost'
            BY <1>17 DEF Kill, End, Goto, CallNotLost, IdentifierUnique
      <2>6. PendingHasCaller'
            BY <1>17 DEF Kill, End, Goto, PendingHasCaller, SendNeverBlocks
      <2>7. PendingOnCurrent'
            BY <1>17 DEF Kill, End, Goto, PendingOnCurrent, HoldsWhatItShould, IdentifierUnique
      <2>8. CurrentHasReader'
            BY <1>17 DEF Kill, End, Goto, CurrentHasReader
      <2>9. NoOrphanProcess'
            BY <1>17 DEF Kill, End, Goto, NoOrphanProcess, HoldsWhatItShould
      <2>10. QED
            BY <2>1, <2>2, <2>3, <2>4, <2>5, <2>6, <2>7, <2>8, <2>9
            DEF IInv
<1>18. ASSUME NEW g \in Goroutine, Notify(g)
      PROVE  IInv'
      <2>1. HoldsWhatItShould'
            <3>1. PICK i \in taken[g] : /\ ch[i] = "empty"
                                        /\ ch' = [ch EXCEPT ![i] = "gone"]
                                        /\ taken' = [taken EXCEPT ![g] = @ \ {i}]
                  BY <1>18 DEF Notify
            <3>2. /\ pc[g] = "notify"
                  /\ UNCHANGED <<client, id, stdin, victim, pipes, pc>>
                  BY <1>18 DEF Notify
            <3>3. i \in ID /\ i \notin pending
                  BY <3>1 DEF OneAnswerer
            <3>4. \A h \in Goroutine : taken'[h] \subseteq taken[h]
                  BY <3>1
            <3>5. \A p \in Proc : pc'[p] = "deliver" => taken'[p] = taken[p]
                  BY <3>1, <3>2
            <3>6. \A h \in Goroutine :
                    pc'[h] \notin {"kill", "notify", "deliver"} => taken'[h] = {}
                  BY <3>2, <3>4 DEF HoldsWhatItShould
            <3>7. \A p \in Proc : pc'[p] = "deliver" => \E j \in ID : taken'[p] = {j}
                  <4> SUFFICES ASSUME NEW p \in Proc, pc[p] = "deliver"
                               PROVE  \E j \in ID : taken[p] = {j}
                      BY <3>2, <3>5
                  <4>1. QED
                        BY DEF HoldsWhatItShould
            <3>8. QED
                  BY <3>2, <3>6, <3>7 DEF HoldsWhatItShould
      <2>2. IdentifierUnique'
            <3>1. PICK i \in taken[g] : /\ ch[i] = "empty"
                                        /\ ch' = [ch EXCEPT ![i] = "gone"]
                                        /\ taken' = [taken EXCEPT ![g] = @ \ {i}]
                  BY <1>18 DEF Notify
            <3>2. /\ pc[g] = "notify"
                  /\ UNCHANGED <<client, id, stdin, victim, pipes, pc>>
                  BY <1>18 DEF Notify
            <3>3. i \in ID /\ i \notin pending
                  BY <3>1 DEF OneAnswerer
            <3>4. \A h \in Goroutine : taken'[h] \subseteq taken[h]
                  BY <3>1
            <3>5. i <= nextID /\ \A j \in ID : j # i => ch'[j] = ch[j]
                  BY <3>1, <3>3 DEF IdentifierUnique
            <3>6. QED
                  BY <3>2, <3>3, <3>4, <3>5 DEF IdentifierUnique
      <2>3. OneAnswerer'
            BY <1>18 DEF Notify, Goto, OneAnswerer, IdentifierUnique
      <2>4. SendNeverBlocks'
            <3>1. PICK i \in taken[g] : /\ ch[i] = "empty"
                                        /\ ch' = [ch EXCEPT ![i] = "gone"]
                                        /\ taken' = [taken EXCEPT ![g] = @ \ {i}]
                  BY <1>18 DEF Notify
            <3>2. /\ pc[g] = "notify"
                  /\ UNCHANGED <<client, id, stdin, victim, pipes, pc>>
                  BY <1>18 DEF Notify
            <3>3. i \in ID /\ i \notin pending
                  BY <3>1 DEF OneAnswerer
            <3>4. \A h \in Goroutine : taken'[h] \subseteq taken[h] /\ i \notin taken'[h]
                  BY <3>1 DEF OneAnswerer
            <3>5. \A j \in ID : j # i => ch'[j] = ch[j]
                  BY <3>1
            <3>6. QED
                  BY <3>2, <3>3, <3>4, <3>5 DEF SendNeverBlocks
      <2>5. CallNotLost'
            BY <1>18 DEF Notify, Goto, CallNotLost, IdentifierUnique
      <2>6. PendingHasCaller'
            BY <1>18 DEF Notify, Goto, PendingHasCaller, SendNeverBlocks
      <2>7. PendingOnCurrent'
            BY <1>18 DEF Notify, Goto, PendingOnCurrent, HoldsWhatItShould, IdentifierUnique
      <2>8. CurrentHasReader'
            BY <1>18 DEF Notify, Goto, CurrentHasReader
      <2>9. NoOrphanProcess'
            BY <1>18 DEF Notify, Goto, NoOrphanProcess, HoldsWhatItShould
      <2>10. QED
            BY <2>1, <2>2, <2>3, <2>4, <2>5, <2>6, <2>7, <2>8, <2>9
            DEF IInv
<1>19. ASSUME NEW k \in Closers, Close(k)
      PROVE  IInv'
      <2>1. HoldsWhatItShould'
            BY <1>19 DEF Close, TakeOver, Goto, HoldsWhatItShould
      <2>2. IdentifierUnique'
            BY <1>19 DEF Close, TakeOver, Goto, IdentifierUnique
      <2>3. OneAnswerer'
            BY <1>19 DEF Close, TakeOver, Goto, OneAnswerer, IdentifierUnique
      <2>4. SendNeverBlocks'
            BY <1>19 DEF Close, TakeOver, Goto, SendNeverBlocks, OneAnswerer, IdentifierUnique
      <2>5. CallNotLost'
            <3>1. k \in Goroutine /\ taken[k] = {}
                  BY <1>19 DEF Close, HoldsWhatItShould
            <3>2. taken' = [taken EXCEPT ![k] = pending]
                  BY <1>19 DEF Close, TakeOver
            <3>3. /\ taken'[k] = pending
                  /\ \A h \in Goroutine : taken[h] \subseteq taken'[h]
                  BY <3>1, <3>2
            <3>4. /\ UNCHANGED <<ch, id>>
                  /\ \A c \in Callers : pc'[c] \in {"write", "wait"} => pc'[c] = pc[c]
                  BY <1>19 DEF Close, TakeOver, Goto
            <3>5. QED
                  BY <3>1, <3>3, <3>4 DEF CallNotLost
      <2>6. PendingHasCaller'
            BY <1>19 DEF Close, TakeOver, Goto, PendingHasCaller, SendNeverBlocks
      <2>7. PendingOnCurrent'
            BY <1>19 DEF Close, TakeOver, Goto, PendingOnCurrent, HoldsWhatItShould, IdentifierUnique
      <2>8. CurrentHasReader'
            BY <1>19 DEF Close, TakeOver, Goto, CurrentHasReader
      <2>9. NoOrphanProcess'
            BY <1>19 DEF Close, TakeOver, Goto, NoOrphanProcess, HoldsWhatItShould
      <2>10. QED
            BY <2>1, <2>2, <2>3, <2>4, <2>5, <2>6, <2>7, <2>8, <2>9
            DEF IInv
<1>20. ASSUME NEW g \in Closers \cup Proc, Finish(g)
      PROVE  IInv'
      BY <1>20 DEF Finish, Goto, IInv, HoldsWhatItShould,
         IdentifierUnique, OneAnswerer, SendNeverBlocks, CallNotLost,
         PendingHasCaller, PendingOnCurrent, CurrentHasReader, NoOrphanProcess
<1>21. ASSUME NEW p \in Proc, ReadAnswer(p)
      PROVE  IInv'
      <2>1. HoldsWhatItShould'
            <3>1. PICK i \in fromHelper[p] : /\ i \in pending
                                             /\ pending' = pending \ {i}
                                             /\ taken' = [taken EXCEPT ![p] = {i}]
                  BY <1>21 DEF ReadAnswer
            <3>2. /\ p \in Goroutine
                  /\ pc[p] = "read"
                  /\ taken[p] = {}
                  /\ pc' = [pc EXCEPT ![p] = "deliver"]
                  /\ UNCHANGED <<cmd, started, nextID, ch, id, stdin, victim>>
                  BY <1>21 DEF ReadAnswer, NextFrame, Goto, HoldsWhatItShould
            <3>3. /\ i \in ID
                  /\ taken'[p] = {i}
                  /\ \A h \in Goroutine : h # p => taken'[h] = taken[h]
                  BY <3>1, <3>2
            <3>4. /\ pc'[p] = "deliver"
                  /\ \A h \in Goroutine : h # p => pc'[h] = pc[h]
                  /\ \A c \in Callers : c # p
                  BY <3>2
            <3>5. QED
                  BY <3>1, <3>2, <3>3, <3>4 DEF HoldsWhatItShould
      <2>2. IdentifierUnique'
            BY <1>21 DEF ReadAnswer, NextFrame, Goto, IdentifierUnique
      <2>3. OneAnswerer'
            BY <1>21 DEF ReadAnswer, NextFrame, Goto, OneAnswerer, IdentifierUnique
      <2>4. SendNeverBlocks'
            <3>1. PICK i \in fromHelper[p] : /\ i \in pending
                                             /\ pending' = pending \ {i}
                                             /\ taken' = [taken EXCEPT ![p] = {i}]
                  BY <1>21 DEF ReadAnswer
            <3>2. /\ p \in Goroutine
                  /\ pc[p] = "read"
                  /\ taken[p] = {}
                  /\ pc' = [pc EXCEPT ![p] = "deliver"]
                  /\ UNCHANGED <<cmd, started, nextID, ch, id, stdin, victim>>
                  BY <1>21 DEF ReadAnswer, NextFrame, Goto, HoldsWhatItShould
            <3>3. /\ i \in ID
                  /\ taken'[p] = {i}
                  /\ \A h \in Goroutine : h # p => taken'[h] = taken[h]
                  BY <3>1, <3>2
            <3>4. /\ pc'[p] = "deliver"
                  /\ \A h \in Goroutine : h # p => pc'[h] = pc[h]
                  /\ \A c \in Callers : c # p
                  BY <3>2
            <3>5. QED
                  BY <3>1, <3>2, <3>3 DEF SendNeverBlocks
      <2>5. CallNotLost'
            <3>1. PICK i \in fromHelper[p] : /\ i \in pending
                                             /\ pending' = pending \ {i}
                                             /\ taken' = [taken EXCEPT ![p] = {i}]
                  BY <1>21 DEF ReadAnswer
            <3>2. /\ p \in Goroutine
                  /\ pc[p] = "read"
                  /\ taken[p] = {}
                  /\ pc' = [pc EXCEPT ![p] = "deliver"]
                  /\ UNCHANGED <<cmd, started, nextID, ch, id, stdin, victim>>
                  BY <1>21 DEF ReadAnswer, NextFrame, Goto, HoldsWhatItShould
            <3>3. /\ i \in ID
                  /\ taken'[p] = {i}
                  /\ \A h \in Goroutine : h # p => taken'[h] = taken[h]
                  BY <3>1, <3>2
            <3>4. /\ pc'[p] = "deliver"
                  /\ \A h \in Goroutine : h # p => pc'[h] = pc[h]
                  /\ \A c \in Callers : c # p
                  BY <3>2
            <3>5. QED
                  BY <3>1, <3>2, <3>3, <3>4 DEF CallNotLost
      <2>6. PendingHasCaller'
            <3>1. PICK i \in fromHelper[p] : /\ i \in pending
                                             /\ pending' = pending \ {i}
                                             /\ taken' = [taken EXCEPT ![p] = {i}]
                  BY <1>21 DEF ReadAnswer
            <3>2. /\ p \in Goroutine
                  /\ pc[p] = "read"
                  /\ taken[p] = {}
                  /\ pc' = [pc EXCEPT ![p] = "deliver"]
                  /\ UNCHANGED <<cmd, started, nextID, ch, id, stdin, victim>>
                  BY <1>21 DEF ReadAnswer, NextFrame, Goto, HoldsWhatItShould
            <3>3. /\ i \in ID
                  /\ taken'[p] = {i}
                  /\ \A h \in Goroutine : h # p => taken'[h] = taken[h]
                  BY <3>1, <3>2
            <3>4. /\ pc'[p] = "deliver"
                  /\ \A h \in Goroutine : h # p => pc'[h] = pc[h]
                  /\ \A c \in Callers : c # p
                  BY <3>2
            <3>5. QED
                  BY <3>1, <3>2, <3>4 DEF PendingHasCaller
      <2>7. PendingOnCurrent'
            BY <1>21 DEF ReadAnswer, NextFrame, Goto, PendingOnCurrent, HoldsWhatItShould, IdentifierUnique
      <2>8. CurrentHasReader'
            BY <1>21 DEF ReadAnswer, NextFrame, Goto, CurrentHasReader
      <2>9. NoOrphanProcess'
            BY <1>21 DEF ReadAnswer, NextFrame, Goto, NoOrphanProcess, HoldsWhatItShould
      <2>10. QED
            BY <2>1, <2>2, <2>3, <2>4, <2>5, <2>6, <2>7, <2>8, <2>9
            DEF IInv
<1>22. ASSUME NEW p \in Proc, ReadDropped(p)
      PROVE  IInv'
      <2>1. HoldsWhatItShould'
            BY <1>22 DEF ReadDropped, NextFrame, Goto, HoldsWhatItShould
      <2>2. IdentifierUnique'
            BY <1>22 DEF ReadDropped, NextFrame, Goto, IdentifierUnique
      <2>3. OneAnswerer'
            BY <1>22 DEF ReadDropped, NextFrame, Goto, OneAnswerer, IdentifierUnique
      <2>4. SendNeverBlocks'
            BY <1>22 DEF ReadDropped, NextFrame, Goto, SendNeverBlocks, OneAnswerer, IdentifierUnique
      <2>5. CallNotLost'
            BY <1>22 DEF ReadDropped, NextFrame, Goto, CallNotLost, IdentifierUnique
      <2>6. PendingHasCaller'
            <3>1. UNCHANGED <<pending, id>>
                  BY <1>22 DEF ReadDropped, NextFrame
            <3>2. \A c \in Callers : pc'[c] = pc[c]
                  BY <1>22 DEF ReadDropped, NextFrame, Goto
            <3>3. QED
                  BY <3>1, <3>2 DEF PendingHasCaller
      <2>7. PendingOnCurrent'
            BY <1>22 DEF ReadDropped, NextFrame, Goto, PendingOnCurrent, HoldsWhatItShould, IdentifierUnique
      <2>8. CurrentHasReader'
            BY <1>22 DEF ReadDropped, NextFrame, Goto, CurrentHasReader
      <2>9. NoOrphanProcess'
            BY <1>22 DEF ReadDropped, NextFrame, Goto, NoOrphanProcess, HoldsWhatItShould
      <2>10. QED
            BY <2>1, <2>2, <2>3, <2>4, <2>5, <2>6, <2>7, <2>8, <2>9
            DEF IInv
<1>23. ASSUME NEW p \in Proc, ReadBadLength(p)
      PROVE  IInv'
      <2>1. HoldsWhatItShould'
            BY <1>23 DEF ReadBadLength, NextFrame, Goto, HoldsWhatItShould
      <2>2. IdentifierUnique'
            BY <1>23 DEF ReadBadLength, NextFrame, Goto, IdentifierUnique
      <2>3. OneAnswerer'
            BY <1>23 DEF ReadBadLength, NextFrame, Goto, OneAnswerer, IdentifierUnique
      <2>4. SendNeverBlocks'
            BY <1>23 DEF ReadBadLength, NextFrame, Goto, SendNeverBlocks, OneAnswerer, IdentifierUnique
      <2>5. CallNotLost'
            BY <1>23 DEF ReadBadLength, NextFrame, Goto, CallNotLost, IdentifierUnique
      <2>6. PendingHasCaller'
            <3>1. UNCHANGED <<pending, id>>
                  BY <1>23 DEF ReadBadLength, NextFrame
            <3>2. \A c \in Callers : pc'[c] = pc[c]
                  BY <1>23 DEF ReadBadLength, NextFrame, Goto
            <3>3. QED
                  BY <3>1, <3>2 DEF PendingHasCaller
      <2>7. PendingOnCurrent'
            BY <1>23 DEF ReadBadLength, NextFrame, Goto, PendingOnCurrent, HoldsWhatItShould, IdentifierUnique
      <2>8. CurrentHasReader'
            BY <1>23 DEF ReadBadLength, NextFrame, Goto, CurrentHasReader
      <2>9. NoOrphanProcess'
            BY <1>23 DEF ReadBadLength, NextFrame, Goto, NoOrphanProcess, HoldsWhatItShould
      <2>10. QED
            BY <2>1, <2>2, <2>3, <2>4, <2>5, <2>6, <2>7, <2>8, <2>9
            DEF IInv
<1>24. ASSUME NEW p \in Proc, ReadEOF(p)
      PROVE  IInv'
      BY <1>24 DEF ReadEOF, Goto, IInv, HoldsWhatItShould,
         IdentifierUnique, OneAnswerer, SendNeverBlocks, CallNotLost,
         PendingHasCaller, PendingOnCurrent, CurrentHasReader, NoOrphanProcess
<1>25. ASSUME NEW p \in Proc, Deliver(p)
      PROVE  IInv'
      <2>1. HoldsWhatItShould'
            BY <1>25 DEF Deliver, Goto, HoldsWhatItShould
      <2>2. IdentifierUnique'
            <3>1. PICK i \in taken[p] : /\ ch[i] = "empty"
                                        /\ ch' = [ch EXCEPT ![i] = "answer"]
                  BY <1>25 DEF Deliver
            <3>2. /\ pc[p] = "deliver"
                  /\ taken' = [taken EXCEPT ![p] = {}]
                  /\ pc' = [pc EXCEPT ![p] = "read"]
                  /\ UNCHANGED <<client, id, stdin, victim, pipes>>
                  BY <1>25 DEF Deliver, Goto
            <3>3. p \in Goroutine /\ i \in ID /\ taken[p] = {i}
                  BY <3>1, <3>2 DEF HoldsWhatItShould
            <3>4. /\ taken'[p] = {}
                  /\ \A h \in Goroutine : h # p => taken'[h] = taken[h]
                  /\ ch'[i] = "answer"
                  /\ \A j \in ID : j # i => ch'[j] = ch[j]
                  BY <3>1, <3>2, <3>3
            <3>5. i <= nextID
                  <4>1. ~(i > nextID)
                        BY <3>1, <3>3 DEF IdentifierUnique
                  <4>2. QED
                        BY <4>1, <3>3
            <3>6. QED
                  BY <3>2, <3>3, <3>4, <3>5 DEF IdentifierUnique
      <2>3. OneAnswerer'
            BY <1>25 DEF Deliver, Goto, OneAnswerer, IdentifierUnique
      <2>4. SendNeverBlocks'
            <3>1. PICK i \in taken[p] : /\ ch[i] = "empty"
                                        /\ ch' = [ch EXCEPT ![i] = "answer"]
                  BY <1>25 DEF Deliver
            <3>2. /\ pc[p] = "deliver"
                  /\ taken' = [taken EXCEPT ![p] = {}]
                  /\ pc' = [pc EXCEPT ![p] = "read"]
                  /\ UNCHANGED <<client, id, stdin, victim, pipes>>
                  BY <1>25 DEF Deliver, Goto
            <3>3. p \in Goroutine /\ i \in ID /\ taken[p] = {i}
                  BY <3>1, <3>2 DEF HoldsWhatItShould
            <3>4. /\ taken'[p] = {}
                  /\ \A h \in Goroutine : h # p => taken'[h] = taken[h]
                  /\ ch'[i] = "answer"
                  /\ \A j \in ID : j # i => ch'[j] = ch[j]
                  BY <3>1, <3>2, <3>3
            <3>5. i \notin pending /\ \A h \in Goroutine : h # p => i \notin taken[h]
                  BY <3>3 DEF OneAnswerer
            <3>6. \A h \in Goroutine : \A j \in taken'[h] \cup pending' :
                    j # i /\ j \in taken[h] \cup pending /\ j \in ID
                  BY <3>2, <3>4, <3>5
            <3>7. QED
                  BY <3>4, <3>6 DEF SendNeverBlocks
      <2>5. CallNotLost'
            <3>1. PICK i \in taken[p] : /\ ch[i] = "empty"
                                        /\ ch' = [ch EXCEPT ![i] = "answer"]
                  BY <1>25 DEF Deliver
            <3>2. /\ pc[p] = "deliver"
                  /\ taken' = [taken EXCEPT ![p] = {}]
                  /\ pc' = [pc EXCEPT ![p] = "read"]
                  /\ UNCHANGED <<client, id, stdin, victim, pipes>>
                  BY <1>25 DEF Deliver, Goto
            <3>3. p \in Goroutine /\ i \in ID /\ taken[p] = {i}
                  BY <3>1, <3>2 DEF HoldsWhatItShould
            <3>4. /\ taken'[p] = {}
                  /\ \A h \in Goroutine : h # p => taken'[h] = taken[h]
                  /\ ch'[i] = "answer"
                  /\ \A j \in ID : j # i => ch'[j] = ch[j]
                  BY <3>1, <3>2, <3>3
            <3>5. \A c \in Callers : pc'[c] = pc[c]
                  <4>1. \A c \in Callers : c # p
                        OBVIOUS
                  <4>2. QED
                        BY <4>1, <3>2
            <3>6. QED
                  BY <3>2, <3>3, <3>4, <3>5 DEF CallNotLost
      <2>6. PendingHasCaller'
            BY <1>25 DEF Deliver, Goto, PendingHasCaller, SendNeverBlocks
      <2>7. PendingOnCurrent'
            BY <1>25 DEF Deliver, Goto, PendingOnCurrent, HoldsWhatItShould, IdentifierUnique
      <2>8. CurrentHasReader'
            BY <1>25 DEF Deliver, Goto, CurrentHasReader
      <2>9. NoOrphanProcess'
            BY <1>25 DEF Deliver, Goto, NoOrphanProcess, HoldsWhatItShould
      <2>10. QED
            BY <2>1, <2>2, <2>3, <2>4, <2>5, <2>6, <2>7, <2>8, <2>9
            DEF IInv
<1>26. ASSUME NEW p \in Proc, HelperReply(p)
      PROVE  IInv'
      BY <1>26 DEF HelperReply, Goto, IInv, HoldsWhatItShould,
         IdentifierUnique, OneAnswerer, SendNeverBlocks, CallNotLost,
         PendingHasCaller, PendingOnCurrent, CurrentHasReader, NoOrphanProcess
<1>27. ASSUME NEW p \in Proc, HelperExit(p)
      PROVE  IInv'
      BY <1>27 DEF HelperExit, End, Goto, IInv, HoldsWhatItShould,
         IdentifierUnique, OneAnswerer, SendNeverBlocks, CallNotLost,
         PendingHasCaller, PendingOnCurrent, CurrentHasReader, NoOrphanProcess
<1>28. CASE UNCHANGED vars
      BY <1>28 DEF IInv, HoldsWhatItShould, IdentifierUnique, OneAnswerer,
         SendNeverBlocks, CallNotLost, PendingHasCaller,
         PendingOnCurrent, CurrentHasReader, NoOrphanProcess
<1>29. QED
      BY <1>4, <1>5, <1>6, <1>7, <1>8, <1>9, <1>10, <1>11, <1>12, <1>13,
         <1>14, <1>15, <1>16, <1>17, <1>18, <1>19, <1>20, <1>21, <1>22,
         <1>23, <1>24, <1>25, <1>26, <1>27, <1>28
      DEF Next, CallStep, TakeDownStep, ReaderStep

(* The inductive invariant holds in every reachable state. *)
THEOREM InductiveInvariant == Spec => []IInv
<1>1. Init => IInv
      BY InitIInv
<1>2. IInv /\ [Next]_vars => IInv'
      BY NextIInv
<1>3. QED
      BY <1>1, <1>2, PTL DEF Spec

(* readLoop, failProcess and Close never both hold the same pending entry,   *)
(* so that no call is answered twice.                                        *)
THEOREM EveryRequestHasOneAnswerer == Spec => []OneAnswerer
<1>1. IInv => OneAnswerer
      BY DEF IInv
<1>2. QED
      BY <1>1, InductiveInvariant, PTL

(* A goroutine that answers outside c.mu always finds the channel empty.     *)
THEOREM AnsweringNeverBlocks == Spec => []SendNeverBlocks
<1>1. IInv => SendNeverBlocks
      BY DEF IInv
<1>2. QED
      BY <1>1, InductiveInvariant, PTL

(* No interleaving of answers, failures, Close and restarts forgets a call:  *)
(* it is answered, owed an answer, or where the next failure finds it.       *)
THEOREM NoCallIsLost == Spec => []CallNotLost
<1>1. IInv => CallNotLost
      BY DEF IInv
<1>2. QED
      BY <1>1, InductiveInvariant, PTL

(* The map pending holds nothing but calls that are still in progress.       *)
THEOREM PendingDoesNotLeak == Spec => []PendingHasCaller
<1>1. IInv => PendingHasCaller
      BY DEF IInv
<1>2. QED
      BY <1>1, InductiveInvariant, PTL

(* A waiting call that is in the map waits for the process the client holds, *)
(* and that process has a reader that will still run failProcess.            *)
THEOREM WaitingCallsAreWatched ==
    Spec => [](PendingOnCurrent /\ CurrentHasReader)
<1>1. IInv => PendingOnCurrent /\ CurrentHasReader
      BY DEF IInv
<1>2. QED
      BY <1>1, InductiveInvariant, PTL

(* Every running helper process is the client's or about to be killed.       *)
THEOREM NoProcessLeaks == Spec => []NoOrphanProcess
<1>1. IInv => NoOrphanProcess
      BY DEF IInv
<1>2. QED
      BY <1>1, InductiveInvariant, PTL
=============================================================================
