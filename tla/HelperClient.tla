---------------------------- MODULE HelperClient ----------------------------
(***************************************************************************)
(* helper_client.go: the Go side of the pipe between the plugin and its     *)
(* Python helper process.                                                   *)
(*                                                                          *)
(* Any number of goroutines run Call on one helperClient.  The first of     *)
(* them starts the helper and a goroutine that reads its answers; whoever   *)
(* notices that the helper failed (the reader at the end of the pipe, a     *)
(* caller whose write failed) takes it down with failProcess, and the next  *)
(* Call starts another one.  Close does the same from outside.  Everything  *)
(* under c.mu is one action here; everything between two critical sections  *)
(* interleaves.                                                             *)
(*                                                                          *)
(* Processes are numbered in the order they are started, and the reader     *)
(* goroutine of process p is p itself.  cmd, stdin and stdout of the struct *)
(* are always set and cleared together under the lock, so that one variable *)
(* stands for the three.  What the program calls nil is 0.                  *)
(***************************************************************************)
EXTENDS Naturals, FiniteSets

CONSTANTS
    Callers,    \* goroutines that run Call, one request after the other
    Closers,    \* goroutines that run Close, once (the slot's closeOnce)
    MaxProc,    \* bound: how many helper processes may be started
    MaxID       \* bound: how many request identifiers may be drawn

Proc == 1..MaxProc
ID   == 1..MaxID

Goroutine == Callers \cup Closers \cup Proc

ASSUME BoundsAssumption == MaxProc \in Nat /\ MaxID \in Nat

ASSUME GoroutineAssumption ==
    /\ Callers \cap Closers = {}
    /\ (Callers \cup Closers) \cap Proc = {}

VARIABLES
    cmd,        \* the process the client holds, 0 when cmd is nil
    started,    \* how many processes were started so far
    alive,      \* the processes the operating system still runs
    pending,    \* the keys of the map pending
    nextID,     \* the atomic counter nextID
    ch,         \* what the one-slot channel of each request holds
    pc,         \* where each goroutine is
    id,         \* the request of a caller, 0 between two calls
    stdin,      \* the process whose pipe a caller copied out of the struct
    victim,     \* the process a goroutine took out of the struct to kill
    taken,      \* the requests a goroutine took out of pending to answer
    toHelper,   \* the requests in the stdin pipe of a process or being served
    fromHelper  \* the requests whose frame is in the stdout pipe of a process

client == <<cmd, started, pending, nextID>>
calls  == <<ch, id, stdin>>
duty   == <<victim, taken>>
pipes  == <<alive, toHelper, fromHelper>>
vars   == <<client, calls, duty, pipes, pc>>

-----------------------------------------------------------------------------
(* Where the goroutines of each kind can be. *)
CallerPC == {"idle", "register", "write", "wait", "expired", "cancel", "panic",
             "fail", "kill", "notify"}
CloserPC == {"idle", "kill", "notify", "done"}
ReaderPC == {"off", "read", "deliver", "fail", "kill", "notify", "done"}
PC       == CallerPC \cup CloserPC \cup ReaderPC

ChannelContent == {"empty", "answer", "gone"}

TypeOK ==
    /\ cmd \in 0..MaxProc
    /\ started \in 0..MaxProc
    /\ alive \subseteq Proc
    /\ pending \subseteq ID
    /\ nextID \in 0..MaxID
    /\ ch \in [ID -> ChannelContent]
    /\ pc \in [Goroutine -> PC]
    /\ \A c \in Callers : pc[c] \in CallerPC
    /\ \A k \in Closers : pc[k] \in CloserPC
    /\ \A p \in Proc : pc[p] \in ReaderPC
    /\ id \in [Callers -> 0..MaxID]
    /\ \A c \in Callers : pc[c] \in {"write", "wait"} => id[c] # 0
    /\ stdin \in [Callers -> 0..MaxProc]
    /\ victim \in [Goroutine -> 0..MaxProc]
    /\ taken \in [Goroutine -> SUBSET ID]
    /\ toHelper \in [Proc -> SUBSET ID]
    /\ fromHelper \in [Proc -> SUBSET ID]

Init ==
    /\ cmd = 0
    /\ started = 0
    /\ alive = {}
    /\ pending = {}
    /\ nextID = 0
    /\ ch = [i \in ID |-> "empty"]
    /\ pc = [g \in Goroutine |-> IF g \in Proc THEN "off" ELSE "idle"]
    /\ id = [c \in Callers |-> 0]
    /\ stdin = [c \in Callers |-> 0]
    /\ victim = [g \in Goroutine |-> 0]
    /\ taken = [g \in Goroutine |-> {}]
    /\ toHelper = [p \in Proc |-> {}]
    /\ fromHelper = [p \in Proc |-> {}]

(* A write through a nil io.Writer panics, and nothing recovers from it:    *)
(* the whole host process stops.                                            *)
Panicked == \E c \in Callers : pc[c] = "panic"

Goto(g, label) == pc' = [pc EXCEPT ![g] = label]

(* The caller's frame is gone once Call has returned. *)
Return(c) ==
    /\ Goto(c, "idle")
    /\ id' = [id EXCEPT ![c] = 0]
    /\ stdin' = [stdin EXCEPT ![c] = 0]

-----------------------------------------------------------------------------
(* Call.                                                                    *)

(* ensureStarted with a process in place: nothing to do. *)
AlreadyStarted(c) ==
    /\ pc[c] = "idle"
    /\ cmd # 0
    /\ Goto(c, "register")
    /\ UNCHANGED <<client, calls, duty, pipes>>

(* Mutant: ensureStarted does not look for a process first. *)
StartUnchecked(c) ==
    /\ pc[c] = "idle"
    /\ started < MaxProc
    /\ started' = started + 1
    /\ cmd' = started + 1
    /\ alive' = alive \cup {started + 1}
    /\ pc' = [pc EXCEPT ![c] = "register", ![started + 1] = "read"]
    /\ UNCHANGED <<pending, nextID, calls, duty, toHelper, fromHelper>>

(* ensureStarted without one: start a process and its reader.  A start that *)
(* fails returns its error with nothing changed, which is a stutter.        *)
Start(c) ==
    /\ pc[c] = "idle"
    /\ cmd = 0
    /\ started < MaxProc
    /\ started' = started + 1
    /\ cmd' = started + 1
    /\ alive' = alive \cup {started + 1}
    /\ pc' = [pc EXCEPT ![c] = "register", ![started + 1] = "read"]
    /\ UNCHANGED <<pending, nextID, calls, duty, toHelper, fromHelper>>

(* Mutant: the counter is read, not advanced. *)
RegisterSameID(c) ==
    /\ pc[c] = "register"
    /\ nextID < MaxID
    /\ id' = [id EXCEPT ![c] = nextID + 1]
    /\ pending' = pending \cup {nextID + 1}
    /\ stdin' = [stdin EXCEPT ![c] = cmd]
    /\ Goto(c, "write")
    /\ UNCHANGED <<cmd, started, nextID, ch, duty, pipes>>

(* Draw the identifier, make the channel, and in one critical section enter *)
(* it in pending and copy stdin.  Drawing the identifier is an atomic step  *)
(* that commutes with all others.                                           *)
CallRegister(c) ==
    /\ pc[c] = "register"
    /\ nextID < MaxID
    /\ nextID' = nextID + 1
    /\ id' = [id EXCEPT ![c] = nextID + 1]
    /\ pending' = pending \cup {nextID + 1}
    /\ stdin' = [stdin EXCEPT ![c] = cmd]
    /\ Goto(c, "write")
    /\ UNCHANGED <<cmd, started, ch, duty, pipes>>

CallWritePanics(c) ==
    /\ pc[c] = "write"
    /\ stdin[c] = 0
    /\ Goto(c, "panic")
    /\ UNCHANGED <<client, calls, duty, pipes>>

CallWriteDelivers(c) ==
    /\ pc[c] = "write"
    /\ stdin[c] \in alive
    /\ toHelper' = [toHelper EXCEPT ![stdin[c]] = @ \cup {id[c]}]
    /\ Goto(c, "wait")
    /\ UNCHANGED <<client, calls, duty, alive, fromHelper>>

(* Mutant: the error is returned at once, without failProcess. *)
WriteErrorReturned(c) ==
    /\ pc[c] = "write"
    /\ stdin[c] \in Proc \ alive
    /\ Return(c)
    /\ UNCHANGED <<client, ch, duty, pipes>>

(* The pipe of a dead or closed process refuses the write, and the caller   *)
(* goes on to failProcess.                                                  *)
CallWriteFails(c) ==
    /\ pc[c] = "write"
    /\ stdin[c] \in Proc \ alive
    /\ Goto(c, "fail")
    /\ UNCHANGED <<client, calls, duty, pipes>>

CallReceive(c) ==
    /\ pc[c] = "wait"
    /\ ch[id[c]] # "empty"
    /\ ch' = [ch EXCEPT ![id[c]] = "empty"]
    /\ Return(c)
    /\ UNCHANGED <<client, duty, pipes>>

(* Mutant: the expired request stays in pending. *)
ExpireKeepsEntry(c) ==
    /\ pc[c] = "wait"
    /\ Goto(c, "expired")
    /\ UNCHANGED <<client, calls, duty, pipes>>

(* ctx.Done: the request leaves pending.  The select may choose this branch *)
(* even when an answer is ready.                                            *)
CallExpire(c) ==
    /\ pc[c] = "wait"
    /\ pending' = pending \ {id[c]}
    /\ Goto(c, "expired")
    /\ UNCHANGED <<cmd, started, nextID, calls, duty, pipes>>

(* cancelCall without a process: nothing to notify. *)
CancelSkipped(c) ==
    /\ pc[c] = "expired"
    /\ cmd = 0
    /\ Return(c)
    /\ UNCHANGED <<client, ch, duty, pipes>>

(* cancelCall copies the pipe of the process that is there now, which need  *)
(* not be the one that got the request.                                     *)
CancelSnapshot(c) ==
    /\ pc[c] = "expired"
    /\ cmd # 0
    /\ stdin' = [stdin EXCEPT ![c] = cmd]
    /\ Goto(c, "cancel")
    /\ UNCHANGED <<client, ch, id, duty, pipes>>

(* The cancel frame has an identifier of its own that nobody waits for, and *)
(* a write that fails is ignored.                                           *)
CancelWrite(c) ==
    /\ pc[c] = "cancel"
    /\ nextID < MaxID
    /\ nextID' = nextID + 1
    /\ toHelper' = [p \in Proc |->
                      IF p = stdin[c] /\ p \in alive
                      THEN toHelper[p] \cup {nextID + 1}
                      ELSE toHelper[p]]
    /\ Return(c)
    /\ UNCHANGED <<cmd, started, pending, ch, duty, alive, fromHelper>>

-----------------------------------------------------------------------------
(* failProcess and Close: take process and requests out of the struct under *)
(* the lock, then kill the one and answer the others outside of it.         *)

(* Mutants: pending is not replaced; its requests are not kept. *)
TakeOverKeepsPending(g) ==
    /\ victim' = [victim EXCEPT ![g] = cmd]
    /\ taken' = [taken EXCEPT ![g] = pending]
    /\ cmd' = 0
    /\ Goto(g, "kill")
    /\ UNCHANGED <<started, pending, nextID, calls, pipes>>

TakeOverForgetsCalls(g) ==
    /\ victim' = [victim EXCEPT ![g] = cmd]
    /\ cmd' = 0
    /\ pending' = {}
    /\ Goto(g, "kill")
    /\ UNCHANGED <<started, nextID, taken, calls, pipes>>

TakeOver(g) ==
    /\ victim' = [victim EXCEPT ![g] = cmd]
    /\ taken' = [taken EXCEPT ![g] = pending]
    /\ cmd' = 0
    /\ pending' = {}
    /\ Goto(g, "kill")
    /\ UNCHANGED <<started, nextID, calls, pipes>>

(* failProcess takes whatever process is there, whichever one failed. *)
FailProcess(g) ==
    /\ pc[g] = "fail"
    /\ TakeOver(g)

Close(k) ==
    /\ pc[k] = "idle"
    /\ TakeOver(k)

(* Nobody serves the requests of a process that ended; what it had written  *)
(* before can still be read.                                                *)
End(ps) ==
    /\ alive' = alive \ ps
    /\ toHelper' = [p \in Proc |-> IF p \in ps THEN {} ELSE toHelper[p]]
    /\ UNCHANGED fromHelper

(* In Close this is stdin.Close, Kill and Wait in one step: no write to the *)
(* pipe succeeds after any of them.                                         *)
Kill(g) ==
    /\ pc[g] = "kill"
    /\ End({victim[g]})
    /\ victim' = [victim EXCEPT ![g] = 0]
    /\ Goto(g, "notify")
    /\ UNCHANGED <<client, calls, taken>>

(* The send blocks while the one slot of the channel is full. *)
Notify(g) ==
    /\ pc[g] = "notify"
    /\ \E i \in taken[g] :
         /\ ch[i] = "empty"
         /\ ch' = [ch EXCEPT ![i] = "gone"]
         /\ taken' = [taken EXCEPT ![g] = @ \ {i}]
    /\ UNCHANGED <<client, id, stdin, victim, pipes, pc>>

CallFailed(c) ==
    /\ pc[c] = "notify"
    /\ taken[c] = {}
    /\ Return(c)
    /\ UNCHANGED <<client, ch, duty, pipes>>

(* A reader ends after failProcess, a closer after Close. *)
Finish(g) ==
    /\ pc[g] = "notify"
    /\ taken[g] = {}
    /\ Goto(g, "done")
    /\ UNCHANGED <<client, calls, duty, pipes>>

-----------------------------------------------------------------------------
(* readLoop of process p.  The helper answers from eight threads in any     *)
(* order, so that the frames in the pipe form a set.  The reader tells      *)
(* apart a frame that names a request and holds its answer (a result or an  *)
(* error alike), one whose JSON does not parse, and one whose length is     *)
(* zero or above maxHelperFrame.  Which of the three a frame is shows only  *)
(* when it is read, so the model chooses it there.                          *)

NextFrame(p, i) ==
    /\ pc[p] = "read"
    /\ fromHelper' = [fromHelper EXCEPT ![p] = @ \ {i}]

(* Mutant: the answered request stays in pending. *)
ReadAnswerKeepsEntry(p) ==
    \E i \in fromHelper[p] :
      /\ NextFrame(p, i)
      /\ i \in pending
      /\ taken' = [taken EXCEPT ![p] = {i}]
      /\ Goto(p, "deliver")
      /\ UNCHANGED <<client, calls, victim, alive, toHelper>>

(* A frame that answers a pending request: it leaves pending under the lock *)
(* and the send comes after it.                                             *)
ReadAnswer(p) ==
    \E i \in fromHelper[p] :
      /\ NextFrame(p, i)
      /\ i \in pending
      /\ pending' = pending \ {i}
      /\ taken' = [taken EXCEPT ![p] = {i}]
      /\ Goto(p, "deliver")
      /\ UNCHANGED <<cmd, started, nextID, calls, victim, alive, toHelper>>

(* The frame does not parse, or nobody waits for its answer: read on. *)
ReadDropped(p) ==
    \E i \in fromHelper[p] :
      /\ NextFrame(p, i)
      /\ UNCHANGED <<client, calls, duty, alive, toHelper, pc>>

ReadBadLength(p) ==
    \E i \in fromHelper[p] :
      /\ NextFrame(p, i)
      /\ Goto(p, "fail")
      /\ UNCHANGED <<client, calls, duty, alive, toHelper>>

(* Mutant: readLoop returns without failProcess. *)
EOFUnreported(p) ==
    /\ pc[p] = "read"
    /\ p \notin alive
    /\ fromHelper[p] = {}
    /\ Goto(p, "done")
    /\ UNCHANGED <<client, calls, duty, pipes>>

(* The pipe of an ended process is read to its end, and then (or inside a   *)
(* frame that was cut short) the read fails.                                *)
ReadEOF(p) ==
    /\ pc[p] = "read"
    /\ p \notin alive
    /\ fromHelper[p] = {}
    /\ Goto(p, "fail")
    /\ UNCHANGED <<client, calls, duty, pipes>>

Deliver(p) ==
    /\ pc[p] = "deliver"
    /\ \E i \in taken[p] :
         /\ ch[i] = "empty"
         /\ ch' = [ch EXCEPT ![i] = "answer"]
    /\ taken' = [taken EXCEPT ![p] = {}]
    /\ Goto(p, "read")
    /\ UNCHANGED <<client, id, stdin, victim, pipes>>

-----------------------------------------------------------------------------
(* The helper process, as seen through its pipes: it answers each request   *)
(* at most once and may exit at any time.                                   *)

HelperReply(p) ==
    /\ p \in alive
    /\ \E i \in toHelper[p] :
         /\ toHelper' = [toHelper EXCEPT ![p] = @ \ {i}]
         /\ fromHelper' = [fromHelper EXCEPT ![p] = @ \cup {i}]
    /\ UNCHANGED <<client, calls, duty, alive, pc>>

HelperExit(p) ==
    /\ p \in alive
    /\ End({p})
    /\ UNCHANGED <<client, calls, duty, pc>>

-----------------------------------------------------------------------------
CallStep(c) ==
    \/ CallRegister(c)
    \/ CallWritePanics(c)
    \/ CallWriteDelivers(c)
    \/ CallWriteFails(c)
    \/ CallReceive(c)
    \/ CancelSkipped(c)
    \/ CancelSnapshot(c)
    \/ CancelWrite(c)
    \/ CallFailed(c)

TakeDownStep(g) ==
    \/ FailProcess(g)
    \/ Kill(g)
    \/ Notify(g)

ReaderStep(p) ==
    \/ ReadAnswer(p)
    \/ ReadDropped(p)
    \/ ReadBadLength(p)
    \/ ReadEOF(p)
    \/ Deliver(p)

Next ==
    /\ ~Panicked
    /\ \/ \E c \in Callers :
            \/ AlreadyStarted(c)
            \/ Start(c)
            \/ CallStep(c)
            \/ CallExpire(c)
       \/ \E g \in Goroutine : TakeDownStep(g)
       \/ \E k \in Closers : Close(k)
       \/ \E g \in Closers \cup Proc : Finish(g)
       \/ \E p \in Proc :
            \/ ReaderStep(p)
            \/ HelperReply(p)
            \/ HelperExit(p)

Spec == Init /\ [][Next]_vars

(* Go schedules every goroutine that can run.  Nothing is assumed of the    *)
(* helper, of new calls, of Close or of the request's deadline.             *)
Fairness ==
    /\ \A c \in Callers : WF_vars(~Panicked /\ (CallStep(c) \/ TakeDownStep(c)))
    /\ \A g \in Closers : WF_vars(~Panicked /\ (TakeDownStep(g) \/ Finish(g)))
    /\ \A p \in Proc :
         WF_vars(~Panicked /\ (ReaderStep(p) \/ TakeDownStep(p) \/ Finish(p)))

FairSpec == Spec /\ Fairness

-----------------------------------------------------------------------------
(* Whoever took a request out of pending owes it an answer.  A request is   *)
(* never owed by two goroutines, nor owed and still in the map: readLoop,   *)
(* failProcess and Close race for the same map and exactly one of them wins *)
(* each entry (the deletes and swaps under c.mu).                           *)
OneAnswerer ==
    /\ \A g \in Goroutine : taken[g] \cap pending = {}
    /\ \A g, h \in Goroutine : g # h => taken[g] \cap taken[h] = {}

(* No send on a response channel ever blocks, although every send happens   *)
(* outside c.mu and the receiver may have left at its deadline: a channel   *)
(* somebody still has to answer is empty.  A reader that blocked here would *)
(* stop serving every other call of the helper.                             *)
SendNeverBlocks ==
    \A g \in Goroutine : \A i \in taken[g] \cup pending : ch[i] = "empty"

(* A call that is writing or waiting was answered, or is owed an answer, or *)
(* is in the map where the next failure of the helper finds it.  No         *)
(* interleaving of answer, failure, Close and restart loses the call.       *)
CallNotLost ==
    \A c \in Callers :
      pc[c] \in {"write", "wait"} =>
        \/ id[c] \in pending
        \/ ch[id[c]] # "empty"
        \/ \E g \in Goroutine : id[c] \in taken[g]

(* An entry of pending belongs to a call that has not returned, so the map  *)
(* does not grow with calls that timed out or failed.                       *)
PendingHasCaller ==
    \A i \in pending :
      \E c \in Callers : id[c] = i /\ pc[c] \in {"write", "wait", "fail", "panic"}

(* A waiting call in the map waits for the process the client holds: when   *)
(* the client moves on to another process it leaves no call of the old one  *)
(* behind in the map, where nobody would ever answer it.                    *)
PendingOnCurrent ==
    \A c \in Callers :
      pc[c] = "wait" /\ id[c] \in pending => stdin[c] = cmd

(* The process the client holds has a reader that has not yet gone through  *)
(* failProcess; without one its answers, and its end, would pass unnoticed. *)
CurrentHasReader == cmd # 0 => pc[cmd] \in {"read", "deliver", "fail"}

(* A process that still runs is held by the client or about to be killed by *)
(* the goroutine that took it out: no restart leaks a helper process.       *)
NoOrphanProcess ==
    \A p \in alive : p = cmd \/ \E g \in Goroutine : victim[g] = p

(* What a goroutine holds fits where it is.  These facts and the next carry *)
(* the invariants above through every step.                                 *)
HoldsWhatItShould ==
    /\ \A g \in Goroutine : pc[g] # "kill" => victim[g] = 0
    /\ \A g \in Goroutine :
         pc[g] \notin {"kill", "notify", "deliver"} => taken[g] = {}
    /\ \A p \in Proc : pc[p] = "deliver" => \E i \in ID : taken[p] = {i}
    /\ \A p \in Proc : p > started => pc[p] = "off"
    /\ \A c \in Callers : pc[c] = "wait" => stdin[c] # 0
    /\ \A c \in Callers :
         pc[c] = "write" /\ id[c] \in pending => stdin[c] \in {0, cmd}

(* An identifier belongs to one call, and one that is not drawn yet has     *)
(* left no trace: a late answer cannot meet a younger call.                 *)
IdentifierUnique ==
    /\ \A c \in Callers : id[c] <= nextID
    /\ \A c, d \in Callers : c # d /\ id[c] = id[d] => id[c] = 0
    /\ \A i \in ID :
         i > nextID =>
           /\ ch[i] = "empty"
           /\ i \notin pending
           /\ \A g \in Goroutine : i \notin taken[g]

(* The inductive invariant. *)
IInv ==
    /\ TypeOK
    /\ HoldsWhatItShould
    /\ IdentifierUnique
    /\ OneAnswerer
    /\ SendNeverBlocks
    /\ CallNotLost
    /\ PendingHasCaller
    /\ PendingOnCurrent
    /\ CurrentHasReader
    /\ NoOrphanProcess

(* A call that waits for a helper that has ended returns, without help from *)
(* its deadline, whatever else goes on: the reader sees the end of the pipe *)
(* and failProcess reaches the call.                                        *)
DeadHelperNoticed ==
    \A c \in Callers :
      (pc[c] = "wait" /\ stdin[c] \notin alive) ~> (pc[c] # "wait" \/ Panicked)

(***************************************************************************)
(* What each call has come to, as CallContract knows it.                    *)
(***************************************************************************)

(* The reader holds the answer to request i, or has sent it. *)
Answered(i) ==
    \/ ch[i] = "answer"
    \/ \E p \in Proc : pc[p] = "deliver" /\ i \in taken[p]

CallState(c) ==
    IF pc[c] \in {"idle", "register"} THEN "none"
    ELSE IF pc[c] = "panic" THEN "panicked"
    ELSE IF pc[c] \in {"expired", "cancel"} THEN "expired"
    ELSE IF pc[c] \in {"fail", "kill", "notify"} THEN "failed"
    ELSE IF id[c] \in pending THEN IF pc[c] = "write" THEN "open" ELSE "sent"
    ELSE IF Answered(id[c]) THEN "answered" ELSE "failed"

CallStates == [c \in Callers |-> CallState(c)]

Contract == INSTANCE CallContract WITH call <- CallStates

(* The client keeps the contract of its calls: whatever readLoop,           *)
(* failProcess, Close, restarts and deadlines do to each other, a call is   *)
(* decided once, is answered only after it was sent, and returns what was   *)
(* decided, or at its deadline, never without either.                       *)
KeepsContract == Contract!Spec

(* helper_client.go:121 says ensureStarted ensures that the process is      *)
(* started and its pipes are initialised; Call relies on it when it writes. *)
PipeInitialised == \A c \in Callers : pc[c] = "write" => stdin[c] # 0

(* helper_client.go:197 says failProcess marks the (failed) helper as gone  *)
(* and helper_client.go:41 that the client restarts it: a failure of the    *)
(* process a goroutine was using takes down that process or none.           *)
FailureHitsOwnProcess ==
    /\ \A p \in Proc : victim[p] \in {0, p}
    /\ \A c \in Callers : victim[c] \in {0, stdin[c]}
=============================================================================
