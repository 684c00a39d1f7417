------------------------- MODULE HelperServerProofs -------------------------
(* Safety of HelperServer, for any number of requests, sessions and worker  *)
(* threads, proved from an inductive invariant.                             *)
EXTENDS HelperServer, FiniteSetTheorems, TLAPS

Threads == {"new", "open", "failed", "interrupted", "punished", "ok", "timeout", "ended"}

(* The requests a thread of the pool is working on. *)
Busy == {i \in ID : stage[i] \in {"running", "leaving"}}

BusyIsBounded == IsFiniteSet(Busy) /\ Cardinality(Busy) <= MaxWorkers

(* A session that is in use is registered, *)
InUseIsRegistered ==
    \A i \in ID, s \in Session :
      session[i][s] \notin {"new", "ended"} => s \in registered[i]

(* one that was closed in use, or interrupted, was so by a cancel, *)
ClosedByCancel ==
    \A i \in ID, s \in Session :
      session[i][s] = "interrupted" \/ (s \in closed[i] /\ session[i][s] # "ended") =>
        Cancelled(i)

(* and a cancel has closed, or has still to close, all that are registered. *)
CancelCoversRegistered ==
    \A i \in ID :
      /\ cancelling[i] = "closing" => registered[i] \subseteq closing[i] \cup closed[i]
      /\ cancelling[i] = "done" => registered[i] \subseteq closed[i]

Inv ==
    /\ TypeOK
    /\ BusyIsBounded
    /\ ActiveIsExact
    /\ InUseIsRegistered
    /\ ClosedByCancel
    /\ CancelCoversRegistered

-----------------------------------------------------------------------------
(* A step that leaves the stages alone keeps what depends on them only. *)
LEMMA SameStages ==
    ASSUME Inv, UNCHANGED requests
    PROVE  BusyIsBounded' /\ ActiveIsExact'
  BY DEF Inv, requests, BusyIsBounded, Busy, ActiveIsExact

(* A step that leaves the sessions and the cancels alone keeps the rest.    *)
LEMMA SameSessions ==
    ASSUME Inv, UNCHANGED <<cancels, sessions>>
    PROVE  InUseIsRegistered' /\ ClosedByCancel' /\ CancelCoversRegistered'
  BY DEF Inv, cancels, sessions, InUseIsRegistered, ClosedByCancel,
         CancelCoversRegistered, Cancelled

(* A thread of a request that changes nothing but how far its session is. *)
LEMMA SessionMoves ==
    ASSUME NEW i \in ID, NEW s \in Session, NEW from \in Threads, NEW to \in Threads, Inv,
           Move(i, s, from, to), from \notin {"new", "ended"},
           to = "interrupted" => Cancelled(i),
           UNCHANGED <<main, requests, cancels, registered, closed>>
    PROVE  Inv'
  <1> USE DEF cancels, requests
  <1>0. session \in [ID -> [Session -> Threads]]
    BY DEF Inv, TypeOK, Threads
  <1>1. session' \in [ID -> [Session -> Threads]]
    BY <1>0 DEF Move
  <1>2. TypeOK'
    BY <1>1 DEF Inv, TypeOK, Threads
  <1>3. \A j \in ID, t \in Session :
          \/ session'[j][t] = session[j][t]
          \/ j = i /\ t = s /\ session[i][s] = from /\ session'[i][s] = to
    BY <1>0 DEF Move
  <1>4. InUseIsRegistered'
    BY <1>3 DEF Inv, InUseIsRegistered
  <1>5. ClosedByCancel'
    BY <1>3 DEF Inv, ClosedByCancel, Cancelled
  <1>6. CancelCoversRegistered'
    BY DEF Inv, CancelCoversRegistered
  <1> QED
    BY <1>2, <1>4, <1>5, <1>6, SameStages DEF Inv

-----------------------------------------------------------------------------
(* The initial states satisfy the invariant. *)
LEMMA InitialInvariant == Init => Inv
  <1> SUFFICES ASSUME Init PROVE Inv
    OBVIOUS
  <1>1. Busy = {}
    BY DEF Init, Busy
  <1>2. BusyIsBounded
    BY <1>1, FS_EmptySet, WorkersAssumption DEF BusyIsBounded
  <1>3. TypeOK
    BY <1>2 DEF Init, TypeOK, BusyIsBounded, Busy
  <1> QED
    BY <1>2, <1>3
    DEF Init, Inv, ActiveIsExact, InUseIsRegistered, ClosedByCancel,
        CancelCoversRegistered, Cancelled

(* Every step keeps it. *)
LEMMA InductiveInvariant == Inv /\ [Next]_vars => Inv'
  <1> SUFFICES ASSUME Inv, [Next]_vars PROVE Inv'
    OBVIOUS
  <1> USE DEF requests, cancels, sessions
  <1>1. ASSUME NEW i \in ID, ReadImages(i) PROVE Inv'
    <2>1. Busy' = Busy
      BY <1>1 DEF ReadImages, Inv, TypeOK, Busy
    <2>2. TypeOK' /\ BusyIsBounded'
      BY <1>1, <2>1 DEF ReadImages, Inv, TypeOK, BusyIsBounded, Busy
    <2>3. ActiveIsExact'
      BY <1>1 DEF ReadImages, Inv, TypeOK, ActiveIsExact
    <2> QED
      BY <1>1, <2>2, <2>3, SameSessions DEF ReadImages, Inv
  <1>2. ASSUME NEW i \in ID, ReadCancel(i) PROVE Inv'
    <2>1. TypeOK'
      BY <1>2 DEF ReadCancel, Inv, TypeOK
    <2>2. InUseIsRegistered' /\ ClosedByCancel' /\ CancelCoversRegistered'
      BY <1>2 DEF ReadCancel, Inv, TypeOK, InUseIsRegistered, ClosedByCancel,
                  CancelCoversRegistered, Cancelled
    <2> QED
      BY <1>2, <2>1, <2>2, SameStages DEF ReadCancel, Inv
  <1>3. CASE ReadEnd
    <2>1. TypeOK'
      BY <1>3 DEF ReadEnd, Inv, TypeOK
    <2>2. InUseIsRegistered' /\ ClosedByCancel' /\ CancelCoversRegistered'
      BY <1>3 DEF ReadEnd, Inv, TypeOK, InUseIsRegistered, ClosedByCancel,
                  CancelCoversRegistered, Cancelled
    <2> QED
      BY <1>3, <2>1, <2>2, SameStages DEF ReadEnd, Inv
  <1>4. ASSUME NEW i \in ID, CancelSet(i) PROVE Inv'
    <2>1. TypeOK'
      BY <1>4 DEF CancelSet, Inv, TypeOK
    <2>2. InUseIsRegistered' /\ ClosedByCancel' /\ CancelCoversRegistered'
      BY <1>4 DEF CancelSet, Inv, TypeOK, InUseIsRegistered, ClosedByCancel,
                  CancelCoversRegistered, Cancelled
    <2> QED
      BY <1>4, <2>1, <2>2, SameStages DEF CancelSet, Inv
  <1>5. ASSUME NEW i \in ID, CancelSnapshot(i) PROVE Inv'
    <2>1. TypeOK'
      BY <1>5 DEF CancelSnapshot, Inv, TypeOK
    <2>2. InUseIsRegistered' /\ ClosedByCancel' /\ CancelCoversRegistered'
      BY <1>5 DEF CancelSnapshot, Inv, TypeOK, InUseIsRegistered, ClosedByCancel,
                  CancelCoversRegistered, Cancelled
    <2> QED
      BY <1>5, <2>1, <2>2, SameStages DEF CancelSnapshot, Inv
  <1>6. ASSUME NEW i \in ID, CancelClose(i) PROVE Inv'
    <2> PICK s \in closing[i] :
             /\ closing' = [closing EXCEPT ![i] = @ \ {s}]
             /\ closed' = [closed EXCEPT ![i] = @ \cup {s}]
      BY <1>6 DEF CancelClose
    <2>1. TypeOK'
      BY <1>6 DEF CancelClose, Inv, TypeOK
    <2>2. InUseIsRegistered' /\ ClosedByCancel' /\ CancelCoversRegistered'
      BY <1>6 DEF CancelClose, Inv, TypeOK, InUseIsRegistered, ClosedByCancel,
                  CancelCoversRegistered, Cancelled
    <2> QED
      BY <1>6, <2>1, <2>2, SameStages DEF CancelClose, Inv
  <1>7. ASSUME NEW i \in ID, CancelDone(i) PROVE Inv'
    <2>1. TypeOK'
      BY <1>7 DEF CancelDone, Inv, TypeOK
    <2>2. InUseIsRegistered' /\ ClosedByCancel' /\ CancelCoversRegistered'
      BY <1>7 DEF CancelDone, Inv, TypeOK, InUseIsRegistered, ClosedByCancel,
                  CancelCoversRegistered, Cancelled
    <2> QED
      BY <1>7, <2>1, <2>2, SameStages DEF CancelDone, Inv
  <1>8. CASE DropQueue
    <2>1. Busy' = Busy
      BY <1>8 DEF DropQueue, Inv, TypeOK, Busy
    <2>2. TypeOK' /\ BusyIsBounded'
      BY <1>8, <2>1 DEF DropQueue, Inv, TypeOK, BusyIsBounded, Busy
    <2>3. ActiveIsExact'
      BY <1>8 DEF DropQueue, Inv, TypeOK, ActiveIsExact
    <2> QED
      BY <1>8, <2>2, <2>3, SameSessions DEF DropQueue, Inv
  <1>9. CASE Exit
    BY <1>9, SameStages, SameSessions DEF Exit, Inv, TypeOK
  <1>10. ASSUME NEW i \in ID, WorkerStarts(i) PROVE Inv'
    <2>1. Busy' = Busy \cup {i} /\ i \notin Busy
      BY <1>10 DEF WorkerStarts, Inv, TypeOK, Busy
    <2>2. BusyIsBounded'
      <3>1. IsFiniteSet(Busy) /\ Cardinality(Busy) < MaxWorkers
        BY <1>10 DEF WorkerStarts, Inv, BusyIsBounded, Busy
      <3>2. Cardinality(Busy) \in Nat /\ Cardinality(Busy') = Cardinality(Busy) + 1
        BY <2>1, <3>1, FS_CardinalityType, FS_AddElement
      <3>3. IsFiniteSet(Busy')
        BY <2>1, <3>1, FS_AddElement
      <3> QED
        BY <3>1, <3>2, <3>3, WorkersAssumption DEF BusyIsBounded
    <2>3. TypeOK'
      BY <1>10, <2>2 DEF WorkerStarts, Inv, TypeOK, BusyIsBounded, Busy
    <2>4. ActiveIsExact'
      BY <1>10 DEF WorkerStarts, Inv, TypeOK, ActiveIsExact
    <2> QED
      BY <1>10, <2>2, <2>3, <2>4, SameSessions DEF WorkerStarts, Inv
  <1>11. ASSUME NEW i \in ID, WorkerLeaves(i) PROVE Inv'
    <2>1. Busy' = Busy
      BY <1>11 DEF WorkerLeaves, Inv, TypeOK, Busy
    <2>2. TypeOK' /\ BusyIsBounded'
      BY <1>11, <2>1 DEF WorkerLeaves, Inv, TypeOK, BusyIsBounded, Busy
    <2>3. ActiveIsExact'
      BY <1>11 DEF WorkerLeaves, Inv, TypeOK, ActiveIsExact
    <2> QED
      BY <1>11, <2>2, <2>3, SameSessions DEF WorkerLeaves, Inv
  <1>12. ASSUME NEW i \in ID, WorkerAnswers(i) PROVE Inv'
    <2>1. Busy' = Busy \ {i} /\ i \in Busy
      BY <1>12 DEF WorkerAnswers, Inv, TypeOK, Busy
    <2>2. BusyIsBounded'
      <3>1. IsFiniteSet(Busy) /\ Cardinality(Busy) <= MaxWorkers
        BY DEF Inv, BusyIsBounded
      <3>2. Cardinality(Busy) \in Nat /\ Cardinality(Busy') = Cardinality(Busy) - 1
        BY <2>1, <3>1, FS_CardinalityType, FS_RemoveElement
      <3>3. IsFiniteSet(Busy')
        BY <2>1, <3>1, FS_RemoveElement
      <3> QED
        BY <3>1, <3>2, <3>3, WorkersAssumption DEF BusyIsBounded
    <2>3. TypeOK'
      BY <1>12, <2>2 DEF WorkerAnswers, Inv, TypeOK, BusyIsBounded, Busy
    <2>4. ActiveIsExact'
      BY <1>12 DEF WorkerAnswers, Inv, TypeOK, ActiveIsExact
    <2> QED
      BY <1>12, <2>2, <2>3, <2>4, SameSessions DEF WorkerAnswers, Inv
  <1>13. ASSUME NEW i \in ID, NEW s \in Session, Register(i, s) PROVE Inv'
    <2>0. session \in [ID -> [Session -> Threads]]
      BY DEF Inv, TypeOK, Threads
    <2>1. \A j \in ID, t \in Session :
            \/ session'[j][t] = session[j][t]
            \/ j = i /\ t = s /\ session[i][s] = "new" /\ session'[i][s] = "open"
      BY <1>13, <2>0 DEF Register, Move
    <2>2. session' \in [ID -> [Session -> Threads]]
      BY <1>13, <2>0 DEF Register, Move, Threads
    <2>3. TypeOK'
      BY <1>13, <2>2 DEF Register, Inv, TypeOK, Threads
    <2>4. InUseIsRegistered'
      BY <1>13, <2>1 DEF Register, Inv, TypeOK, InUseIsRegistered
    <2>5. ClosedByCancel'
      BY <1>13, <2>1 DEF Register, Inv, ClosedByCancel, Cancelled
    <2>6. CancelCoversRegistered'
      BY <1>13 DEF Register, Inv, TypeOK, CancelCoversRegistered, Cancelled
    <2> QED
      BY <1>13, <2>3, <2>4, <2>5, <2>6, SameStages DEF Register, Inv
  <1>14. ASSUME NEW i \in ID, NEW s \in Session, RegisterRefused(i, s) PROVE Inv'
    <2>0. session \in [ID -> [Session -> Threads]]
      BY DEF Inv, TypeOK, Threads
    <2>1. \A j \in ID, t \in Session :
            \/ session'[j][t] = session[j][t]
            \/ j = i /\ t = s /\ session'[i][s] = "ended"
      BY <1>14, <2>0 DEF RegisterRefused, Move
    <2>2. session' \in [ID -> [Session -> Threads]]
      BY <1>14, <2>0 DEF RegisterRefused, Move, Threads
    <2>3. TypeOK'
      BY <1>14, <2>2 DEF RegisterRefused, Inv, TypeOK, Threads
    <2>4. InUseIsRegistered'
      BY <1>14, <2>1 DEF RegisterRefused, Inv, InUseIsRegistered
    <2>5. ClosedByCancel'
      BY <1>14, <2>1 DEF RegisterRefused, Inv, TypeOK, ClosedByCancel, Cancelled
    <2>6. CancelCoversRegistered'
      BY <1>14 DEF RegisterRefused, Inv, TypeOK, CancelCoversRegistered
    <2> QED
      BY <1>14, <2>3, <2>4, <2>5, <2>6, SameStages DEF RegisterRefused, Inv
  <1>15. ASSUME NEW i \in ID, NEW s \in Session, RefuseCall(i, s) PROVE Inv'
    BY <1>15, SessionMoves DEF RefuseCall, Threads
  <1>16. ASSUME NEW i \in ID, NEW s \in Session, Interrupted(i, s) PROVE Inv'
    <2>1. Cancelled(i)
      BY <1>16 DEF Interrupted, Move, Inv, ClosedByCancel
    <2> QED
      BY <1>16, <2>1, SessionMoves DEF Interrupted, Threads
  <1>17. ASSUME NEW i \in ID, NEW s \in Session, NetworkFails(i, s) PROVE Inv'
    BY <1>17, SessionMoves DEF NetworkFails, Threads
  <1>18. ASSUME NEW i \in ID, NEW s \in Session, NetworkSucceeds(i, s) PROVE Inv'
    BY <1>18, SessionMoves DEF NetworkSucceeds, Threads
  <1>19. ASSUME NEW i \in ID, NEW s \in Session,
                NEW failure \in {"failed", "interrupted"}, Judge(i, s, failure)
         PROVE  Inv'
    BY <1>19, SessionMoves DEF Judge, Threads
  <1>20. ASSUME NEW i \in ID, NEW s \in Session, Finish(i, s) PROVE Inv'
    <2>0. session \in [ID -> [Session -> Threads]]
      BY DEF Inv, TypeOK, Threads
    <2>1. \A j \in ID, t \in Session :
            \/ session'[j][t] = session[j][t] /\ (j # i \/ t # s)
            \/ j = i /\ t = s /\ session'[i][s] = "ended"
      BY <1>20, <2>0 DEF Finish, Move
    <2>2. session' \in [ID -> [Session -> Threads]]
      BY <1>20, <2>0 DEF Finish, Move, Threads
    <2>3. TypeOK'
      BY <1>20, <2>2 DEF Finish, Inv, TypeOK, Threads
    <2>4. InUseIsRegistered'
      BY <1>20, <2>1 DEF Finish, Inv, TypeOK, InUseIsRegistered
    <2>5. ClosedByCancel'
      BY <1>20, <2>1 DEF Finish, Inv, TypeOK, ClosedByCancel, Cancelled
    <2>6. CancelCoversRegistered'
      BY <1>20 DEF Finish, Inv, TypeOK, CancelCoversRegistered
    <2> QED
      BY <1>20, <2>3, <2>4, <2>5, <2>6, SameStages DEF Finish, Inv
  <1>21. CASE UNCHANGED vars
    BY <1>21, SameStages, SameSessions DEF vars, Inv, TypeOK
  <1> QED
    BY <1>1, <1>2, <1>3, <1>4, <1>5, <1>6, <1>7, <1>8, <1>9, <1>10, <1>11, <1>12,
       <1>13, <1>14, <1>15, <1>16, <1>17, <1>18, <1>19, <1>20, <1>21
    DEF Next, MainStep, WorkerStep, SessionStep

(* The inductive invariant holds in every reachable state. *)
THEOREM Invariant == Spec => []Inv
  <1> QED
    BY InitialInvariant, InductiveInvariant, PTL DEF Spec

(* The variables keep their types, and no more requests are worked on than  *)
(* the pool has threads.                                                    *)
THEOREM TypesAreKept == Spec => []TypeOK
  <1>1. Inv => TypeOK
    BY DEF Inv
  <1> QED
    BY <1>1, Invariant, PTL

(* A cancel that is through has closed every session of its request,        *)
(* whether it was registered before the cancel or came while it ran.        *)
THEOREM CancelsReachEverySession == Spec => []CancelReachesEverySession
  <1>1. Inv => CancelReachesEverySession
    BY DEF Inv, CancelReachesEverySession, CancelCoversRegistered, InUseIsRegistered
  <1> QED
    BY <1>1, Invariant, PTL

(* The table of controls holds the requests that wait or run, and no other. *)
THEOREM ControlsAreExact == Spec => []ActiveIsExact
  <1>1. Inv => ActiveIsExact
    BY DEF Inv
  <1> QED
    BY <1>1, Invariant, PTL

(* No credential is punished for a call that a cancel interrupted. *)
THEOREM CancelsPunishNobody == Spec => CancelNeverPunishes
  <1>1. ASSUME Inv, [Next]_vars
        PROVE  [\A i \in ID, s \in Session :
                  session[i][s] = "interrupted" => session'[i][s] # "punished"]_vars
    <2> SUFFICES ASSUME Next, NEW i \in ID, NEW s \in Session,
                        session[i][s] = "interrupted"
                 PROVE  session'[i][s] # "punished"
      BY <1>1
    <2>0. session \in [ID -> [Session -> Threads]] /\ Cancelled(i)
      BY <1>1 DEF Inv, TypeOK, Threads, ClosedByCancel
    <2>1. ASSUME NEW j \in ID, NEW t \in Session, NEW from \in Threads, NEW to \in Threads,
                 Move(j, t, from, to), to # "punished"
          PROVE  session'[i][s] # "punished"
      BY <2>0, <2>1 DEF Move
    <2>2. ASSUME NEW j \in ID, NEW t \in Session,
                 NEW failure \in {"failed", "interrupted"}, Judge(j, t, failure)
          PROVE  session'[i][s] # "punished"
      BY <2>0, <2>2 DEF Judge, Move
    <2>3. ASSUME NEW j \in ID, NEW t \in Session,
                 \/ Register(j, t) \/ RegisterRefused(j, t) \/ RefuseCall(j, t)
                 \/ Interrupted(j, t) \/ NetworkFails(j, t) \/ NetworkSucceeds(j, t)
                 \/ Finish(j, t)
          PROVE  session'[i][s] # "punished"
      BY <2>1, <2>3 DEF Register, RegisterRefused, RefuseCall, Interrupted, NetworkFails,
                        NetworkSucceeds, Finish, Threads
    <2>4. ASSUME \/ \E j \in ID : ReadImages(j) \/ ReadCancel(j) \/ WorkerStep(j)
                 \/ ReadEnd \/ MainStep
          PROVE  session' = session
      BY <2>4 DEF ReadImages, ReadCancel, WorkerStep, WorkerStarts, WorkerLeaves,
                  WorkerAnswers, ReadEnd, MainStep, CancelSet, CancelSnapshot,
                  CancelClose, CancelDone, DropQueue, Exit, sessions
    <2> QED
      BY <2>2, <2>3, <2>4 DEF Next, SessionStep
  <1> QED
    BY <1>1, Invariant, PTL DEF Spec, CancelNeverPunishes

-----------------------------------------------------------------------------
(* What becomes of sessions. *)

(* A registered session is in use, one that ended was closed, only a        *)
(* running request uses any, and none waits or runs in a helper that exited.*)
Tidy ==
    \A i \in ID :
      /\ \A s \in Session :
           /\ s \in registered[i] => session[i][s] \notin {"new", "ended"}
           /\ session[i][s] = "ended" => s \in closed[i]
           /\ stage[i] # "running" => session[i][s] \in {"new", "ended"}
           /\ stage[i] \in {"leaving", "answered"} => session[i][s] = "ended"
      /\ main = "exited" => stage[i] \notin {"queued", "running"}

(* A thread moves its own session of a running request only. *)
LEMMA OneSessionMoves ==
    ASSUME Inv, NEW i \in ID, NEW s \in Session, NEW from, NEW to, Move(i, s, from, to)
    PROVE  /\ stage[i] = "running" /\ session[i][s] = from /\ session'[i][s] = to
           /\ \A j \in ID, t \in Session :
                j # i \/ t # s => session'[j][t] = session[j][t]
  <1>1. session \in [ID -> [Session -> Threads]]
    BY DEF Inv, TypeOK, Threads
  <1> QED
    BY <1>1 DEF Move

(* Every step keeps sessions tidy. *)
LEMMA StepKeepsTidy ==
    ASSUME Inv, Tidy, [Next]_vars
    PROVE  Tidy'
  <1> USE DEF requests, cancels, sessions
  <1>0. /\ stage \in [ID -> {"unread", "queued", "running", "leaving", "answered", "dropped"}]
        /\ registered \in [ID -> SUBSET Session]
        /\ closed \in [ID -> SUBSET Session]
    BY DEF Inv, TypeOK
  (* The main thread begins and drops requests that use no session, *)
  <1>1. ASSUME NEW i \in ID, ReadImages(i) PROVE Tidy'
    BY <1>0, <1>1 DEF ReadImages, Tidy
  <1>2. CASE DropQueue
    BY <1>0, <1>2 DEF DropQueue, Tidy
  <1>3. CASE Exit
    BY <1>0, <1>3 DEF Exit, Tidy
  (* and cancels, which closes sessions; *)
  <1>4. ASSUME ReadEnd \/ \E i \in ID : ReadCancel(i) \/ CancelSet(i) \/ CancelSnapshot(i)
                                        \/ CancelDone(i)
        PROVE  Tidy'
    <2>1. /\ UNCHANGED <<stage, registered, closed, session>>
          /\ main' = "exited" => main = "exited"
      BY <1>4 DEF ReadEnd, ReadCancel, CancelSet, CancelSnapshot, CancelDone
    <2> QED
      BY <2>1 DEF Tidy
  <1>5. ASSUME NEW i \in ID, CancelClose(i) PROVE Tidy'
    <2>1. /\ UNCHANGED <<main, stage, registered, session>>
          /\ \A j \in ID : closed[j] \subseteq closed'[j]
      BY <1>0, <1>5 DEF CancelClose
    <2> QED
      BY <2>1 DEF Tidy
  (* workers begin and end requests, *)
  <1>6. ASSUME NEW i \in ID, WorkerStarts(i) PROVE Tidy'
    <2>1. main # "exited"
      BY <1>6 DEF WorkerStarts, Tidy
    <2> QED
      BY <1>0, <1>6, <2>1 DEF WorkerStarts, Tidy
  <1>7. ASSUME NEW i \in ID, WorkerLeaves(i) PROVE Tidy'
    BY <1>0, <1>7 DEF WorkerLeaves, Tidy
  <1>8. ASSUME NEW i \in ID, WorkerAnswers(i) PROVE Tidy'
    BY <1>0, <1>8 DEF WorkerAnswers, Tidy
  (* and threads use sessions of running requests. *)
  <1>9. ASSUME NEW i \in ID, NEW s \in Session, Register(i, s) PROVE Tidy'
    BY <1>0, <1>9, OneSessionMoves DEF Register, Tidy
  <1>10. ASSUME NEW i \in ID, NEW s \in Session, RegisterRefused(i, s) PROVE Tidy'
    BY <1>0, <1>10, OneSessionMoves DEF RegisterRefused, Tidy
  <1>11. ASSUME NEW i \in ID, NEW s \in Session,
                NEW from \in Threads \ {"new", "ended"},
                NEW to \in Threads \ {"new", "ended"}, Move(i, s, from, to),
                UNCHANGED <<main, requests, registered, closed>>
         PROVE  Tidy'
    BY <1>11, OneSessionMoves DEF Tidy
  <1>12. ASSUME NEW i \in ID, NEW s \in Session,
                \/ RefuseCall(i, s) \/ Interrupted(i, s) \/ NetworkFails(i, s)
                \/ NetworkSucceeds(i, s)
                \/ Judge(i, s, "failed") \/ Judge(i, s, "interrupted")
         PROVE  Tidy'
    BY <1>11, <1>12 DEF RefuseCall, Interrupted, NetworkFails, NetworkSucceeds, Judge, Threads
  <1>13. ASSUME NEW i \in ID, NEW s \in Session, Finish(i, s) PROVE Tidy'
    BY <1>0, <1>13, OneSessionMoves DEF Finish, Tidy
  <1>14. CASE UNCHANGED vars
    BY <1>14 DEF vars, Tidy
  <1> QED
    BY <1>1, <1>2, <1>3, <1>4, <1>5, <1>6, <1>7, <1>8, <1>9, <1>10, <1>12, <1>13, <1>14
    DEF Next, MainStep, WorkerStep, SessionStep

(* A request that is answered has closed every session it opened, and none  *)
(* stays registered, in whatever order a cancel, the network and the        *)
(* request's threads met; nor does one outlive the helper.                  *)
THEOREM SessionsComeBack == Spec => []SessionsAreGivenBack
  <1>1. Init => Tidy
    BY DEF Init, Tidy
  <1>2. Inv /\ Tidy => SessionsAreGivenBack
    <2> SUFFICES ASSUME Inv, Tidy PROVE SessionsAreGivenBack
      OBVIOUS
    <2>1. registered \in [ID -> SUBSET Session] /\ closed \in [ID -> SUBSET Session]
      BY DEF Inv, TypeOK
    <2>2. ASSUME NEW i \in ID, stage[i] # "running" PROVE registered[i] = {}
      BY <2>1, <2>2 DEF Tidy
    <2>3. ASSUME NEW i \in ID, stage[i] \in {"leaving", "answered"}
          PROVE  closed[i] = Session
      BY <2>1, <2>3 DEF Tidy
    <2> QED
      BY <2>2, <2>3 DEF Tidy, SessionsAreGivenBack
  <1> QED
    BY <1>1, <1>2, StepKeepsTidy, Invariant, PTL DEF Spec
=============================================================================
