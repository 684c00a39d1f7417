------------------------ MODULE PluginLifecycleProofs ------------------------
(* Proofs about PluginLifecycle, for any number of requests, plugin objects, *)
(* slots and configurations.                                                 *)
EXTENDS PluginLifecycle, TLAPS

-----------------------------------------------------------------------------
(* The stand-in for a missing configuration is none. *)
LEMMA NoConfigIsNone == NoConfig \notin Config
BY PathAssumption DEF NoConfig, Config

(* The variables have their types initially. *)
LEMMA InitTypeOK == Init => TypeOK
<1> SUFFICES ASSUME Init
             PROVE  TypeOK
    OBVIOUS
<1>1. 0 \in 0..MaxPlugin /\ 0 \in 0..MaxSlot
      BY BoundsAssumption
<1>2. stopping \in [plugin : 0..MaxPlugin, slot : 0..MaxSlot]
      BY <1>1 DEF Init, Nothing
<1>3. /\ config \in [Plugin -> Config \cup {NoConfig}]
      /\ snapshot \in [Requests -> Config \cup {NoConfig}]
      BY DEF Init
<1>4. QED
      BY <1>1, <1>2, <1>3 DEF Init, TypeOK, Stage, Holding

(* Every action keeps the types, and a lease to requests that execute.      *)
LEMMA NextTypeOK == TypeOK /\ [Next]_vars => TypeOK'
<1> SUFFICES ASSUME TypeOK, [Next]_vars
             PROVE  TypeOK'
    OBVIOUS
<1> USE BoundsAssumption
    DEF TypeOK, Plugin, Slot, Stage, Holding, Nothing, vars, objects, request
<1>1. CASE InitHost
      BY <1>1 DEF InitHost
<1>2. ASSUME NEW p \in Plugin, NEW s \in Slot, NEW cfg \in Config, Register(p, s, cfg)
      PROVE  TypeOK'
      <2>1. cfg.path \in Paths
            BY DEF Config
      <2>2. QED
            BY <1>2, <2>1 DEF Register
<1>3. ASSUME NEW p \in Plugin, NEW cfg \in Config, ReconfigureInPlace(p, cfg)
      PROVE  TypeOK'
      BY <1>3 DEF ReconfigureInPlace
<1>4. ASSUME NEW p \in Plugin, NEW s \in Slot, NEW cfg \in Config,
             ReconfigureSwap(p, s, cfg)
      PROVE  TypeOK'
      <2>1. cfg.path \in Paths
            BY DEF Config
      <2>2. QED
            BY <1>4, <2>1 DEF ReconfigureSwap
<1>5. CASE ShutdownTakePlugin
      BY <1>5 DEF ShutdownTakePlugin
<1>6. CASE ShutdownTakeSlot
      <2>1. stopping.plugin \in Plugin
            BY <1>6 DEF ShutdownTakeSlot
      <2>2. helper[stopping.plugin] \in 0..MaxSlot
            BY <2>1
      <2>3. stopping' \in [plugin : 0..MaxPlugin, slot : 0..MaxSlot]
            <3>1. stopping' = [plugin |-> 0, slot |-> helper[stopping.plugin]]
                  BY <1>6 DEF ShutdownTakeSlot
            <3>2. QED
                  BY <2>2, <3>1
      <2>4. slot' \in [Slot -> Stage]
            BY <1>6 DEF ShutdownTakeSlot
      <2>5. helper' \in [Plugin -> 0..MaxSlot]
            BY <1>6 DEF ShutdownTakeSlot
      <2>6. QED
            BY <1>6, <2>3, <2>4, <2>5 DEF ShutdownTakeSlot
<1>7. CASE ShutdownClose
      <2>1. stopping' \in [plugin : 0..MaxPlugin, slot : 0..MaxSlot]
            BY <1>7 DEF ShutdownClose
      <2>2. slot' \in [Slot -> Stage]
            BY <1>7 DEF ShutdownClose
      <2>3. QED
            BY <1>7, <2>1, <2>2 DEF ShutdownClose
<1>8. ASSUME NEW r \in Requests, TakePlugin(r)
      PROVE  TypeOK'
      BY <1>8 DEF TakePlugin
<1>9. ASSUME NEW r \in Requests, AcquireNothing(r)
      PROVE  TypeOK'
      <2>1. pc' = [pc EXCEPT ![r] = "idle"] /\ plugin' = [plugin EXCEPT ![r] = 0]
            BY <1>9 DEF AcquireNothing
      <2>2. lease[r] = 0
            BY <1>9 DEF AcquireNothing
      <2>3. \A q \in Requests :
               /\ pc'[q] = "routed" => plugin'[q] # 0
               /\ lease[q] # 0 <=> pc'[q] \in Holding
            BY <2>1, <2>2
      <2>4. QED
            BY <1>9, <2>1, <2>3 DEF AcquireNothing
<1>10. ASSUME NEW r \in Requests, Acquire(r)
       PROVE  TypeOK'
       <2>1. /\ plugin[r] \in Plugin
             /\ helper[plugin[r]] \in Slot
             /\ config[plugin[r]] \in Config \cup {NoConfig}
             BY <1>10 DEF Acquire
       <2>2. QED
             BY <1>10, <2>1 DEF Acquire
<1>11. ASSUME NEW r \in Requests, LoadCredentials(r)
       PROVE  TypeOK'
       BY <1>11 DEF LoadCredentials
<1>12. ASSUME NEW r \in Requests, CallStartsHelper(r)
       PROVE  TypeOK'
       <2>1. lease[r] \in Slot
             BY <1>12 DEF CallStartsHelper
       <2>2. QED
             BY <1>12, <2>1 DEF CallStartsHelper
<1>13. ASSUME NEW r \in Requests, Retry(r)
       PROVE  TypeOK'
       BY <1>13 DEF Retry
<1>14. ASSUME NEW r \in Requests, Release(r)
       PROVE  TypeOK'
       BY <1>14 DEF Release
<1>15. ASSUME NEW s \in Slot, RetireWait(s) \/ Retire(s)
       PROVE  TypeOK'
       BY <1>15 DEF RetireWait, Retire
<1>16. ASSUME NEW s \in Slot, HelperFails(s)
       PROVE  TypeOK'
       BY <1>16 DEF HelperFails
<1>17. CASE UNCHANGED vars
       BY <1>17
<1>18. QED
       BY <1>1, <1>2, <1>3, <1>4, <1>5, <1>6, <1>7, <1>8, <1>9, <1>10, <1>11, <1>12,
          <1>13, <1>14, <1>15, <1>16, <1>17
       DEF Next, Lifecycle, Shutdown, Execute

(* Every reachable state has the type TypeOK gives it. *)
THEOREM TypeCorrect == Spec => []TypeOK
<1>1. TypeOK /\ [Next]_vars => TypeOK'
      BY NextTypeOK
<1>2. QED
      BY <1>1, InitTypeOK, PTL DEF Spec

-----------------------------------------------------------------------------
(* The inductive invariant.  What carries it: a slot or a plugin object is  *)
(* unused before register or reconfigure draws it (Coherent), so that no    *)
(* lease, no other object and no shutdown knows it; and a slot leaves its   *)
(* plugin object in the step in which it stops being open.                  *)

(* The inductive invariant holds before anything was registered. *)
LEMMA InitLifecycle == Init => LifecycleInv
<1> SUFFICES ASSUME Init
             PROVE  LifecycleInv
    OBVIOUS
<1>1. TypeOK
      BY InitTypeOK
<1>2. stopping.plugin = 0 /\ stopping.slot = 0
      BY DEF Init, Nothing
<1>3. Coherent
      <2>1. \A p \in Plugin : p # 0
            BY BoundsAssumption DEF Plugin
      <2>2. QED
            BY <1>2, <2>1 DEF Init, Coherent
<1>4. QED
      BY <1>1, <1>3 DEF Init, LifecycleInv, LeaseMatchesConfig, CurrentSlotIsOpen, RetiredStaysStopped

(* Every action of Next keeps it: one step for each action.                 *)
LEMMA NextLifecycle == LifecycleInv /\ [Next]_vars => LifecycleInv'
<1> SUFFICES ASSUME LifecycleInv, [Next]_vars
             PROVE  LifecycleInv'
    OBVIOUS
<1> USE DEF vars, objects, request
<1>a. TypeOK /\ TypeOK'
      BY NextTypeOK DEF LifecycleInv
<1>b. /\ \A p \in Plugin : p \in Nat /\ p # 0
      /\ \A s \in Slot : s \in Nat /\ s # 0
      /\ 0 \notin Plugin /\ 0 \notin Slot
      /\ 0..MaxPlugin = Plugin \cup {0}
      /\ 0..MaxSlot = Slot \cup {0}
      BY BoundsAssumption DEF Plugin, Slot
<1>c. /\ config \in [Plugin -> Config \cup {NoConfig}]
      /\ helper \in [Plugin -> Slot \cup {0}]
      /\ path \in [Slot -> Paths \cup {"none"}]
      /\ slot \in [Slot -> Stage]
      /\ pc \in [Requests -> {"idle", "routed"} \cup Holding]
      /\ plugin \in [Requests -> Plugin \cup {0}]
      /\ lease \in [Requests -> Slot \cup {0}]
      /\ snapshot \in [Requests -> Config \cup {NoConfig}]
      /\ registered \in Plugin \cup {0}
      /\ stopping.plugin \in Plugin \cup {0}
      /\ stopping.slot \in Slot \cup {0}
      BY <1>a, <1>b DEF TypeOK
<1>d. Coherent /\ LeaseMatchesConfig /\ CurrentSlotIsOpen /\ RetiredStaysStopped
      BY DEF LifecycleInv
<1>1. CASE InitHost
      <2>1. Coherent'
            BY <1>1, <1>b, <1>c, <1>d DEF InitHost, Coherent
      <2>2. LeaseMatchesConfig'
            BY <1>1, <1>b, <1>c, <1>d DEF InitHost, Coherent, LeaseMatchesConfig
      <2>3. CurrentSlotIsOpen'
            BY <1>1, <1>b, <1>c, <1>d DEF InitHost, Coherent, CurrentSlotIsOpen
      <2>4. RetiredStaysStopped'
            BY <1>1, <1>b, <1>c, <1>d DEF InitHost, Coherent, RetiredStaysStopped
      <2>5. QED
            BY <1>a, <2>1, <2>2, <2>3, <2>4 DEF LifecycleInv
<1>2. ASSUME NEW p \in Plugin, NEW s \in Slot, NEW cfg \in Config, Register(p, s, cfg)
      PROVE  LifecycleInv'
      <2>1. Coherent'
            BY <1>2, <1>b, <1>c, <1>d, NoConfigIsNone
            DEF Register, Coherent, CurrentSlotIsOpen
      <2>2. LeaseMatchesConfig'
            BY <1>2, <1>b, <1>c, <1>d DEF Register, Coherent, LeaseMatchesConfig
      <2>3. CurrentSlotIsOpen'
            BY <1>2, <1>b, <1>c, <1>d DEF Register, Coherent, CurrentSlotIsOpen
      <2>4. RetiredStaysStopped'
            BY <1>2, <1>b, <1>c, <1>d DEF Register, Coherent, RetiredStaysStopped
      <2>5. QED
            BY <1>a, <2>1, <2>2, <2>3, <2>4 DEF LifecycleInv
<1>3. ASSUME NEW p \in Plugin, NEW cfg \in Config, ReconfigureInPlace(p, cfg)
      PROVE  LifecycleInv'
      <2>1. Coherent'
            BY <1>3, <1>b, <1>c, <1>d, NoConfigIsNone DEF ReconfigureInPlace, Coherent
      <2>2. LeaseMatchesConfig'
            BY <1>3, <1>b, <1>c, <1>d DEF ReconfigureInPlace, Coherent, LeaseMatchesConfig
      <2>3. CurrentSlotIsOpen'
            BY <1>3, <1>b, <1>c, <1>d DEF ReconfigureInPlace, Coherent, CurrentSlotIsOpen
      <2>4. RetiredStaysStopped'
            BY <1>3, <1>b, <1>c, <1>d DEF ReconfigureInPlace, Coherent, RetiredStaysStopped
      <2>5. QED
            BY <1>a, <2>1, <2>2, <2>3, <2>4 DEF LifecycleInv
<1>4. ASSUME NEW p \in Plugin, NEW s \in Slot, NEW cfg \in Config,
             ReconfigureSwap(p, s, cfg)
      PROVE  LifecycleInv'
      <2>1. Coherent'
            BY <1>4, <1>b, <1>c, <1>d, NoConfigIsNone
            DEF ReconfigureSwap, Coherent, CurrentSlotIsOpen
      <2>2. LeaseMatchesConfig'
            BY <1>4, <1>b, <1>c, <1>d DEF ReconfigureSwap, Coherent, LeaseMatchesConfig
      <2>3. CurrentSlotIsOpen'
            BY <1>4, <1>b, <1>c, <1>d DEF ReconfigureSwap, Coherent, CurrentSlotIsOpen
      <2>4. RetiredStaysStopped'
            BY <1>4, <1>b, <1>c, <1>d DEF ReconfigureSwap, Coherent, RetiredStaysStopped
      <2>5. QED
            BY <1>a, <2>1, <2>2, <2>3, <2>4 DEF LifecycleInv
<1>5. CASE ShutdownTakePlugin
      <2>1. Coherent'
            BY <1>5, <1>b, <1>c, <1>d DEF ShutdownTakePlugin, Coherent
      <2>2. LeaseMatchesConfig'
            BY <1>5, <1>b, <1>c, <1>d DEF ShutdownTakePlugin, Coherent, LeaseMatchesConfig
      <2>3. CurrentSlotIsOpen'
            BY <1>5, <1>b, <1>c, <1>d DEF ShutdownTakePlugin, Coherent, CurrentSlotIsOpen
      <2>4. RetiredStaysStopped'
            BY <1>5, <1>b, <1>c, <1>d DEF ShutdownTakePlugin, Coherent, RetiredStaysStopped
      <2>5. QED
            BY <1>a, <2>1, <2>2, <2>3, <2>4 DEF LifecycleInv
<1>6. CASE ShutdownTakeSlot
      <2>1. Coherent'
            BY <1>6, <1>b, <1>c, <1>d DEF ShutdownTakeSlot, Coherent
      <2>2. LeaseMatchesConfig'
            BY <1>6, <1>b, <1>c, <1>d DEF ShutdownTakeSlot, Coherent, LeaseMatchesConfig
      <2>3. CurrentSlotIsOpen'
            BY <1>6, <1>b, <1>c, <1>d DEF ShutdownTakeSlot, Coherent, CurrentSlotIsOpen
      <2>4. RetiredStaysStopped'
            BY <1>6, <1>b, <1>c, <1>d DEF ShutdownTakeSlot, Coherent, RetiredStaysStopped
      <2>5. QED
            BY <1>a, <2>1, <2>2, <2>3, <2>4 DEF LifecycleInv
<1>7. CASE ShutdownClose
      <2>1. Coherent'
            BY <1>7, <1>b, <1>c, <1>d DEF ShutdownClose, Coherent, Nothing
      <2>2. LeaseMatchesConfig'
            BY <1>7, <1>b, <1>c, <1>d DEF ShutdownClose, Coherent, LeaseMatchesConfig
      <2>3. CurrentSlotIsOpen'
            BY <1>7, <1>b, <1>c, <1>d DEF ShutdownClose, Coherent, CurrentSlotIsOpen
      <2>4. RetiredStaysStopped'
            BY <1>7, <1>b, <1>c, <1>d DEF ShutdownClose, Coherent, RetiredStaysStopped
      <2>5. QED
            BY <1>a, <2>1, <2>2, <2>3, <2>4 DEF LifecycleInv
<1>8. ASSUME NEW r \in Requests, TakePlugin(r)
      PROVE  LifecycleInv'
      <2>1. Coherent'
            BY <1>8, <1>b, <1>c, <1>d DEF TakePlugin, Coherent
      <2>2. LeaseMatchesConfig'
            BY <1>8, <1>b, <1>c, <1>d DEF TakePlugin, Coherent, LeaseMatchesConfig
      <2>3. CurrentSlotIsOpen'
            BY <1>8, <1>b, <1>c, <1>d DEF TakePlugin, Coherent, CurrentSlotIsOpen
      <2>4. RetiredStaysStopped'
            BY <1>8, <1>b, <1>c, <1>d DEF TakePlugin, Coherent, RetiredStaysStopped
      <2>5. QED
            BY <1>a, <2>1, <2>2, <2>3, <2>4 DEF LifecycleInv
<1>9. ASSUME NEW r \in Requests, AcquireNothing(r)
      PROVE  LifecycleInv'
      <2>1. Coherent'
            BY <1>9, <1>b, <1>c, <1>d DEF AcquireNothing, Coherent
      <2>2. LeaseMatchesConfig'
            BY <1>9, <1>b, <1>c, <1>d DEF AcquireNothing, Coherent, LeaseMatchesConfig
      <2>3. CurrentSlotIsOpen'
            BY <1>9, <1>b, <1>c, <1>d DEF AcquireNothing, Coherent, CurrentSlotIsOpen
      <2>4. RetiredStaysStopped'
            BY <1>9, <1>b, <1>c, <1>d DEF AcquireNothing, Coherent, RetiredStaysStopped
      <2>5. QED
            BY <1>a, <2>1, <2>2, <2>3, <2>4 DEF LifecycleInv
<1>10. ASSUME NEW r \in Requests, Acquire(r)
       PROVE  LifecycleInv'
       <2>a. /\ plugin[r] \in Plugin
             /\ helper[plugin[r]] \in Slot
             /\ slot[helper[plugin[r]]] = "open"
             /\ config[plugin[r]].path = path[helper[plugin[r]]]
             <3>1. plugin[r] \in Plugin
                   BY <1>10, <1>a, <1>c DEF Acquire, TypeOK
             <3>2. helper[plugin[r]] \in Slot
                   BY <1>10, <1>c, <3>1 DEF Acquire
             <3>3. QED
                   BY <1>b, <1>d, <3>1, <3>2 DEF Coherent, CurrentSlotIsOpen
       <2>1. Coherent'
             BY <1>10, <1>c, <1>d, <2>a DEF Acquire, Coherent
       <2>2. LeaseMatchesConfig'
             BY <1>10, <1>c, <1>d, <2>a DEF Acquire, LeaseMatchesConfig
       <2>3. CurrentSlotIsOpen'
             BY <1>10, <1>b, <1>c, <1>d DEF Acquire, Coherent, CurrentSlotIsOpen
       <2>4. RetiredStaysStopped'
             BY <1>10, <1>b, <1>c, <1>d DEF Acquire, Coherent, RetiredStaysStopped
       <2>5. QED
             BY <1>a, <2>1, <2>2, <2>3, <2>4 DEF LifecycleInv
<1>11. ASSUME NEW r \in Requests, LoadCredentials(r)
       PROVE  LifecycleInv'
       <2>1. Coherent'
             BY <1>11, <1>b, <1>c, <1>d DEF LoadCredentials, Coherent
       <2>2. LeaseMatchesConfig'
             BY <1>11, <1>b, <1>c, <1>d DEF LoadCredentials, Coherent, LeaseMatchesConfig
       <2>3. CurrentSlotIsOpen'
             BY <1>11, <1>b, <1>c, <1>d DEF LoadCredentials, Coherent, CurrentSlotIsOpen
       <2>4. RetiredStaysStopped'
             BY <1>11, <1>b, <1>c, <1>d DEF LoadCredentials, Coherent, RetiredStaysStopped
       <2>5. QED
             BY <1>a, <2>1, <2>2, <2>3, <2>4 DEF LifecycleInv
<1>12. ASSUME NEW r \in Requests, CallStartsHelper(r)
       PROVE  LifecycleInv'
       <2>1. Coherent'
             BY <1>12, <1>b, <1>c, <1>d DEF CallStartsHelper, Coherent
       <2>2. LeaseMatchesConfig'
             BY <1>12, <1>b, <1>c, <1>d DEF CallStartsHelper, Coherent, LeaseMatchesConfig
       <2>3. CurrentSlotIsOpen'
             BY <1>12, <1>b, <1>c, <1>d DEF CallStartsHelper, Coherent, CurrentSlotIsOpen
       <2>4. RetiredStaysStopped'
             BY <1>12, <1>b, <1>c, <1>d DEF CallStartsHelper, Coherent, RetiredStaysStopped
       <2>5. QED
             BY <1>a, <2>1, <2>2, <2>3, <2>4 DEF LifecycleInv
<1>13. ASSUME NEW r \in Requests, Retry(r)
       PROVE  LifecycleInv'
       <2>1. Coherent'
             BY <1>13, <1>b, <1>c, <1>d DEF Retry, Coherent
       <2>2. LeaseMatchesConfig'
             BY <1>13, <1>b, <1>c, <1>d DEF Retry, Coherent, LeaseMatchesConfig
       <2>3. CurrentSlotIsOpen'
             BY <1>13, <1>b, <1>c, <1>d DEF Retry, Coherent, CurrentSlotIsOpen
       <2>4. RetiredStaysStopped'
             BY <1>13, <1>b, <1>c, <1>d DEF Retry, Coherent, RetiredStaysStopped
       <2>5. QED
             BY <1>a, <2>1, <2>2, <2>3, <2>4 DEF LifecycleInv
<1>14. ASSUME NEW r \in Requests, Release(r)
       PROVE  LifecycleInv'
       <2>1. Coherent'
             BY <1>14, <1>b, <1>c, <1>d DEF Release, Coherent
       <2>2. LeaseMatchesConfig'
             BY <1>14, <1>b, <1>c, <1>d DEF Release, Coherent, LeaseMatchesConfig
       <2>3. CurrentSlotIsOpen'
             BY <1>14, <1>b, <1>c, <1>d DEF Release, Coherent, CurrentSlotIsOpen
       <2>4. RetiredStaysStopped'
             BY <1>14, <1>b, <1>c, <1>d DEF Release, Coherent, RetiredStaysStopped
       <2>5. QED
             BY <1>a, <2>1, <2>2, <2>3, <2>4 DEF LifecycleInv
<1>15. ASSUME NEW s \in Slot, Retire(s)
       PROVE  LifecycleInv'
       <2>1. Coherent'
             BY <1>15, <1>b, <1>c, <1>d DEF Retire, Coherent, Leases
       <2>2. LeaseMatchesConfig'
             BY <1>15, <1>b, <1>c, <1>d DEF Retire, Coherent, LeaseMatchesConfig
       <2>3. CurrentSlotIsOpen'
             BY <1>15, <1>b, <1>c, <1>d DEF Retire, Coherent, CurrentSlotIsOpen
       <2>4. RetiredStaysStopped'
             BY <1>15, <1>b, <1>c, <1>d DEF Retire, Coherent, RetiredStaysStopped
       <2>5. QED
             BY <1>a, <2>1, <2>2, <2>3, <2>4 DEF LifecycleInv
<1>16. ASSUME NEW s \in Slot, HelperFails(s)
       PROVE  LifecycleInv'
       <2>1. Coherent'
             BY <1>16, <1>b, <1>c, <1>d DEF HelperFails, Coherent
       <2>2. LeaseMatchesConfig'
             BY <1>16, <1>b, <1>c, <1>d DEF HelperFails, Coherent, LeaseMatchesConfig
       <2>3. CurrentSlotIsOpen'
             BY <1>16, <1>b, <1>c, <1>d DEF HelperFails, Coherent, CurrentSlotIsOpen
       <2>4. RetiredStaysStopped'
             BY <1>16, <1>b, <1>c, <1>d DEF HelperFails, Coherent, RetiredStaysStopped
       <2>5. QED
             BY <1>a, <2>1, <2>2, <2>3, <2>4 DEF LifecycleInv
<1>17. CASE UNCHANGED vars
       <2>1. Coherent' /\ LeaseMatchesConfig' /\ CurrentSlotIsOpen' /\ RetiredStaysStopped'
             BY <1>17, <1>d
             DEF Coherent, LeaseMatchesConfig, CurrentSlotIsOpen, RetiredStaysStopped
       <2>2. QED
             BY <1>a, <2>1 DEF LifecycleInv
<1>18. ASSUME NEW s \in Slot, RetireWait(s)
       PROVE  LifecycleInv'
       <2>1. Coherent'
             BY <1>18, <1>b, <1>c, <1>d DEF RetireWait, Coherent, Leases
       <2>2. LeaseMatchesConfig'
             BY <1>18, <1>b, <1>c, <1>d DEF RetireWait, Coherent, LeaseMatchesConfig
       <2>3. CurrentSlotIsOpen'
             BY <1>18, <1>b, <1>c, <1>d DEF RetireWait, Coherent, CurrentSlotIsOpen
       <2>4. RetiredStaysStopped'
             BY <1>18, <1>b, <1>c, <1>d DEF RetireWait, Coherent, RetiredStaysStopped
       <2>5. QED
             BY <1>a, <2>1, <2>2, <2>3, <2>4 DEF LifecycleInv
<1>19. QED
       BY <1>1, <1>2, <1>3, <1>4, <1>5, <1>6, <1>7, <1>8, <1>9, <1>10, <1>11, <1>12,
          <1>13, <1>14, <1>15, <1>16, <1>17, <1>18
       DEF Next, Lifecycle, Shutdown, Execute

(* The inductive invariant holds in every reachable state. *)
THEOREM InductiveInvariant == Spec => []LifecycleInv
<1>1. LifecycleInv /\ [Next]_vars => LifecycleInv'
      BY NextLifecycle
<1>2. QED
      BY <1>1, InitLifecycle, PTL DEF Spec

(* The helper path in the configuration a request took is the one its slot   *)
(* was made with.                                                            *)
THEOREM RequestsRunWithTheirConfiguration == Spec => []LeaseMatchesConfig
<1>1. LifecycleInv => LeaseMatchesConfig
      BY DEF LifecycleInv
<1>2. QED
      BY <1>1, InductiveInvariant, PTL

(* acquireHelper never hands out a slot that is retiring or closed, nor one  *)
(* that another plugin object has.                                           *)
THEOREM NewRequestsGetAnOpenSlot == Spec => []CurrentSlotIsOpen
<1>1. LifecycleInv => CurrentSlotIsOpen
      BY DEF LifecycleInv
<1>2. QED
      BY <1>1, InductiveInvariant, PTL

(* No request can start the helper of a slot retire has closed.              *)
THEOREM RetiredHelpersStayStopped == Spec => []RetiredStaysStopped
<1>1. LifecycleInv => RetiredStaysStopped
      BY DEF LifecycleInv
<1>2. QED
      BY <1>1, InductiveInvariant, PTL

-----------------------------------------------------------------------------
(* Action properties. *)

(* Only the last step of shutdown closes a slot that still has leases: those *)
(* retire waited for are gone when it closes, and none came in between, as   *)
(* the slot is no longer the one that new requests get.                      *)
THEOREM RetireWaits == Spec => RetirementWaitsForLeases
<1> DEFINE Waits == \A s \in Slot :
                      slot[s] \notin Closed /\ slot'[s] \in Closed /\ Leases(s) # {}
                        => slot[s] = "shutting"
<1>1. LifecycleInv /\ [Next]_vars => [Waits]_vars
      <2> SUFFICES ASSUME LifecycleInv, Next, NEW s \in Slot,
                          slot[s] \notin Closed, slot'[s] \in Closed, Leases(s) # {}
                   PROVE  slot[s] = "shutting"
          OBVIOUS
      <2>1. /\ slot \in [Slot -> Stage]
            /\ slot'[s] # slot[s]
            /\ slot'[s] \notin {"open", "retiring", "drained", "shutting"}
            BY DEF LifecycleInv, TypeOK, Closed
      <2>2. CASE ShutdownClose
            BY <2>1, <2>2 DEF ShutdownClose, LifecycleInv, Coherent
      <2>3. ASSUME NEW t \in Slot, Retire(t)
            PROVE  FALSE
            <3>1. t = s /\ slot[s] = "drained"
                  BY <2>1, <2>3 DEF Retire
            <3>2. PICK r \in Requests : lease[r] = s
                  BY DEF Leases
            <3>3. QED
                  BY <3>1, <3>2 DEF LifecycleInv, Coherent, Slot
      <2>4. CASE Lifecycle \/ ShutdownTakePlugin \/ ShutdownTakeSlot
            BY <2>1, <2>4
            DEF Lifecycle, InitHost, Register, ReconfigureInPlace, ReconfigureSwap,
                ShutdownTakePlugin, ShutdownTakeSlot
      <2>5. ASSUME \/ \E r \in Requests : Execute(r)
                   \/ \E t \in Slot : RetireWait(t) \/ HelperFails(t)
            PROVE  FALSE
            BY <2>1, <2>5
            DEF Execute, RetireWait, HelperFails, TakePlugin, AcquireNothing, Acquire,
                LoadCredentials, CallStartsHelper, Retry, Release
      <2>6. QED
            BY <2>2, <2>3, <2>4, <2>5 DEF Next, Shutdown
<1>2. QED
      BY <1>1, InductiveInvariant, PTL DEF Spec, RetirementWaitsForLeases

(* A lease is only ever taken on an open slot, so that Add never races with  *)
(* the Wait of retire.                                                       *)
THEOREM LeasesAreTimely == Spec => NoLateLease
<1> DEFINE Timely == \A r \in Requests, s \in Slot :
                       lease[r] # s /\ lease'[r] = s => slot[s] = "open"
<1>1. LifecycleInv /\ [Next]_vars => [Timely]_vars
      <2> SUFFICES ASSUME LifecycleInv, Next, NEW r \in Requests, NEW s \in Slot,
                          lease[r] # s, lease'[r] = s
                   PROVE  slot[s] = "open"
          OBVIOUS
      <2>1. lease \in [Requests -> 0..MaxSlot] /\ s # 0
            BY BoundsAssumption DEF LifecycleInv, TypeOK, Slot
      <2>2. ASSUME NEW q \in Requests, Acquire(q)
            PROVE  slot[s] = "open"
            <3>1. plugin[q] \in Plugin
                  BY <2>2, BoundsAssumption DEF Acquire, LifecycleInv, TypeOK, Plugin
            <3>2. s = helper[plugin[q]]
                  BY <2>1, <2>2 DEF Acquire
            <3>3. QED
                  BY <2>1, <3>1, <3>2 DEF LifecycleInv, CurrentSlotIsOpen
      <2>3. ASSUME NEW q \in Requests, Release(q)
            PROVE  FALSE
            BY <2>1, <2>3 DEF Release
      <2>4. ASSUME \/ Lifecycle
                   \/ Shutdown
                   \/ \E t \in Slot : RetireWait(t) \/ Retire(t) \/ HelperFails(t)
            PROVE  FALSE
            BY <2>4
            DEF Lifecycle, Shutdown, request, InitHost, Register, ReconfigureInPlace,
                ReconfigureSwap, ShutdownTakePlugin, ShutdownTakeSlot, ShutdownClose,
                RetireWait, Retire, HelperFails
      <2>5. ASSUME NEW q \in Requests,
                   \/ TakePlugin(q) \/ AcquireNothing(q) \/ LoadCredentials(q)
                   \/ CallStartsHelper(q) \/ Retry(q)
            PROVE  FALSE
            BY <2>5
            DEF request, TakePlugin, AcquireNothing, LoadCredentials,
                CallStartsHelper, Retry
      <2>6. QED
            BY <2>2, <2>3, <2>4, <2>5 DEF Next, Execute
<1>2. QED
      BY <1>1, InductiveInvariant, PTL DEF Spec, NoLateLease

(* A reconfiguration that leaves the helper path alone keeps the slot.       *)
THEOREM ReloadsKeepTheirHelper == Spec => ReloadKeepsHelper
<1> DEFINE Keeps == \A p \in Plugin :
                      helper[p] # 0 /\ helper'[p] \notin {0, helper[p]}
                        => config'[p].path # config[p].path
<1>1. LifecycleInv /\ [Next]_vars => [Keeps]_vars
      <2> SUFFICES ASSUME LifecycleInv, Next, NEW p \in Plugin,
                          helper[p] # 0, helper'[p] \notin {0, helper[p]}
                   PROVE  config'[p].path # config[p].path
          OBVIOUS
      <2>1. /\ helper \in [Plugin -> 0..MaxSlot]
            /\ config \in [Plugin -> Config \cup {NoConfig}]
            /\ config[p] # NoConfig
            /\ config[p].path = path[helper[p]]
            BY DEF LifecycleInv, TypeOK, Coherent
      <2>2. ASSUME NEW q \in Plugin, NEW s \in Slot, NEW cfg \in Config,
                   Register(q, s, cfg)
            PROVE  FALSE
            BY <2>1, <2>2 DEF Register
      <2>3. ASSUME NEW q \in Plugin, NEW s \in Slot, NEW cfg \in Config,
                   ReconfigureSwap(q, s, cfg)
            PROVE  config'[p].path # config[p].path
            BY <2>1, <2>3 DEF ReconfigureSwap
      <2>4. ASSUME \/ InitHost
                   \/ \E q \in Plugin, cfg \in Config : ReconfigureInPlace(q, cfg)
                   \/ ShutdownTakePlugin
                   \/ ShutdownClose
                   \/ \E t \in Slot : RetireWait(t) \/ Retire(t) \/ HelperFails(t)
            PROVE  FALSE
            BY <2>4
            DEF objects, InitHost, ReconfigureInPlace, ShutdownTakePlugin,
                ShutdownClose, RetireWait, Retire, HelperFails
      <2>5. CASE ShutdownTakeSlot
            BY <2>1, <2>5 DEF ShutdownTakeSlot
      <2>6. ASSUME \E r \in Requests : Execute(r)
            PROVE  FALSE
            BY <2>6
            DEF objects, Execute, TakePlugin, AcquireNothing, Acquire,
                LoadCredentials, CallStartsHelper, Retry, Release
      <2>7. QED
            BY <2>2, <2>3, <2>4, <2>5, <2>6 DEF Next, Lifecycle, Shutdown
<1>2. QED
      BY <1>1, InductiveInvariant, PTL DEF Spec, ReloadKeepsHelper

-----------------------------------------------------------------------------
(* PluginLifecycle implements HelperLeases.  Plugin objects, the host's      *)
(* table, what a shutdown has in hand and where a request is do not occur    *)
(* there: their steps are stutters, and the steps on slots and leases are    *)
(* those of HelperLeases, since an object holds an open slot of its path.    *)

(* Steps that leave leases alone change no users. *)
LEMMA SameUsers ==
    ASSUME UNCHANGED <<lease, snapshot>>
    PROVE  UNCHANGED <<Users, Wants>>
BY DEF Users, Wants, Leases

(* What HelperLeases sees of a slot's stage; only the end of retire's Wait   *)
(* escapes it.                                                               *)
LEMMA StageSeen ==
    ASSUME TypeOK, NEW s \in Slot, slot[s] # "drained"
    PROVE  Stages[s] = slot[s]
BY DEF Stages

LEMMA StageFollows ==
    ASSUME TypeOK, NEW s \in Slot, NEW stage \in Stage \ {"drained"},
           slot' = [slot EXCEPT ![s] = stage]
    PROVE  Stages' = [Stages EXCEPT ![s] = stage]
BY DEF TypeOK, Stages

LEMMA StagesStay ==
    ASSUME \/ UNCHANGED slot
           \/ TypeOK /\ \E s \in Slot : RetireWait(s)
    PROVE  UNCHANGED Stages
<1>1. CASE UNCHANGED slot
      BY <1>1 DEF Stages
<1>2. ASSUME TypeOK, NEW s \in Slot, RetireWait(s)
      PROVE  UNCHANGED Stages
      BY <1>2 DEF RetireWait, TypeOK, Stages
<1>3. QED
      BY <1>1, <1>2

(* The slot an object holds, as new requests and reconfigurations find it. *)
LEMMA HeldSlot ==
    ASSUME LifecycleInv, NEW p \in Plugin, helper[p] # 0
    PROVE  /\ helper[p] \in Slot
           /\ slot[helper[p]] = "open"
           /\ config[p] # NoConfig
           /\ config[p].path = path[helper[p]]
<1>1. helper[p] \in 0..MaxSlot
      BY DEF LifecycleInv, TypeOK
<1>2. helper[p] \in Slot
      BY <1>1, BoundsAssumption DEF Slot
<1>3. QED
      BY <1>2 DEF LifecycleInv, Coherent, CurrentSlotIsOpen

(* Registration opens a slot, *)
LEMMA RegisterOpens ==
    ASSUME LifecycleInv, NEW p \in Plugin, NEW s \in Slot, NEW cfg \in Config, Register(p, s, cfg)
    PROVE  HelperSlots!Next
<1>1. cfg.path \in Paths
      BY DEF Config
<1>2. HelperSlots!Open(s, cfg.path)
      <2>1. Stages[s] = "unused" /\ Stages' = [Stages EXCEPT ![s] = "open"]
            BY StageSeen, StageFollows DEF Register, LifecycleInv, Stage
      <2>2. QED
            BY <2>1, SameUsers DEF Register, HelperSlots!Open, request
<1>3. QED
      BY <1>1, <1>2 DEF HelperSlots!Next

(* a reconfiguration with another path replaces it, *)
LEMMA SwapReplaces ==
    ASSUME LifecycleInv, NEW p \in Plugin, NEW s \in Slot, NEW cfg \in Config,
           ReconfigureSwap(p, s, cfg)
    PROVE  HelperSlots!Next
<1>1. cfg.path \in Paths
      BY DEF Config
<1>2. helper[p] \in Slot /\ slot[helper[p]] = "open"
      BY HeldSlot DEF ReconfigureSwap
<1>3. HelperSlots!Replace(helper[p], s, cfg.path)
      <2>1. Stages[helper[p]] = "open" /\ Stages[s] = "unused"
            BY <1>2, StageSeen DEF ReconfigureSwap, LifecycleInv
      <2>2. Stages' = [Stages EXCEPT ![s] = "open", ![helper[p]] = "retiring"]
            BY <1>2 DEF ReconfigureSwap, LifecycleInv, TypeOK, Stages
      <2>3. QED
            BY <2>1, <2>2, SameUsers DEF ReconfigureSwap, HelperSlots!Replace, request
<1>4. QED
      BY <1>1, <1>2, <1>3 DEF HelperSlots!Next

(* and the goroutine of retire closes it once nobody uses it. *)
LEMMA RetireRetires ==
    ASSUME LifecycleInv, NEW s \in Slot, Retire(s)
    PROVE  HelperSlots!Next
<1>1. Users[s] = {}
      BY DEF Retire, LifecycleInv, Coherent, Users, Leases, Slot
<1>2. HelperSlots!Retire(s)
      <2>1. Stages[s] = "retiring" /\ Stages' = [Stages EXCEPT ![s] = "retired"]
            BY StageFollows DEF Retire, LifecycleInv, Stage, Stages
      <2>2. QED
            BY <1>1, <2>1, SameUsers DEF Retire, HelperSlots!Retire, objects, request
<1>3. QED
      BY <1>2 DEF HelperSlots!Next

(* Shutdown takes an open slot from its object, *)
LEMMA TakeSlotShuts ==
    ASSUME LifecycleInv, ShutdownTakeSlot
    PROVE  HelperSlots!Next
<1> DEFINE s == helper[stopping.plugin]
<1>1. stopping.plugin \in Plugin
      BY BoundsAssumption DEF ShutdownTakeSlot, LifecycleInv, TypeOK, Plugin
<1>2. s # 0
      BY <1>1 DEF LifecycleInv, Coherent
<1>3. s \in Slot /\ slot[s] = "open"
      BY <1>1, <1>2, HeldSlot
<1>4. HelperSlots!Shutting(s)
      <2>1. Stages[s] = "open" /\ Stages' = [Stages EXCEPT ![s] = "shutting"]
            BY <1>3, StageSeen, StageFollows DEF ShutdownTakeSlot, LifecycleInv, Stage
      <2>2. QED
            BY <2>1, SameUsers DEF ShutdownTakeSlot, HelperSlots!Shutting, request
<1>5. QED
      BY <1>3, <1>4 DEF HelperSlots!Next

(* and closes it whoever uses it. *)
LEMMA CloseShuts ==
    ASSUME LifecycleInv, ShutdownClose
    PROVE  HelperSlots!Next
<1> DEFINE s == stopping.slot
<1>1. s \in Slot
      BY BoundsAssumption DEF ShutdownClose, LifecycleInv, TypeOK, Slot
<1>2. slot[s] = "shutting"
      BY DEF ShutdownClose, LifecycleInv, Coherent
<1>3. HelperSlots!Shut(s)
      <2>1. Stages[s] = "shutting" /\ Stages' = [Stages EXCEPT ![s] = "shut"]
            BY <1>1, <1>2, StageSeen, StageFollows DEF ShutdownClose, LifecycleInv, Stage
      <2>2. QED
            BY <2>1, SameUsers DEF ShutdownClose, HelperSlots!Shut, objects, request
<1>4. QED
      BY <1>1, <1>3 DEF HelperSlots!Next

(* acquireHelper lets a request join, with the path of its configuration, *)
LEMMA AcquireJoins ==
    ASSUME LifecycleInv, NEW r \in Requests, Acquire(r)
    PROVE  HelperSlots!Next
<1> DEFINE s == helper[plugin[r]]
<1>1. plugin[r] \in Plugin
      BY BoundsAssumption DEF Acquire, LifecycleInv, TypeOK, Plugin
<1>2. /\ s \in Slot /\ slot[s] = "open"
      /\ config[plugin[r]].path = path[s]
      BY <1>1, HeldSlot DEF Acquire
<1>3. /\ lease \in [Requests -> 0..MaxSlot]
      /\ snapshot \in [Requests -> Config \cup {NoConfig}]
      /\ lease[r] = 0
      BY DEF Acquire, LifecycleInv, TypeOK, Holding
<1>4. 0 \notin Slot
      BY DEF Slot
<1>5. \A t \in Slot : r \notin Users[t]
      BY <1>3, <1>4 DEF Users, Leases
<1>6. Users' = [Users EXCEPT ![s] = @ \cup {r}]
      <2>1. lease' = [lease EXCEPT ![r] = s]
            BY DEF Acquire
      <2>2. ASSUME NEW t \in Slot
            PROVE  Leases(t)' = IF t = s THEN Leases(t) \cup {r} ELSE Leases(t)
            BY <1>3, <1>4, <2>1 DEF Leases
      <2>3. QED
            BY <1>2, <2>2 DEF Users
<1>7. Wants' = [Wants EXCEPT ![r] = path[s]]
      <2>1. snapshot' = [snapshot EXCEPT ![r] = config[plugin[r]]]
            BY DEF Acquire
      <2>2. QED
            BY <1>2, <1>3, <2>1 DEF Wants
<1>8. HelperSlots!Join(r, s)
      BY <1>2, <1>5, <1>6, <1>7, StageSeen, StagesStay
      DEF Acquire, LifecycleInv, objects, HelperSlots!Join
<1>9. QED
      BY <1>2, <1>8 DEF HelperSlots!Next

(* and the end of a request lets it leave. *)
LEMMA ReleaseLeaves ==
    ASSUME LifecycleInv, NEW r \in Requests, Release(r)
    PROVE  HelperSlots!Next
<1> DEFINE s == lease[r]
<1>1. /\ lease \in [Requests -> 0..MaxSlot]
      /\ snapshot \in [Requests -> Config \cup {NoConfig}]
      /\ s # 0
      BY DEF Release, LifecycleInv, TypeOK
<1>2. s \in Slot /\ 0 \notin Slot
      BY <1>1, BoundsAssumption DEF Slot
<1>3. r \in Users[s]
      BY <1>2 DEF Users, Leases
<1>4. Users' = [Users EXCEPT ![s] = @ \ {r}]
      <2>1. lease' = [lease EXCEPT ![r] = 0]
            BY DEF Release
      <2>2. ASSUME NEW t \in Slot
            PROVE  Leases(t)' = IF t = s THEN Leases(t) \ {r} ELSE Leases(t)
            BY <1>1, <1>2, <2>1 DEF Leases
      <2>3. QED
            BY <1>2, <2>2 DEF Users
<1>5. Wants' = [Wants EXCEPT ![r] = "none"]
      <2>1. snapshot' = [snapshot EXCEPT ![r] = NoConfig]
            BY DEF Release
      <2>2. QED
            BY <1>1, <2>1 DEF Wants, NoConfig
<1>6. HelperSlots!Leave(r, s)
      BY <1>3, <1>4, <1>5, StagesStay DEF Release, objects, HelperSlots!Leave
<1>7. QED
      BY <1>2, <1>6 DEF HelperSlots!Next

(* A process is started in a slot that has a user. *)
LEMMA CallStartsProcess ==
    ASSUME LifecycleInv, NEW r \in Requests, CallStartsHelper(r)
    PROVE  HelperSlots!Next
<1> DEFINE s == lease[r]
<1>1. s \in Slot
      BY BoundsAssumption DEF CallStartsHelper, LifecycleInv, TypeOK, Holding, Slot
<1>2. r \in Users[s]
      BY <1>1 DEF Users, Leases
<1>3. HelperSlots!StartProcess(s)
      BY <1>2, SameUsers, StagesStay
      DEF CallStartsHelper, HelperSlots!StartProcess, objects, request
<1>4. QED
      BY <1>1, <1>3 DEF HelperSlots!Next

LEMMA FailureFails ==
    ASSUME NEW s \in Slot, HelperFails(s)
    PROVE  HelperSlots!Next
<1>1. HelperSlots!ProcessFails(s)
      BY SameUsers, StagesStay DEF HelperFails, HelperSlots!ProcessFails, objects, request
<1>2. QED
      BY <1>1 DEF HelperSlots!Next

(* Everything else happens inside the plugin. *)
LEMMA OthersStutter ==
    ASSUME TypeOK,
           \/ InitHost
           \/ \E s \in Slot : RetireWait(s)
           \/ \E p \in Plugin, cfg \in Config : ReconfigureInPlace(p, cfg)
           \/ ShutdownTakePlugin
           \/ \E r \in Requests :
                TakePlugin(r) \/ AcquireNothing(r) \/ LoadCredentials(r) \/ Retry(r)
           \/ UNCHANGED vars
    PROVE  UNCHANGED HelperSlots!vars
<1>1. /\ UNCHANGED <<path, running, lease, snapshot>>
      /\ UNCHANGED slot \/ \E s \in Slot : RetireWait(s)
      BY DEF InitHost, RetireWait, ReconfigureInPlace, ShutdownTakePlugin, TakePlugin,
         AcquireNothing, LoadCredentials, Retry, vars, objects, request
<1>2. QED
      BY <1>1, SameUsers, StagesStay DEF HelperSlots!vars

(* The plugin keeps what HelperLeases promises to requests: they join open   *)
(* helpers of their configuration's path only, a replaced helper finishes    *)
(* its requests and stays closed, and a process is started for a user, for   *)
(* any number of requests, plugin objects, slots and configurations.         *)
THEOREM PluginKeepsLeases == Spec => KeepsLeases
<1>1. Init => HelperSlots!Init
      <2> SUFFICES ASSUME Init
                   PROVE  HelperSlots!Init
          OBVIOUS
      <2>1. \A s \in Slot : s # 0
            BY DEF Slot
      <2>2. Users = [s \in Slot |-> {}]
            BY <2>1 DEF Init, Users, Leases
      <2>3. Wants = [r \in Requests |-> "none"]
            BY DEF Init, Wants, NoConfig
      <2>4. Stages = [s \in Slot |-> "unused"]
            BY DEF Init, Stages
      <2>5. QED
            BY <2>2, <2>3, <2>4 DEF Init, HelperSlots!Init
<1>2. LifecycleInv /\ [Next]_vars => [HelperSlots!Next]_(HelperSlots!vars)
      <2> SUFFICES ASSUME LifecycleInv, [Next]_vars
                   PROVE  HelperSlots!Next \/ UNCHANGED HelperSlots!vars
          OBVIOUS
      <2> TypeOK
          BY DEF LifecycleInv
      <2>1. CASE Lifecycle
            BY <2>1, RegisterOpens, SwapReplaces, OthersStutter DEF Lifecycle
      <2>2. CASE Shutdown
            BY <2>2, TakeSlotShuts, CloseShuts, OthersStutter DEF Shutdown
      <2>3. ASSUME NEW r \in Requests, Execute(r)
            PROVE  HelperSlots!Next \/ UNCHANGED HelperSlots!vars
            BY <2>3, AcquireJoins, ReleaseLeaves, CallStartsProcess, OthersStutter
            DEF Execute
      <2>4. ASSUME NEW s \in Slot, RetireWait(s) \/ Retire(s) \/ HelperFails(s)
            PROVE  HelperSlots!Next \/ UNCHANGED HelperSlots!vars
            BY <2>4, RetireRetires, FailureFails, OthersStutter
      <2>5. CASE UNCHANGED vars
            BY <2>5, OthersStutter
      <2>6. QED
            BY <2>1, <2>2, <2>3, <2>4, <2>5 DEF Next
<1>3. QED
      BY <1>1, <1>2, InductiveInvariant, PTL DEF Spec, KeepsLeases, HelperSlots!Spec
=============================================================================
