-------------------------- MODULE PluginLifecycle --------------------------
(***************************************************************************)
(* abi.go and plugin.go: who holds which helper while the host registers,   *)
(* reconfigures, calls and shuts down the plugin from several threads.      *)
(*                                                                          *)
(* The plugin object keeps one helperSlot.  A request takes a lease on it   *)
(* (acquireHelper: the WaitGroup of the slot) together with the             *)
(* configuration; a new helper path replaces the slot, and a goroutine      *)
(* closes the old one once its leases are gone (retire); shutdown closes    *)
(* the slot at once.  HelperClient models what is inside a slot; here a     *)
(* slot's client has a process or has none.                                 *)
(*                                                                          *)
(* register and reconfigure draw plugin objects and slots from a pool of    *)
(* unused ones, in their order; 0 is nil.                                   *)
(***************************************************************************)
EXTENDS Naturals, FiniteSets

CONSTANTS
    Requests,   \* host threads that execute image requests
    Paths,      \* helper paths
    Options,    \* values of everything else in the configuration
    MaxPlugin,  \* bound: how many plugin objects register may create
    MaxSlot     \* bound: how many slots may be created

Plugin == 1..MaxPlugin
Slot   == 1..MaxSlot
Config == [path : Paths, options : Options]

ASSUME BoundsAssumption == MaxPlugin \in Nat /\ MaxSlot \in Nat

(* A helper path is never empty (config.go), which "none" stands for. *)
ASSUME PathAssumption == "none" \notin Paths

VARIABLES
    callbacks,  \* whether abiState.host is set
    registered, \* abiState.plugin
    config,     \* the configuration of each plugin object
    helper,     \* the slot of each plugin object
    path,       \* the helper path each slot's client was made with
    slot,       \* the stage of each slot's life
    running,    \* the slots whose client holds a process
    pc,         \* where each request is
    plugin,     \* the plugin object a request took from abiState
    lease,      \* the slot a request holds a lease on
    snapshot,   \* the configuration a request took with its lease
    stopping    \* what CPAImagePluginShutdown still has to stop

objects == <<registered, config, helper, path>>
request == <<pc, plugin, lease, snapshot>>
vars    == <<callbacks, objects, slot, running, request, stopping>>

Stage    == {"unused", "open", "retiring", "drained", "retired", "shutting", "shut"}
Holding  == {"leased", "loaded"}
Closed   == {"retired", "shut"}
NoConfig == [path |-> "none", options |-> "none"]
Nothing  == [plugin |-> 0, slot |-> 0]

Leases(s) == {r \in Requests : lease[r] = s}

TypeOK ==
    /\ callbacks \in BOOLEAN
    /\ registered \in 0..MaxPlugin
    /\ config \in [Plugin -> Config \cup {NoConfig}]
    /\ helper \in [Plugin -> 0..MaxSlot]
    /\ path \in [Slot -> Paths \cup {"none"}]
    /\ slot \in [Slot -> Stage]
    /\ running \subseteq Slot
    /\ pc \in [Requests -> {"idle", "routed"} \cup Holding]
    /\ plugin \in [Requests -> 0..MaxPlugin]
    /\ lease \in [Requests -> 0..MaxSlot]
    /\ \A r \in Requests :
         /\ pc[r] = "routed" => plugin[r] # 0
         /\ lease[r] # 0 <=> pc[r] \in Holding
    /\ snapshot \in [Requests -> Config \cup {NoConfig}]
    /\ stopping \in [plugin : 0..MaxPlugin, slot : 0..MaxSlot]

Init ==
    /\ callbacks = FALSE
    /\ registered = 0
    /\ config = [p \in Plugin |-> NoConfig]
    /\ helper = [p \in Plugin |-> 0]
    /\ path = [s \in Slot |-> "none"]
    /\ slot = [s \in Slot |-> "unused"]
    /\ running = {}
    /\ pc = [r \in Requests |-> "idle"]
    /\ plugin = [r \in Requests |-> 0]
    /\ lease = [r \in Requests |-> 0]
    /\ snapshot = [r \in Requests |-> NoConfig]
    /\ stopping = Nothing

-----------------------------------------------------------------------------
(* plugin.register and plugin.reconfigure.  Both run under abiState.Lock,   *)
(* the second under p.mu as well.  A configuration that does not parse      *)
(* changes nothing.                                                         *)

(* cliproxy_plugin_init: the host hands over its function table. *)
InitHost ==
    /\ ~callbacks
    /\ callbacks' = TRUE
    /\ UNCHANGED <<objects, slot, running, request, stopping>>

(* newImagePlugin. *)
Register(p, s, cfg) ==
    /\ registered = 0
    /\ config[p] = NoConfig
    /\ slot[s] = "unused"
    /\ registered' = p
    /\ config' = [config EXCEPT ![p] = cfg]
    /\ helper' = [helper EXCEPT ![p] = s]
    /\ path' = [path EXCEPT ![s] = cfg.path]
    /\ slot' = [slot EXCEPT ![s] = "open"]
    /\ UNCHANGED <<callbacks, running, request, stopping>>

(* Mutant: a changed helper path is not noticed. *)
ReconfigureBlindly(p, cfg) ==
    /\ registered = p
    /\ helper[p] # 0
    /\ config' = [config EXCEPT ![p] = cfg]
    /\ UNCHANGED <<callbacks, registered, helper, path, slot, running, request, stopping>>

(* The same configuration, or another one with the same helper path: the    *)
(* slot stays.                                                              *)
ReconfigureInPlace(p, cfg) ==
    /\ registered = p
    /\ helper[p] # 0
    /\ path[helper[p]] = cfg.path
    /\ config' = [config EXCEPT ![p] = cfg]
    /\ UNCHANGED <<callbacks, registered, helper, path, slot, running, request, stopping>>

(* Mutant: every reconfiguration replaces the slot. *)
SwapAlways(p, s, cfg) ==
    /\ registered = p
    /\ helper[p] # 0
    /\ slot[s] = "unused"
    /\ config' = [config EXCEPT ![p] = cfg]
    /\ helper' = [helper EXCEPT ![p] = s]
    /\ path' = [path EXCEPT ![s] = cfg.path]
    /\ slot' = [slot EXCEPT ![s] = "open", ![helper[p]] = "retiring"]
    /\ UNCHANGED <<callbacks, registered, running, request, stopping>>

(* Mutant: the new slot is not stored in the plugin object. *)
SwapForgotten(p, s, cfg) ==
    /\ registered = p
    /\ helper[p] # 0
    /\ path[helper[p]] # cfg.path
    /\ slot[s] = "unused"
    /\ config' = [config EXCEPT ![p] = cfg]
    /\ path' = [path EXCEPT ![s] = cfg.path]
    /\ slot' = [slot EXCEPT ![s] = "open", ![helper[p]] = "retiring"]
    /\ UNCHANGED <<callbacks, registered, helper, running, request, stopping>>

(* Another helper path: new requests get a new slot, and a goroutine waits  *)
(* for the leases of the old one.                                           *)
ReconfigureSwap(p, s, cfg) ==
    /\ registered = p
    /\ helper[p] # 0
    /\ path[helper[p]] # cfg.path
    /\ slot[s] = "unused"
    /\ config' = [config EXCEPT ![p] = cfg]
    /\ helper' = [helper EXCEPT ![p] = s]
    /\ path' = [path EXCEPT ![s] = cfg.path]
    /\ slot' = [slot EXCEPT ![s] = "open", ![helper[p]] = "retiring"]
    /\ UNCHANGED <<callbacks, registered, running, request, stopping>>

(* The goroutine of retire: active.Wait returns once no lease is held, *)
RetireWait(s) ==
    /\ slot[s] = "retiring"
    /\ Leases(s) = {}
    /\ slot' = [slot EXCEPT ![s] = "drained"]
    /\ UNCHANGED <<callbacks, objects, running, request, stopping>>

(* and the goroutine closes the slot, without another look at its leases. *)
Retire(s) ==
    /\ slot[s] = "drained"
    /\ slot' = [slot EXCEPT ![s] = "retired"]
    /\ running' = running \ {s}
    /\ UNCHANGED <<callbacks, objects, request, stopping>>

-----------------------------------------------------------------------------
(* CPAImagePluginShutdown: forget the plugin object, take its slot, close   *)
(* the slot, in three critical sections.  The host runs one at a time.      *)

(* Without a plugin object it forgets the host's table only. *)
ShutdownTakePlugin ==
    /\ stopping = Nothing
    /\ stopping' = [plugin |-> registered, slot |-> 0]
    /\ registered' = 0
    /\ callbacks' = FALSE
    /\ UNCHANGED <<config, helper, path, slot, running, request>>

(* Mutant: the plugin object keeps its slot. *)
ShutdownKeepsSlot ==
    /\ stopping.plugin # 0
    /\ LET s == helper[stopping.plugin] IN
         /\ stopping' = [plugin |-> 0, slot |-> s]
         /\ slot' = [slot EXCEPT ![s] = "shutting"]
    /\ UNCHANGED <<callbacks, objects, running, request>>

ShutdownTakeSlot ==
    /\ stopping.plugin # 0
    /\ LET s == helper[stopping.plugin] IN
         /\ stopping' = [plugin |-> 0, slot |-> s]
         /\ slot' = [slot EXCEPT ![s] = "shutting"]
    /\ helper' = [helper EXCEPT ![stopping.plugin] = 0]
    /\ UNCHANGED <<callbacks, registered, config, path, running, request>>

(* close does not wait for the leases. *)
ShutdownClose ==
    /\ stopping.slot # 0
    /\ slot' = [slot EXCEPT ![stopping.slot] = "shut"]
    /\ running' = running \ {stopping.slot}
    /\ stopping' = Nothing
    /\ UNCHANGED <<callbacks, objects, request>>

-----------------------------------------------------------------------------
(* executor.execute and executor.execute_stream. *)

(* handleABIMethod copies abiState.plugin; without one it returns an error. *)
TakePlugin(r) ==
    /\ pc[r] = "idle"
    /\ registered # 0
    /\ pc' = [pc EXCEPT ![r] = "routed"]
    /\ plugin' = [plugin EXCEPT ![r] = registered]
    /\ UNCHANGED <<callbacks, objects, slot, running, lease, snapshot, stopping>>

(* The plugin was shut down in between: "the helper is not initialised". *)
AcquireNothing(r) ==
    /\ pc[r] = "routed"
    /\ helper[plugin[r]] = 0
    /\ pc' = [pc EXCEPT ![r] = "idle"]
    /\ plugin' = [plugin EXCEPT ![r] = 0]
    /\ UNCHANGED <<callbacks, objects, slot, running, lease, snapshot, stopping>>

(* acquireHelper: slot, lease and configuration under one read lock. *)
Acquire(r) ==
    /\ pc[r] = "routed"
    /\ helper[plugin[r]] # 0
    /\ pc' = [pc EXCEPT ![r] = "leased"]
    /\ lease' = [lease EXCEPT ![r] = helper[plugin[r]]]
    /\ snapshot' = [snapshot EXCEPT ![r] = config[plugin[r]]]
    /\ UNCHANGED <<callbacks, objects, slot, running, plugin, stopping>>

(* loadCredentials asks the host, and fails once the host table is gone. *)
LoadCredentials(r) ==
    /\ pc[r] = "leased"
    /\ callbacks
    /\ pc' = [pc EXCEPT ![r] = "loaded"]
    /\ UNCHANGED <<callbacks, objects, slot, running, plugin, lease, snapshot, stopping>>

(* Call finds no process and starts one; ensureStarted does not ask whether *)
(* the slot was closed.                                                     *)
CallStartsHelper(r) ==
    /\ pc[r] = "loaded"
    /\ lease[r] \notin running
    /\ running' = running \cup {lease[r]}
    /\ UNCHANGED <<callbacks, objects, slot, request, stopping>>

(* The answer was a 401: read the credentials again for another Call.       *)
Retry(r) ==
    /\ pc[r] = "loaded"
    /\ pc' = [pc EXCEPT ![r] = "leased"]
    /\ UNCHANGED <<callbacks, objects, slot, running, plugin, lease, snapshot, stopping>>

(* Mutant: the lease is not given back. *)
ReleaseForgotten(r) ==
    /\ pc[r] \in Holding
    /\ pc' = [pc EXCEPT ![r] = "idle"]
    /\ plugin' = [plugin EXCEPT ![r] = 0]
    /\ UNCHANGED <<callbacks, objects, slot, running, lease, snapshot, stopping>>

(* The request ends, with a result or an error. *)
Release(r) ==
    /\ pc[r] \in Holding
    /\ pc' = [pc EXCEPT ![r] = "idle"]
    /\ plugin' = [plugin EXCEPT ![r] = 0]
    /\ lease' = [lease EXCEPT ![r] = 0]
    /\ snapshot' = [snapshot EXCEPT ![r] = NoConfig]
    /\ UNCHANGED <<callbacks, objects, slot, running, stopping>>

(* failProcess: the client lost its process. *)
HelperFails(s) ==
    /\ s \in running
    /\ running' = running \ {s}
    /\ UNCHANGED <<callbacks, objects, slot, request, stopping>>

-----------------------------------------------------------------------------
(* The pools: the numbers before are in use. *)
NewPlugin(p) == \A q \in 1 .. p - 1 : config[q] # NoConfig
NewSlot(s)   == \A t \in 1 .. s - 1 : slot[t] # "unused"

Lifecycle ==
    \/ InitHost
    \/ \E p \in Plugin, cfg \in Config :
         \/ \E s \in Slot : NewPlugin(p) /\ NewSlot(s) /\ Register(p, s, cfg)
         \/ ReconfigureInPlace(p, cfg)
         \/ \E s \in Slot : NewSlot(s) /\ ReconfigureSwap(p, s, cfg)

Shutdown == ShutdownTakePlugin \/ ShutdownTakeSlot \/ ShutdownClose

Execute(r) ==
    \/ TakePlugin(r)
    \/ AcquireNothing(r)
    \/ Acquire(r)
    \/ LoadCredentials(r)
    \/ CallStartsHelper(r)
    \/ Retry(r)
    \/ Release(r)

Next ==
    \/ Lifecycle
    \/ Shutdown
    \/ \E r \in Requests : Execute(r)
    \/ \E s \in Slot : RetireWait(s) \/ Retire(s) \/ HelperFails(s)

Spec == Init /\ [][Next]_vars

(* The retire goroutine runs once it can, and every request ends: its       *)
(* context has a deadline (executor.go:43).                                 *)
FairSpec ==
    /\ Spec
    /\ \A s \in Slot : WF_vars(RetireWait(s)) /\ WF_vars(Retire(s))
    /\ \A r \in Requests : WF_vars(Release(r))

-----------------------------------------------------------------------------
(* The configuration a request runs with belongs to the helper it leased,   *)
(* however requests and reconfigurations interleave (the point of taking    *)
(* both under one read lock in acquireHelper).                              *)
LeaseMatchesConfig ==
    \A r \in Requests : lease[r] # 0 => snapshot[r].path = path[lease[r]]

(* What holds the other invariants together.  An unused object or slot has  *)
(* left no trace; the configuration of an object is that of its slot; the   *)
(* registered object, and one that shutdown has yet to stop, have a slot;   *)
(* and nobody holds a lease on a slot once retire has waited for them all.  *)
Coherent ==
    /\ \A p \in Plugin :
         /\ config[p] = NoConfig =>
              helper[p] = 0 /\ registered # p /\ stopping.plugin # p
         /\ helper[p] # 0 => config[p].path = path[helper[p]]
         /\ p \in {registered, stopping.plugin} => helper[p] # 0
    /\ registered # 0 => registered # stopping.plugin
    /\ stopping.slot # 0 => slot[stopping.slot] = "shutting"
    /\ \A r \in Requests :
         lease[r] # 0 => slot[lease[r]] \notin {"unused", "drained", "retired"}

(* The slot new requests get is open: it is not being retired and was not   *)
(* closed, and no other plugin object has it.                               *)
CurrentSlotIsOpen ==
    \A p \in Plugin :
      helper[p] # 0 =>
        /\ slot[helper[p]] = "open"
        /\ \A q \in Plugin : q # p => helper[q] # helper[p]

(* README.md:193: a changed helper path lets the old process finish all     *)
(* in-flight generations.  A slot with leases is closed by shutdown only:   *)
(* no request comes in between the Wait of retire and its close.            *)
RetirementWaitsForLeases ==
    [][\A s \in Slot :
         slot[s] \notin Closed /\ slot'[s] \in Closed /\ Leases(s) # {}
           => slot[s] = "shutting"]_vars

(* No lease is added to a slot that left the plugin: WaitGroup.Add never    *)
(* races with the Wait of retire, and retirement cannot be put off forever. *)
NoLateLease ==
    [][\A r \in Requests, s \in Slot :
         lease[r] # s /\ lease'[r] = s => slot[s] = "open"]_vars

(* README.md:193: reloads keep the helper unless its path really changes.   *)
ReloadKeepsHelper ==
    [][\A p \in Plugin :
         helper[p] # 0 /\ helper'[p] \notin {0, helper[p]}
           => config'[p].path # config[p].path]_vars

(* A helper process stopped by retirement stays stopped: nobody is left     *)
(* that could start it again.                                               *)
RetiredStaysStopped == \A s \in Slot : slot[s] = "retired" => s \notin running

(* The inductive invariant. *)
LifecycleInv ==
    /\ TypeOK
    /\ Coherent
    /\ LeaseMatchesConfig
    /\ CurrentSlotIsOpen
    /\ RetiredStaysStopped

(* Who uses a helper, and for which path: leases and snapshots.  A helper   *)
(* is retiring until it is closed.                                          *)
Stages == [s \in Slot |-> IF slot[s] = "drained" THEN "retiring" ELSE slot[s]]
Users == [s \in Slot |-> Leases(s)]
Wants == [r \in Requests |-> snapshot[r].path]

HelperSlots == INSTANCE HelperLeases
                 WITH stage <- Stages, users <- Users, wants <- Wants

(* Whatever the host's threads do to the plugin objects, a request joins an *)
(* open helper of its configuration's path, and a helper that is replaced   *)
(* (by another path only) is closed after its last request, for good.       *)
KeepsLeases == HelperSlots!Spec

(* A slot a reconfiguration replaced is closed in the end.                  *)
ReplacedIsClosed ==
    \A s \in Slot : slot[s] = "retiring" ~> slot[s] = "retired"

(* plugin.go:138 says shutdown closes the helper process the plugin holds:  *)
(* once the slot is closed and the last request has left it, its process is *)
(* gone, since nobody is left to stop it.                                   *)
ShutdownStopsHelper ==
    \A s \in Slot : slot[s] = "shut" /\ Leases(s) = {} => s \notin running
=============================================================================
