---------------------------- MODULE HelperLeases ----------------------------
(***************************************************************************)
(* What plugin.go promises to the requests that use a helper, without       *)
(* plugin objects, host callbacks and retirement goroutines: PluginLifecycle*)
(* implements it.                                                           *)
(*                                                                          *)
(* A request joins a helper that is open, and runs with the path that       *)
(* helper was made for.  A helper is replaced only by one of another path.  *)
(* A replaced helper lets its requests finish, loses its process with them  *)
(* and never has one again; only a shutdown closes it earlier.  A process   *)
(* is started on behalf of a request that uses the helper.                  *)
(***************************************************************************)
CONSTANTS
    Requests,
    Slot,       \* the helpers there may be
    Paths

VARIABLES
    stage,      \* of each helper's life
    path,       \* what each helper was made for
    users,      \* the requests that use each helper
    wants,      \* the path in the configuration each request runs with
    running     \* the helpers that have a process

vars == <<stage, path, users, wants, running>>

Init ==
    /\ stage = [s \in Slot |-> "unused"]
    /\ path = [s \in Slot |-> "none"]
    /\ users = [s \in Slot |-> {}]
    /\ wants = [r \in Requests |-> "none"]
    /\ running = {}

-----------------------------------------------------------------------------
(* The first helper of a plugin. *)
Open(s, p) ==
    /\ stage[s] = "unused"
    /\ stage' = [stage EXCEPT ![s] = "open"]
    /\ path' = [path EXCEPT ![s] = p]
    /\ UNCHANGED <<users, wants, running>>

(* A reconfiguration that changes the path. *)
Replace(old, new, p) ==
    /\ stage[old] = "open" /\ stage[new] = "unused"
    /\ path[old] # p
    /\ stage' = [stage EXCEPT ![new] = "open", ![old] = "retiring"]
    /\ path' = [path EXCEPT ![new] = p]
    /\ UNCHANGED <<users, wants, running>>

Retire(s) ==
    /\ stage[s] = "retiring"
    /\ users[s] = {}
    /\ stage' = [stage EXCEPT ![s] = "retired"]
    /\ running' = running \ {s}
    /\ UNCHANGED <<path, users, wants>>

(* A shutdown takes the helper away from new requests and closes it. *)
Shutting(s) ==
    /\ stage[s] = "open"
    /\ stage' = [stage EXCEPT ![s] = "shutting"]
    /\ UNCHANGED <<path, users, wants, running>>

Shut(s) ==
    /\ stage[s] = "shutting"
    /\ stage' = [stage EXCEPT ![s] = "shut"]
    /\ running' = running \ {s}
    /\ UNCHANGED <<path, users, wants>>

Join(r, s) ==
    /\ stage[s] = "open"
    /\ \A t \in Slot : r \notin users[t]
    /\ users' = [users EXCEPT ![s] = @ \cup {r}]
    /\ wants' = [wants EXCEPT ![r] = path[s]]
    /\ UNCHANGED <<stage, path, running>>

Leave(r, s) ==
    /\ r \in users[s]
    /\ users' = [users EXCEPT ![s] = @ \ {r}]
    /\ wants' = [wants EXCEPT ![r] = "none"]
    /\ UNCHANGED <<stage, path, running>>

StartProcess(s) ==
    /\ s \notin running
    /\ users[s] # {}
    /\ running' = running \cup {s}
    /\ UNCHANGED <<stage, path, users, wants>>

ProcessFails(s) ==
    /\ s \in running
    /\ running' = running \ {s}
    /\ UNCHANGED <<stage, path, users, wants>>

-----------------------------------------------------------------------------
Next ==
    \/ \E s \in Slot, p \in Paths :
         \/ Open(s, p)
         \/ \E old \in Slot : Replace(old, s, p)
    \/ \E s \in Slot :
         \/ Retire(s) \/ Shutting(s) \/ Shut(s)
         \/ StartProcess(s) \/ ProcessFails(s)
    \/ \E s \in Slot, r \in Requests : Join(r, s) \/ Leave(r, s)

Spec == Init /\ [][Next]_vars
=============================================================================
