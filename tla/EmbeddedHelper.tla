--------------------------- MODULE EmbeddedHelper ---------------------------
(***************************************************************************)
(* embedded_helper.go: a release build carries its helper in itself and     *)
(* puts it into a directory named by the helper's digest, from where any    *)
(* host process on the machine starts it.                                   *)
(*                                                                          *)
(* Several hosts run embeddedHelperPath on the same directories at the same *)
(* time, and nothing but the file system stands between them.  Each of its  *)
(* calls may fail, and a host may die between any two.  A file is good when *)
(* it is the helper, bad when it is anything else (a truncated file, a      *)
(* directory).                                                              *)
(***************************************************************************)
EXTENDS Naturals

CONSTANTS
    Hosts,      \* host processes that load the plugin
    NumRoots    \* the user's cache directory and the temporary directory

Roots == 1..NumRoots

ASSUME RootsAssumption == NumRoots \in Nat \ {0}

VARIABLES
    target,     \* what is at targetPath under each root
    temp,       \* the temporary file of each host's present attempt
    pc,         \* where each host is
    root,       \* the root each host is at
    lost        \* the roots whose target was removed by a host that then
                \* failed, or died, before it put another one there

vars == <<target, temp, pc, root, lost>>

Writing == {"write", "rename", "recheck", "remove", "retry"}

TypeOK ==
    /\ target \in [Roots -> {"none", "bad", "good"}]
    /\ temp \in [Hosts -> {"none", "partial", "full"}]
    /\ pc \in [Hosts -> {"idle", "check", "chmod", "create", "verify", "done", "failed"}
                        \cup Writing]
    /\ root \in [Hosts -> Roots]
    /\ lost \subseteq Roots

Init ==
    /\ target \in [Roots -> {"none", "bad", "good"}]
    /\ temp = [h \in Hosts |-> "none"]
    /\ pc = [h \in Hosts |-> "idle"]
    /\ root = [h \in Hosts |-> 1]
    /\ lost = {}

Goto(h, label) == pc' = [pc EXCEPT ![h] = label]

(* The file at the root host h is at. *)
Target(h) == target[root[h]]

(* materializeEmbeddedHelper returns: the deferred function removes the     *)
(* temporary file.  A path ends embeddedHelperPath, *)
ReturnPath(h) ==
    /\ Goto(h, "done")
    /\ temp' = [temp EXCEPT ![h] = "none"]
    /\ UNCHANGED root

(* and an error takes it to the next root, if there is one. *)
ReturnError(h) ==
    /\ temp' = [temp EXCEPT ![h] = "none"]
    /\ \/ /\ root[h] < NumRoots
          /\ root' = [root EXCEPT ![h] = @ + 1]
          /\ Goto(h, "check")
       \/ /\ root[h] = NumRoots
          /\ UNCHANGED root
          /\ Goto(h, "failed")

(* os.Rename of the temporary file, which replaces what is there. *)
Replace(h) ==
    /\ target' = [target EXCEPT ![root[h]] = IF temp[h] = "full" THEN "good" ELSE "bad"]
    /\ temp' = [temp EXCEPT ![h] = "none"]
    /\ lost' = lost \ {root[h]}
    /\ Goto(h, "verify")
    /\ UNCHANGED root

-----------------------------------------------------------------------------
(* embeddedHelperPath, at each registration and reconfiguration. *)
Begin(h) ==
    /\ pc[h] \in {"idle", "done", "failed"}
    /\ root' = [root EXCEPT ![h] = 1]
    /\ Goto(h, "check")
    /\ UNCHANGED <<target, temp, lost>>

(* helperFileMatches is decided by the file it opens; whether that can be   *)
(* opened and read to its end is up to the file system, so that a good file *)
(* may not be recognised.                                                   *)
Matches(h) == Target(h) = "good"

Check(h) ==
    /\ pc[h] = "check"
    /\ \/ Matches(h) /\ Goto(h, "chmod")
       \/ Goto(h, "create")
    /\ UNCHANGED <<target, temp, root, lost>>

(* The file that matched gets its permissions, if it is still there. *)
Chmod(h) ==
    /\ pc[h] = "chmod"
    /\ \/ Target(h) # "none" /\ ReturnPath(h)
       \/ ReturnError(h)
    /\ UNCHANGED <<target, lost>>

(* MkdirAll, CreateTemp and Chmod of the temporary file. *)
Create(h) ==
    /\ pc[h] = "create"
    /\ \/ /\ temp' = [temp EXCEPT ![h] = "partial"]
          /\ Goto(h, "write")
          /\ UNCHANGED root
       \/ ReturnError(h)
    /\ UNCHANGED <<target, lost>>

(* Mutant: an error of io.Copy or Sync is ignored. *)
WriteUnchecked(h) ==
    /\ pc[h] = "write"
    /\ \/ temp' = [temp EXCEPT ![h] = "full"]
       \/ UNCHANGED temp
    /\ Goto(h, "rename")
    /\ UNCHANGED <<target, root, lost>>

(* Copy, Sync and Close. *)
Write(h) ==
    /\ pc[h] = "write"
    /\ \/ /\ temp' = [temp EXCEPT ![h] = "full"]
          /\ Goto(h, "rename")
          /\ UNCHANGED root
       \/ ReturnError(h)
    /\ UNCHANGED <<target, lost>>

Rename(h) ==
    /\ pc[h] = "rename"
    /\ \/ Replace(h)
       \/ Goto(h, "recheck") /\ UNCHANGED <<target, temp, root, lost>>

(* The rename failed: perhaps another host has installed its file, and runs *)
(* it.                                                                      *)
Recheck(h) ==
    /\ pc[h] = "recheck"
    /\ \/ Matches(h) /\ ReturnPath(h)
       \/ Goto(h, "remove") /\ UNCHANGED <<temp, root>>
    /\ UNCHANGED <<target, lost>>

(* os.Remove, to which a file that does not exist is as good as removed.    *)
(* Nothing has kept another host from installing one since the check.       *)
Remove(h) ==
    /\ pc[h] = "remove"
    /\ \/ /\ target' = [target EXCEPT ![root[h]] = "none"]
          /\ Goto(h, "retry")
          /\ UNCHANGED <<temp, root>>
       \/ ReturnError(h) /\ UNCHANGED target
    /\ UNCHANGED lost

Abandoned(h) == IF Target(h) = "none" THEN lost \cup {root[h]} ELSE lost

Retry(h) ==
    /\ pc[h] = "retry"
    /\ \/ Replace(h)
       \/ ReturnError(h) /\ lost' = Abandoned(h) /\ UNCHANGED target

(* Mutant: what does not verify is removed. *)
VerifyOrRemove(h) ==
    /\ pc[h] = "verify"
    /\ \/ Matches(h) /\ ReturnPath(h) /\ UNCHANGED target
       \/ ReturnError(h) /\ target' = [target EXCEPT ![root[h]] = "none"]
    /\ UNCHANGED lost

Verify(h) ==
    /\ pc[h] = "verify"
    /\ \/ Matches(h) /\ ReturnPath(h)
       \/ ReturnError(h)
    /\ UNCHANGED <<target, lost>>

(* The host dies, and is started again.  Its temporary file stays behind    *)
(* under a name nobody uses again.                                          *)
Crash(h) ==
    /\ Goto(h, "idle")
    /\ temp' = [temp EXCEPT ![h] = "none"]
    /\ lost' = IF pc[h] = "retry" THEN Abandoned(h) ELSE lost
    /\ UNCHANGED <<target, root>>

-----------------------------------------------------------------------------
Next ==
    \E h \in Hosts :
      \/ Begin(h)
      \/ Check(h)
      \/ Chmod(h)
      \/ Create(h)
      \/ Write(h)
      \/ Rename(h)
      \/ Recheck(h)
      \/ Remove(h)
      \/ Retry(h)
      \/ Verify(h)
      \/ Crash(h)

Spec == Init /\ [][Next]_vars

-----------------------------------------------------------------------------
(* No host ever makes a path hold something that is not the whole helper,   *)
(* whichever write fails and wherever a host dies: what other hosts start   *)
(* is the helper or, at worst, missing.                                     *)
NeverTruncated == [][\A r \in Roots : target'[r] = "bad" => target[r] = "bad"]_vars

(* A path that a host was given keeps its helper, although other hosts go   *)
(* on renaming and removing there.  It can be missing only while another    *)
(* host, whose rename failed, has taken the file away and is about to put   *)
(* its own in place, or after that host failed or died at that very point.  *)
GivenPathHolds ==
    \A h \in Hosts :
      pc[h] = "done" =>
        \/ Target(h) = "good"
        \/ \E g \in Hosts : pc[g] = "retry" /\ root[g] = root[h]
        \/ root[h] \in lost

(* What a host holds fits where it is; with it, the two properties are      *)
(* inductive.                                                               *)
Holds ==
    \A h \in Hosts :
      /\ temp[h] = "full" <=> pc[h] \in Writing \ {"write"}
      /\ pc[h] \in {"chmod", "retry"} => Target(h) # "bad"

InstallInv == TypeOK /\ Holds /\ GivenPathHolds
=============================================================================
