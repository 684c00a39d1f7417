------------------------ MODULE EmbeddedHelperProofs ------------------------
(* Safety of EmbeddedHelper, for any number of hosts and roots, proved from *)
(* an inductive invariant.                                                  *)
EXTENDS EmbeddedHelper, TLAPS

LabelSet == {"idle", "check", "chmod", "create", "verify", "done", "failed"} \cup Writing

States == {"none", "bad", "good"}

(* A step of host h, by what the rest of the invariant needs to know of it: *)
(* it touches its own variables, and target and lost at its own root.       *)
Local(h) ==
    /\ \A g \in Hosts \ {h} :
         temp'[g] = temp[g] /\ pc'[g] = pc[g] /\ root'[g] = root[g]
    /\ \A r \in Roots \ {root[h]} :
         target'[r] = target[r] /\ (r \in lost => r \in lost')

(* h holds what fits where it goes, and makes nothing bad, *)
KeepsOwn(h) ==
    /\ temp'[h] = "full" <=> pc'[h] \in Writing \ {"write"}
    /\ pc'[h] \in {"chmod", "retry"} => target'[root'[h]] # "bad"
    /\ pc'[h] = "done" => target'[root'[h]] = "good"
    /\ target'[root[h]] = "bad" => target[root[h]] = "bad"

(* and whatever keeps a path given away from holding is itself in place. *)
KeepsGiven(h) ==
    LET r == root[h] IN
    /\ target[r] = "good" =>
         target'[r] = "good" \/ (pc'[h] = "retry" /\ root'[h] = r)
    /\ pc[h] = "retry" => target'[r] = "good" \/ r \in lost'
    /\ r \in lost => target'[r] = "good" \/ r \in lost'

(* The two ways out of an attempt touch the host's own variables only, and  *)
(* leave it without a temporary file.                                       *)
LEMMA ReturnFrame ==
    ASSUME NEW h \in Hosts, TypeOK, ReturnPath(h) \/ ReturnError(h)
    PROVE  /\ temp' \in [Hosts -> {"none", "partial", "full"}]
           /\ pc' \in [Hosts -> LabelSet]
           /\ root' \in [Hosts -> Roots]
           /\ temp'[h] = "none" /\ pc'[h] \in {"done", "check", "failed"}
           /\ \A g \in Hosts \ {h} :
                temp'[g] = temp[g] /\ pc'[g] = pc[g] /\ root'[g] = root[g]
           /\ ReturnPath(h) => root'[h] = root[h]
           /\ ReturnError(h) => pc'[h] # "done"
  <1>1. CASE ReturnPath(h)
    BY <1>1 DEF ReturnPath, Goto, TypeOK, LabelSet, ReturnError
  <1>2. CASE ReturnError(h)
    <2>1. CASE root[h] < NumRoots
      <3>1. root[h] + 1 \in Roots
        BY <2>1, RootsAssumption DEF TypeOK, Roots
      <3> QED
        BY <1>2, <2>1, <3>1, RootsAssumption
        DEF ReturnError, ReturnPath, Goto, TypeOK, LabelSet, Roots
    <2>2. CASE root[h] = NumRoots
      <3>1. /\ pc' = [pc EXCEPT ![h] = "failed"] /\ temp' = [temp EXCEPT ![h] = "none"]
            /\ root' = root
        BY <1>2, <2>2, RootsAssumption DEF ReturnError, Goto, Roots
      <3>2. pc \in [Hosts -> LabelSet] /\ "failed" \in LabelSet
        BY DEF TypeOK, LabelSet
      <3> QED
        BY <3>1, <3>2 DEF TypeOK
    <2> QED
      BY <1>2, <2>1, <2>2 DEF ReturnError
  <1> QED
    BY <1>1, <1>2

(* A step that is local to its host and keeps those facts keeps the         *)
(* invariant, whatever the other hosts are doing.                           *)
LEMMA HostStep ==
    ASSUME NEW h \in Hosts, InstallInv, TypeOK', Local(h), KeepsOwn(h), KeepsGiven(h)
    PROVE  InstallInv'
  <1> USE DEF Target
  <1>1. Holds'
    <2> SUFFICES ASSUME NEW g \in Hosts
                 PROVE  /\ temp'[g] = "full" <=> pc'[g] \in Writing \ {"write"}
                        /\ pc'[g] \in {"chmod", "retry"} => target'[root'[g]] # "bad"
      BY DEF Holds
    <2>1. CASE g = h
      BY <2>1 DEF KeepsOwn
    <2>2. CASE g # h
      <3>1. temp'[g] = temp[g] /\ pc'[g] = pc[g] /\ root'[g] = root[g] /\ root[g] \in Roots
        BY <2>2 DEF Local, InstallInv, TypeOK
      <3>2. target'[root[g]] = "bad" => target[root[g]] = "bad"
        BY <3>1 DEF Local, KeepsOwn
      <3> QED
        BY <3>1, <3>2 DEF InstallInv, Holds
    <2> QED
      BY <2>1, <2>2
  <1>2. GivenPathHolds'
    <2> SUFFICES ASSUME NEW g \in Hosts, pc'[g] = "done"
                 PROVE  \/ target'[root'[g]] = "good"
                        \/ \E k \in Hosts : pc'[k] = "retry" /\ root'[k] = root'[g]
                        \/ root'[g] \in lost'
      BY DEF GivenPathHolds
    <2>1. CASE g = h
      BY <2>1 DEF KeepsOwn
    <2>2. CASE g # h
      <3>1. pc[g] = "done" /\ root'[g] = root[g] /\ root[g] \in Roots
        BY <2>2 DEF Local, InstallInv, TypeOK
      <3>2. CASE target[root[g]] = "good"
        BY <3>1, <3>2 DEF Local, KeepsGiven
      <3>3. ASSUME NEW k \in Hosts, pc[k] = "retry", root[k] = root[g]
            PROVE  \/ target'[root'[g]] = "good"
                   \/ \E j \in Hosts : pc'[j] = "retry" /\ root'[j] = root'[g]
                   \/ root'[g] \in lost'
        <4>1. CASE k = h
          BY <3>1, <3>3, <4>1 DEF KeepsGiven
        <4>2. CASE k # h
          BY <3>1, <3>3, <4>2 DEF Local
        <4> QED
          BY <4>1, <4>2
      <3>4. CASE root[g] \in lost
        BY <3>1, <3>4 DEF Local, KeepsGiven
      <3> QED
        BY <3>1, <3>2, <3>3, <3>4 DEF InstallInv, GivenPathHolds
    <2> QED
      BY <2>1, <2>2
  <1> QED
    BY <1>1, <1>2 DEF InstallInv

(* A return that leaves target and lost alone keeps the invariant; a path   *)
(* is returned only where the file is good.                                 *)
LEMMA ReturnStep ==
    ASSUME NEW h \in Hosts, InstallInv, UNCHANGED <<target, lost>>, pc[h] # "retry",
           ReturnError(h) \/ (ReturnPath(h) /\ Target(h) = "good")
    PROVE  InstallInv'
  <1>1. TypeOK'
    BY ReturnFrame DEF InstallInv, TypeOK, LabelSet
  <1>2. Local(h)
    BY ReturnFrame DEF InstallInv, Local
  <1>3. KeepsOwn(h)
    BY ReturnFrame DEF InstallInv, KeepsOwn, Target, Writing
  <1>4. KeepsGiven(h)
    BY DEF KeepsGiven
  <1> QED
    BY <1>1, <1>2, <1>3, <1>4, HostStep

(* Renaming a whole file keeps the invariant and puts a good file there. *)
LEMMA ReplaceStep ==
    ASSUME NEW h \in Hosts, InstallInv, pc[h] \in {"rename", "retry"}, Replace(h)
    PROVE  InstallInv' /\ target'[root[h]] = "good"
  <1>1. temp[h] = "full"
    BY DEF InstallInv, Holds, Writing
  <1>2. target' = [target EXCEPT ![root[h]] = "good"] /\ root[h] \in Roots
    BY <1>1 DEF Replace, InstallInv, TypeOK
  <1>3. TypeOK'
    BY <1>2 DEF InstallInv, TypeOK, Replace, Goto
  <1>4. Local(h)
    BY <1>2 DEF InstallInv, TypeOK, Local, Replace, Goto
  <1>5. KeepsOwn(h)
    BY <1>2 DEF InstallInv, TypeOK, KeepsOwn, Replace, Goto, Writing
  <1>6. KeepsGiven(h)
    BY <1>2 DEF InstallInv, TypeOK, KeepsGiven
  <1> QED
    BY <1>2, <1>3, <1>4, <1>5, <1>6, HostStep DEF InstallInv, TypeOK

(* The invariant holds at the start, whatever is at the paths. *)
LEMMA InitialInvariant == Init => InstallInv
  BY RootsAssumption DEF Init, InstallInv, TypeOK, Holds, GivenPathHolds, Writing, Roots, Target

(* It is kept by every action. *)
LEMMA InductiveInvariant == InstallInv /\ [Next]_vars => InstallInv'
  <1> SUFFICES ASSUME InstallInv, [Next]_vars PROVE InstallInv'
    OBVIOUS
  <1>1. ASSUME NEW h \in Hosts, Begin(h) PROVE InstallInv'
    <2>1. TypeOK'
      BY <1>1, RootsAssumption DEF Begin, Goto, InstallInv, TypeOK, Roots
    <2>2. Local(h)
      BY <1>1 DEF Begin, Goto, Local, InstallInv, TypeOK
    <2>3. KeepsOwn(h)
      BY <1>1 DEF Begin, Goto, KeepsOwn, InstallInv, TypeOK, Holds, Writing
    <2>4. KeepsGiven(h)
      BY <1>1 DEF Begin, KeepsGiven
    <2> QED
      BY <2>1, <2>2, <2>3, <2>4, HostStep
  <1>2. ASSUME NEW h \in Hosts, Check(h) PROVE InstallInv'
    <2>1. TypeOK'
      BY <1>2 DEF Check, Goto, InstallInv, TypeOK
    <2>2. Local(h)
      BY <1>2 DEF Check, Goto, Local, InstallInv, TypeOK
    <2>3. KeepsOwn(h)
      BY <1>2 DEF Check, Matches, Target, Goto, KeepsOwn, InstallInv, TypeOK, Holds, Writing
    <2>4. KeepsGiven(h)
      BY <1>2 DEF Check, KeepsGiven
    <2> QED
      BY <2>1, <2>2, <2>3, <2>4, HostStep
  <1>3. ASSUME NEW h \in Hosts, Chmod(h) PROVE InstallInv'
    <2>1. Target(h) # "none" => Target(h) = "good"
      BY <1>3 DEF Chmod, Target, InstallInv, TypeOK, Holds
    <2> QED
      BY <1>3, <2>1, ReturnStep DEF Chmod
  <1>4. ASSUME NEW h \in Hosts, Create(h) PROVE InstallInv'
    <2>1. CASE ReturnError(h)
      BY <1>4, <2>1, ReturnStep DEF Create
    <2>2. CASE temp' = [temp EXCEPT ![h] = "partial"] /\ Goto(h, "write") /\ UNCHANGED root
      <3>1. TypeOK'
        BY <1>4, <2>2 DEF Create, Goto, InstallInv, TypeOK, Writing
      <3>2. Local(h)
        BY <1>4, <2>2 DEF Create, Goto, Local, InstallInv, TypeOK
      <3>3. KeepsOwn(h)
        BY <1>4, <2>2 DEF Create, Goto, KeepsOwn, InstallInv, TypeOK, Writing
      <3>4. KeepsGiven(h)
        BY <1>4 DEF Create, KeepsGiven
      <3> QED
        BY <3>1, <3>2, <3>3, <3>4, HostStep
    <2> QED
      BY <1>4, <2>1, <2>2 DEF Create
  <1>5. ASSUME NEW h \in Hosts, Write(h) PROVE InstallInv'
    <2>1. CASE ReturnError(h)
      BY <1>5, <2>1, ReturnStep DEF Write
    <2>2. CASE temp' = [temp EXCEPT ![h] = "full"] /\ Goto(h, "rename") /\ UNCHANGED root
      <3>1. TypeOK'
        BY <1>5, <2>2 DEF Write, Goto, InstallInv, TypeOK, Writing
      <3>2. Local(h)
        BY <1>5, <2>2 DEF Write, Goto, Local, InstallInv, TypeOK
      <3>3. KeepsOwn(h)
        BY <1>5, <2>2 DEF Write, Goto, KeepsOwn, InstallInv, TypeOK, Writing
      <3>4. KeepsGiven(h)
        BY <1>5 DEF Write, KeepsGiven
      <3> QED
        BY <3>1, <3>2, <3>3, <3>4, HostStep
    <2> QED
      BY <1>5, <2>1, <2>2 DEF Write
  <1>6. ASSUME NEW h \in Hosts, Rename(h) PROVE InstallInv'
    <2>1. CASE Replace(h)
      BY <1>6, <2>1, ReplaceStep DEF Rename
    <2>2. CASE Goto(h, "recheck") /\ UNCHANGED <<target, temp, root, lost>>
      <3>1. TypeOK'
        BY <2>2 DEF Goto, InstallInv, TypeOK, Writing
      <3>2. Local(h)
        BY <2>2 DEF Goto, Local, InstallInv, TypeOK
      <3>3. KeepsOwn(h)
        BY <1>6, <2>2 DEF Rename, Goto, KeepsOwn, InstallInv, TypeOK, Holds, Writing
      <3>4. KeepsGiven(h)
        BY <1>6, <2>2 DEF Rename, KeepsGiven
      <3> QED
        BY <3>1, <3>2, <3>3, <3>4, HostStep
    <2> QED
      BY <1>6, <2>1, <2>2 DEF Rename
  <1>7. ASSUME NEW h \in Hosts, Recheck(h) PROVE InstallInv'
    <2>1. CASE Matches(h) /\ ReturnPath(h)
      BY <1>7, <2>1, ReturnStep DEF Recheck, Matches
    <2>2. CASE Goto(h, "remove") /\ UNCHANGED <<temp, root>>
      <3>1. TypeOK'
        BY <1>7, <2>2 DEF Recheck, Goto, InstallInv, TypeOK, Writing
      <3>2. Local(h)
        BY <1>7, <2>2 DEF Recheck, Goto, Local, InstallInv, TypeOK
      <3>3. KeepsOwn(h)
        BY <1>7, <2>2 DEF Recheck, Goto, KeepsOwn, InstallInv, TypeOK, Holds, Writing
      <3>4. KeepsGiven(h)
        BY <1>7 DEF Recheck, KeepsGiven
      <3> QED
        BY <3>1, <3>2, <3>3, <3>4, HostStep
    <2> QED
      BY <1>7, <2>1, <2>2 DEF Recheck
  <1>8. ASSUME NEW h \in Hosts, Remove(h) PROVE InstallInv'
    <2>1. CASE ReturnError(h) /\ UNCHANGED target
      BY <1>8, <2>1, ReturnStep DEF Remove
    <2>2. CASE /\ target' = [target EXCEPT ![root[h]] = "none"]
               /\ Goto(h, "retry")
               /\ UNCHANGED <<temp, root>>
      <3>1. TypeOK'
        BY <1>8, <2>2 DEF Remove, Goto, InstallInv, TypeOK, Writing
      <3>2. Local(h)
        BY <1>8, <2>2 DEF Remove, Goto, Local, InstallInv, TypeOK
      <3>3. KeepsOwn(h)
        BY <1>8, <2>2 DEF Remove, Goto, KeepsOwn, InstallInv, TypeOK, Holds, Writing
      <3>4. KeepsGiven(h)
        BY <1>8, <2>2 DEF Remove, Goto, KeepsGiven, InstallInv, TypeOK
      <3> QED
        BY <3>1, <3>2, <3>3, <3>4, HostStep
    <2> QED
      BY <1>8, <2>1, <2>2 DEF Remove
  <1>9. ASSUME NEW h \in Hosts, Retry(h) PROVE InstallInv'
    <2>1. CASE Replace(h)
      BY <1>9, <2>1, ReplaceStep DEF Retry
    <2>2. CASE ReturnError(h) /\ lost' = Abandoned(h) /\ UNCHANGED target
      <3>1. TypeOK'
        BY <1>9, <2>2, ReturnFrame DEF Abandoned, InstallInv, TypeOK, LabelSet
      <3>2. Local(h)
        BY <2>2, ReturnFrame DEF Abandoned, InstallInv, Local
      <3>3. KeepsOwn(h)
        BY <2>2, ReturnFrame DEF InstallInv, KeepsOwn, Writing
      <3>4. Target(h) \in {"none", "good"}
        BY <1>9 DEF Retry, Target, InstallInv, TypeOK, Holds
      <3>5. KeepsGiven(h)
        BY <2>2, <3>4 DEF Abandoned, Target, KeepsGiven
      <3> QED
        BY <3>1, <3>2, <3>3, <3>5, HostStep
    <2> QED
      BY <1>9, <2>1, <2>2 DEF Retry
  <1>10. ASSUME NEW h \in Hosts, Verify(h) PROVE InstallInv'
    BY <1>10, ReturnStep DEF Verify, Matches
  <1>11. ASSUME NEW h \in Hosts, Crash(h) PROVE InstallInv'
    <2>1. TypeOK'
      BY <1>11 DEF Crash, Abandoned, Goto, InstallInv, TypeOK
    <2>2. Local(h)
      BY <1>11 DEF Crash, Abandoned, Goto, Local, InstallInv, TypeOK
    <2>3. KeepsOwn(h)
      BY <1>11 DEF Crash, Goto, KeepsOwn, InstallInv, TypeOK, Writing
    <2>4. pc[h] = "retry" => Target(h) \in {"none", "good"}
      BY DEF Target, InstallInv, TypeOK, Holds
    <2>5. KeepsGiven(h)
      BY <1>11, <2>4 DEF Crash, Abandoned, Target, KeepsGiven
    <2> QED
      BY <2>1, <2>2, <2>3, <2>5, HostStep
  <1>12. CASE UNCHANGED vars
    BY <1>12 DEF vars, InstallInv, TypeOK, Holds, GivenPathHolds, Target
  <1> QED
    BY <1>1, <1>2, <1>3, <1>4, <1>5, <1>6, <1>7, <1>8, <1>9, <1>10, <1>11, <1>12 DEF Next

(* The inductive invariant holds in every reachable state. *)
THEOREM Invariant == Spec => []InstallInv
  <1> QED
    BY InitialInvariant, InductiveInvariant, PTL DEF Spec

(* A path that embeddedHelperPath gave away holds the helper, but for the   *)
(* moment in which a host whose rename failed has removed the file, or      *)
(* after such a host went away.                                             *)
THEOREM GivenPathsHold == Spec => []GivenPathHolds
  <1>1. InstallInv => GivenPathHolds
    BY DEF InstallInv
  <1> QED
    BY <1>1, Invariant, PTL

(* No write that fails and no host that dies leaves half a helper at a path.*)
THEOREM NothingIsTruncated == Spec => NeverTruncated
  <1>1. ASSUME InstallInv, [Next]_vars
        PROVE  [\A r \in Roots : target'[r] = "bad" => target[r] = "bad"]_vars
    <2>1. ASSUME NEW h \in Hosts, Replace(h), pc[h] \in {"rename", "retry"}, NEW r \in Roots
          PROVE  target'[r] = "bad" => target[r] = "bad"
      <3>1. target'[root[h]] = "good"
        BY <1>1, <2>1, ReplaceStep
      <3> QED
        BY <1>1, <2>1, <3>1 DEF Replace, InstallInv, TypeOK
    <2>2. ASSUME NEW h \in Hosts, Rename(h) \/ Retry(h), NEW r \in Roots
          PROVE  target'[r] = "bad" => target[r] = "bad"
      BY <2>1, <2>2 DEF Rename, Retry
    <2>3. ASSUME NEW h \in Hosts, Remove(h), NEW r \in Roots
          PROVE  target'[r] = "bad" => target[r] = "bad"
      BY <1>1, <2>3 DEF Remove, InstallInv, TypeOK
    <2>4. ASSUME NEW h \in Hosts,
                 \/ Begin(h) \/ Check(h) \/ Chmod(h) \/ Create(h) \/ Write(h)
                 \/ Recheck(h) \/ Verify(h) \/ Crash(h)
          PROVE  UNCHANGED target
      BY <2>4 DEF Begin, Check, Chmod, Create, Write, Recheck, Verify, Crash
    <2> QED
      BY <1>1, <2>2, <2>3, <2>4 DEF Next
  <1> QED
    BY <1>1, Invariant, PTL DEF Spec, NeverTruncated
=============================================================================
