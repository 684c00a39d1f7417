------------------------- MODULE CredentialSharing -------------------------
(***************************************************************************)
(* What helper/protocol.py promises to the images that share credentials,   *)
(* without the locks, the rounds, the rotation and the two looks at a       *)
(* cooldown: CredentialScheduler implements it.                             *)
(*                                                                          *)
(* A credential serves one image at a time, and none while it rests.  An    *)
(* image takes each credential of its request at most once, passes over     *)
(* one that rests, and gives up when it has been through all of them or     *)
(* its request is late.  A request is answered after its last image.        *)
(***************************************************************************)
EXTENDS Naturals

CONSTANTS
    Requests,
    Credentials,
    Snapshot,   \* the set of credentials each request was given
    MaxN        \* the images a request asks for at most

VARIABLES
    asked,      \* how many images each request asks for, once it is accepted
    late,       \* the requests whose time is up
    user,       \* the image each credential serves
    rest,       \* how long each credential has to rest
    tried,      \* the credentials each image took or passed over
    failures,   \* what was wrong with those it took
    outcome,    \* what has become of each image
    reply       \* what each request was told

vars == <<asked, late, user, rest, tried, failures, outcome, reply>>

Image  == Requests \X (0 .. MaxN - 1)
Nobody == <<>>

Init ==
    /\ asked = [r \in Requests |-> 0]
    /\ late = {}
    /\ user = [k \in Credentials |-> Nobody]
    /\ rest = [k \in Credentials |-> "none"]
    /\ tried = [i \in Image |-> {}]
    /\ failures = [i \in Image |-> {}]
    /\ outcome = [i \in Image |-> "none"]
    /\ reply = [r \in Requests |-> "none"]

ImagesOf(r) == {<<r, index>> : index \in 0 .. asked[r] - 1}

(* The image is looking for a credential. *)
Looking(i) ==
    /\ i \in ImagesOf(i[1])
    /\ outcome[i] = "none"
    /\ \A k \in Credentials : user[k] # i

Untried(i) == Snapshot[i[1]] \ tried[i]

Try(i, k) == tried' = [tried EXCEPT ![i] = @ \cup {k}]

-----------------------------------------------------------------------------
Accept(r, n) ==
    /\ asked[r] = 0 /\ reply[r] = "none"
    /\ Snapshot[r] # {}
    /\ asked' = [asked EXCEPT ![r] = n]
    /\ UNCHANGED <<late, user, rest, tried, failures, outcome, reply>>

Refuse(r) ==
    /\ asked[r] = 0 /\ reply[r] = "none"
    /\ \E why \in {"invalid", "crash", "no_credentials"} :
         reply' = [reply EXCEPT ![r] = why]
    /\ UNCHANGED <<asked, late, user, rest, tried, failures, outcome>>

Take(i, k) ==
    /\ Looking(i) /\ k \in Untried(i)
    /\ user[k] = Nobody /\ rest[k] = "none"
    /\ user' = [user EXCEPT ![k] = i]
    /\ Try(i, k)
    /\ UNCHANGED <<asked, late, rest, failures, outcome, reply>>

PassOver(i, k) ==
    /\ Looking(i) /\ k \in Untried(i)
    /\ rest[k] # "none"
    /\ Try(i, k)
    /\ UNCHANGED <<asked, late, user, rest, failures, outcome, reply>>

Succeed(i, k) ==
    /\ user[k] = i
    /\ user' = [user EXCEPT ![k] = Nobody]
    /\ outcome' = [outcome EXCEPT ![i] = "image"]
    /\ UNCHANGED <<asked, late, rest, tried, failures, reply>>

(* The credential gets the rest its failure calls for: a long one only for  *)
(* a rejection, a brief one for anything else.                              *)
Fail(i, k, failure, length) ==
    /\ user[k] = i
    /\ length = "long" => failure = {"auth"}
    /\ length = "brief" => failure # {"auth"}
    /\ user' = [user EXCEPT ![k] = Nobody]
    /\ failures' = [failures EXCEPT ![i] = @ \cup failure]
    /\ rest' = [rest EXCEPT ![k] = length]
    /\ UNCHANGED <<asked, late, tried, outcome, reply>>

(* Nothing but rejections means that the credentials have expired. *)
GiveUp(i) ==
    /\ Looking(i)
    /\ i[1] \in late \/ Untried(i) = {}
    /\ outcome' = [outcome EXCEPT ![i] =
                     IF i[1] \in late THEN "timeout"
                     ELSE IF failures[i] = {"auth"} THEN "credential_expired"
                     ELSE "unavailable"]
    /\ UNCHANGED <<asked, late, user, rest, tried, failures, reply>>

(* All the images, or what was wrong with one. *)
Answer(r) ==
    LET outcomes == {outcome[i] : i \in ImagesOf(r)} IN
    /\ asked[r] > 0 /\ reply[r] = "none"
    /\ "none" \notin outcomes
    /\ \E one \in outcomes :
         /\ one = "image" => outcomes = {"image"}
         /\ reply' = [reply EXCEPT ![r] = one]
    /\ UNCHANGED <<asked, late, user, rest, tried, failures, outcome>>

Expire(r) ==
    /\ asked[r] > 0 /\ reply[r] = "none"
    /\ late' = late \cup {r}
    /\ UNCHANGED <<asked, user, rest, tried, failures, outcome, reply>>

(* Only time ends a rest. *)
Recover(k) ==
    /\ rest[k] # "none"
    /\ rest' = [rest EXCEPT ![k] = "none"]
    /\ UNCHANGED <<asked, late, user, tried, failures, outcome, reply>>

-----------------------------------------------------------------------------
Use(i, k) ==
    \/ Take(i, k)
    \/ PassOver(i, k)
    \/ Succeed(i, k)
    \/ \E failure \in {{}, {"auth"}, {"other"}}, length \in {"none", "brief", "long"} :
         Fail(i, k, failure, length)

Next ==
    \/ \E r \in Requests :
         \/ \E n \in 1 .. MaxN : Accept(r, n)
         \/ Refuse(r)
         \/ Answer(r)
         \/ Expire(r)
    \/ \E i \in Image :
         \/ \E k \in Credentials : Use(i, k)
         \/ GiveUp(i)
    \/ \E k \in Credentials : Recover(k)

Spec == Init /\ [][Next]_vars
=============================================================================
