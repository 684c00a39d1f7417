------------------------ MODULE CredentialScheduler ------------------------
(***************************************************************************)
(* helper/protocol.py: how the images of concurrent requests share the CPA  *)
(* credentials inside one helper process.                                   *)
(*                                                                          *)
(* handle_images parses the body of a request, gives each image it asks for *)
(* to a thread of a pool, and generate_one goes round the request's         *)
(* credentials with locks it never waits for: a busy credential is passed   *)
(* over, one that is cooling down is given up, and a failure puts the       *)
(* credential in a cooldown all images see.  Each read or write of the      *)
(* shared tables (under _state_lock or _cursor_lock) is one action.         *)
(*                                                                          *)
(* A credential is identified by its key, the digest of its token.  Time    *)
(* is not counted: a cooldown lasts until it ends, and a request expires    *)
(* (deadline or cancel) at any moment.                                      *)
(***************************************************************************)
EXTENDS ImageRequest, FiniteSets, SequencesExt

CONSTANTS
    Requests,   \* image requests being served
    Credentials,
    Offered,    \* the credentials in each request's payload, in order
    Arrivals,   \* the bodies the requests may come with, together
    MaxN        \* the images they ask for at most, a bound of at most four

ASSUME OfferedAssumption ==
    /\ \A r \in Requests : Offered[r] \in Seq(Credentials)
    /\ MaxN \in 1 .. 4
    /\ Arrivals \subseteq [Requests -> Body]
    /\ \A arrival \in Arrivals, r \in Requests :
         LET request == parse_image_request(arrival[r])
         IN request.error = "none" => request.n <= MaxN

Image == Requests \X (0 .. MaxN - 1)
Nobody == <<>>

(* set_credential_cooldown is called with 300 seconds for a credential that *)
(* was rejected, and with 120, 30 or 15 for other failures.                 *)
Cooldown == {"none", "brief", "long"}

VARIABLES
    cursor,     \* _credential_cursor
    lock,       \* which image holds each credential's lock
    cooldown,   \* the cooldown each credential is in
    expired,    \* the requests whose RequestControl has expired
    body,       \* the body of each request
    asked,      \* how many images each request asks for, once it is parsed
    pc,         \* where each image's thread is
    order,      \* the image's rotated credentials
    pos,        \* its position in them
    attempted,  \* the credentials it tried or gave up
    busy,       \* whether this round met a lock that was taken
    statuses,   \* which statuses its failures had: "auth" is 401 or 403
    result,     \* what generate_one returned or raised
    reply       \* what handle_images returned or raised

shared == <<cursor, lock, cooldown>>
given  == <<expired, body, asked>>
scan   == <<order, pos, attempted, busy>>
local  == <<scan, statuses, result>>
vars   == <<shared, given, pc, local, reply>>

Results == {"none", "image", "timeout", "credential_expired", "unavailable"}

Using == {"recheck", "generate", "unlock"}

TypeOK ==
    /\ cursor \in Nat
    /\ lock \in [Credentials -> Image \cup {Nobody}]
    /\ cooldown \in [Credentials -> Cooldown]
    /\ expired \subseteq Requests
    /\ body \in Arrivals
    /\ asked \in [Requests -> 0 .. MaxN]
    /\ pc \in [Image -> {"queued", "scan", "try", "done"} \cup Using]
    /\ order \in [Image -> Seq(Credentials)]
    /\ pos \in [Image -> Nat \ {0}]
    /\ \A i \in Image :
         /\ pos[i] <= Len(order[i]) + 1
         /\ pc[i] \in Using \cup {"try"} => pos[i] <= Len(order[i])
    /\ attempted \in [Image -> SUBSET Credentials]
    /\ busy \in [Image -> BOOLEAN]
    /\ statuses \in [Image -> SUBSET {"auth", "other"}]
    /\ result \in [Image -> Results]
    /\ reply \in [Requests -> Results \cup {"invalid", "crash", "no_credentials"}]

Init ==
    /\ cursor = 0
    /\ lock = [k \in Credentials |-> Nobody]
    /\ cooldown = [k \in Credentials |-> "none"]
    /\ expired = {}
    /\ body \in Arrivals
    /\ asked = [r \in Requests |-> 0]
    /\ pc = [i \in Image |-> "queued"]
    /\ order = [i \in Image |-> <<>>]
    /\ pos = [i \in Image |-> 1]
    /\ attempted = [i \in Image |-> {}]
    /\ busy = [i \in Image |-> FALSE]
    /\ statuses = [i \in Image |-> {}]
    /\ result = [i \in Image |-> "none"]
    /\ reply = [r \in Requests |-> "none"]

-----------------------------------------------------------------------------
Goto(i, label) == pc' = [pc EXCEPT ![i] = label]

Expired(i) == i[1] \in expired

(* The credential under the loop variable. *)
Current(i) == order[i][pos[i]]

(* "continue" in the loop over the credentials. *)
Continue(i) ==
    /\ Goto(i, "scan")
    /\ pos' = [pos EXCEPT ![i] = @ + 1]

GiveUp(i) == attempted' = [attempted EXCEPT ![i] = @ \cup {Current(i)}]

(* Mutant: the lock is not released. *)
ReleaseForgotten(i) == UNCHANGED lock

Release(i) == lock' = [lock EXCEPT ![Current(i)] = Nobody]

(* The last lines of generate_one, which raise. *)
Conclude(i) ==
    /\ result' = [result EXCEPT ![i] =
                    IF Expired(i) THEN "timeout"
                    ELSE IF statuses[i] = {"auth"} THEN "credential_expired"
                    ELSE "unavailable"]
    /\ Goto(i, "done")
    /\ UNCHANGED <<pos, busy>>

(* A round of the while loop: all credentials, from the first. *)
NewRound(i) ==
    /\ pos' = [pos EXCEPT ![i] = 1]
    /\ busy' = [busy EXCEPT ![i] = FALSE]
    /\ Goto(i, "scan")
    /\ UNCHANGED result

-----------------------------------------------------------------------------
(* The images of a request that handle_images gave to its thread pool. *)
ImagesOf(r) == {<<r, index>> : index \in 0 .. asked[r] - 1}

(* handle_images starts with the body, and refuses it or a request without  *)
(* credentials.                                                             *)
Accept(r) ==
    LET request == parse_image_request(body[r]) IN
    /\ asked[r] = 0 /\ reply[r] = "none"
    /\ IF request.error # "none"
       THEN reply' = [reply EXCEPT ![r] = request.error] /\ UNCHANGED asked
       ELSE IF Offered[r] = <<>>
       THEN reply' = [reply EXCEPT ![r] = "no_credentials"] /\ UNCHANGED asked
       ELSE asked' = [asked EXCEPT ![r] = request.n] /\ UNCHANGED reply
    /\ UNCHANGED <<shared, expired, body, pc, local>>

(* It runs at most min(n, credentials, 4) images of a request at a time. *)
Workers(r) ==
    LET least(a, b) == IF a < b THEN a ELSE b
    IN least(asked[r], Len(Offered[r]))

Running(r) == {i \in ImagesOf(r) : pc[i] \notin {"queued", "done"}}

(* rotate_credentials: start at the global cursor plus the image's index.   *)
Begin(i) ==
    LET offered == Offered[i[1]]
        start   == (cursor + i[2]) % Len(offered)
    IN
    /\ i \in ImagesOf(i[1])
    /\ pc[i] = "queued"
    /\ Cardinality(Running(i[1])) < Workers(i[1])
    /\ cursor' = (cursor + 1) % Len(offered)
    /\ order' = [order EXCEPT ![i] = SubSeq(offered, start + 1, Len(offered))
                                     \o SubSeq(offered, 1, start)]
    /\ IF Expired(i) THEN Conclude(i) ELSE NewRound(i)
    /\ UNCHANGED <<lock, cooldown, given, attempted, statuses, reply>>

SkipAttempted(i) ==
    /\ pc[i] = "scan"
    /\ pos[i] <= Len(order[i])
    /\ Current(i) \in attempted[i]
    /\ Continue(i)
    /\ UNCHANGED <<shared, given, order, attempted, busy, statuses, result,
                   reply>>

SkipCooling(i) ==
    /\ pc[i] = "scan"
    /\ pos[i] <= Len(order[i])
    /\ Current(i) \notin attempted[i]
    /\ cooldown[Current(i)] # "none"
    /\ GiveUp(i)
    /\ Continue(i)
    /\ UNCHANGED <<shared, given, order, busy, statuses, result, reply>>

Choose(i) ==
    /\ pc[i] = "scan"
    /\ pos[i] <= Len(order[i])
    /\ Current(i) \notin attempted[i]
    /\ cooldown[Current(i)] = "none"
    /\ Goto(i, "try")
    /\ UNCHANGED <<shared, given, local, reply>>

(* lock.acquire(blocking=False). *)
TryBusy(i) ==
    /\ pc[i] = "try"
    /\ lock[Current(i)] # Nobody
    /\ busy' = [busy EXCEPT ![i] = TRUE]
    /\ Continue(i)
    /\ UNCHANGED <<shared, given, order, attempted, statuses, result, reply>>

(* Mutant: the lock is taken whoever has it. *)
TryLockAlways(i) ==
    /\ pc[i] = "try"
    /\ lock' = [lock EXCEPT ![Current(i)] = i]
    /\ Goto(i, "recheck")
    /\ UNCHANGED <<cursor, cooldown, given, local, reply>>

TryLock(i) ==
    /\ pc[i] = "try"
    /\ lock[Current(i)] = Nobody
    /\ lock' = [lock EXCEPT ![Current(i)] = i]
    /\ Goto(i, "recheck")
    /\ UNCHANGED <<cursor, cooldown, given, local, reply>>

(* The second look at the cooldown, with the lock held: the last holder may *)
(* have failed since the first.                                             *)
RecheckCooling(i) ==
    /\ pc[i] = "recheck"
    /\ cooldown[Current(i)] # "none"
    /\ GiveUp(i)
    /\ Release(i)
    /\ Continue(i)
    /\ UNCHANGED <<cursor, cooldown, given, order, busy, statuses, result,
                   reply>>

(* Mutant: no second look. *)
StartUnchecked(i) ==
    /\ pc[i] = "recheck"
    /\ GiveUp(i)
    /\ Goto(i, "generate")
    /\ UNCHANGED <<shared, given, order, pos, busy, statuses, result, reply>>

StartGeneration(i) ==
    /\ pc[i] = "recheck"
    /\ cooldown[Current(i)] = "none"
    /\ GiveUp(i)
    /\ Goto(i, "generate")
    /\ UNCHANGED <<shared, given, order, pos, busy, statuses, result, reply>>

(* generate_with_credential returned an image. *)
Succeed(i) ==
    /\ pc[i] = "generate"
    /\ result' = [result EXCEPT ![i] = "image"]
    /\ Goto(i, "unlock")
    /\ UNCHANGED <<shared, given, scan, statuses, reply>>

(* It raised.  Each handler sets the cooldown its error calls for, before   *)
(* the finally clause releases the lock.                                    *)
Fail(i, status, length) ==
    /\ pc[i] = "generate"
    /\ statuses' = [statuses EXCEPT ![i] = @ \cup status]
    /\ cooldown' = IF length = "none"
                   THEN cooldown
                   ELSE [cooldown EXCEPT ![Current(i)] = length]
    /\ Goto(i, "unlock")
    /\ UNCHANGED <<cursor, lock, given, scan, result, reply>>

(* Which way a generation ends is not said: a credential the upstream has   *)
(* revoked fails otherwise if something else fails before its token is      *)
(* looked at, and one it has not is told 401 or 403 for other reasons too.  *)

(* Status 401 or 403. *)
Rejected(i) == Fail(i, {"auth"}, "long")

(* Status 429, an upstream error worth a retry, or a failed connection. *)
Failed(i) == Fail(i, {"other"}, "brief")

(* An upstream error that is not worth a retry, or a HelperError of another *)
(* kind (no conversation, no image): no cooldown.                           *)
Refused(i) == Fail(i, {"other"}, "none")

(* The account asks for an Arkose challenge: a HelperError of status 403,   *)
(* which counts as a rejection but brings no cooldown.                      *)
Challenged(i) == Fail(i, {"auth"}, "none")

(* The control expired in the middle: HelperError 504, no cooldown. *)
TimedOut(i) == Expired(i) /\ Fail(i, {"other"}, "none")

(* Any other exception leaves no status. *)
Crashed(i) == Fail(i, {}, "brief")

Unlock(i) ==
    /\ pc[i] = "unlock"
    /\ Release(i)
    /\ IF result[i] = "image"
       THEN Goto(i, "done") /\ UNCHANGED pos
       ELSE Continue(i)
    /\ UNCHANGED <<cursor, cooldown, given, order, attempted, busy, statuses,
                   result, reply>>

(* Mutant: one round is all. *)
EndRoundEarly(i) ==
    /\ pc[i] = "scan"
    /\ pos[i] > Len(order[i])
    /\ Conclude(i)
    /\ UNCHANGED <<shared, given, order, attempted, statuses, reply>>

(* The end of a round: another one (at once after progress, otherwise after *)
(* a short sleep) as long as some credential was busy.                      *)
EndRound(i) ==
    /\ pc[i] = "scan"
    /\ pos[i] > Len(order[i])
    /\ IF busy[i] /\ ~Expired(i) /\ attempted[i] # ToSet(order[i])
       THEN NewRound(i)
       ELSE Conclude(i)
    /\ UNCHANGED <<shared, given, order, attempted, statuses, reply>>

-----------------------------------------------------------------------------
(* handle_images leaves its thread pool when every image is through, then   *)
(* returns them all or raises what one of the failed ones raised.           *)
Reply(r) ==
    LET failed == {i \in ImagesOf(r) : result[i] # "image"} IN
    /\ asked[r] > 0 /\ reply[r] = "none"
    /\ \A i \in ImagesOf(r) : pc[i] = "done"
    /\ \/ failed = {} /\ reply' = [reply EXCEPT ![r] = "image"]
       \/ \E i \in failed : reply' = [reply EXCEPT ![r] = result[i]]
    /\ UNCHANGED <<shared, given, pc, local>>

(* The deadline passes, or the plugin cancels the request.  Nobody asks     *)
(* before the request is accepted, so that nothing happens sooner.          *)
Expire(r) ==
    /\ r \notin expired
    /\ asked[r] > 0 /\ reply[r] = "none"
    /\ expired' = expired \cup {r}
    /\ UNCHANGED <<shared, body, asked, pc, local, reply>>

CooldownEnds(k) ==
    /\ cooldown[k] # "none"
    /\ cooldown' = [cooldown EXCEPT ![k] = "none"]
    /\ UNCHANGED <<cursor, lock, given, pc, local, reply>>

-----------------------------------------------------------------------------
Generation(i) ==
    \/ Succeed(i) \/ Rejected(i) \/ Failed(i) \/ Refused(i)
    \/ Challenged(i) \/ TimedOut(i) \/ Crashed(i)

ImageStep(i) ==
    \/ Begin(i)
    \/ SkipAttempted(i)
    \/ SkipCooling(i)
    \/ Choose(i)
    \/ TryBusy(i)
    \/ TryLock(i)
    \/ RecheckCooling(i)
    \/ StartGeneration(i)
    \/ Generation(i)
    \/ Unlock(i)
    \/ EndRound(i)

Next ==
    \/ \E i \in Image : ImageStep(i)
    \/ \E r \in Requests : Accept(r) \/ Reply(r) \/ Expire(r)
    \/ \E k \in Credentials : CooldownEnds(k)

Spec == Init /\ [][Next]_vars

(* Python schedules every thread that can run, and a generation ends (the   *)
(* property GenerationEnds of WebGeneration).  Nothing is assumed of the    *)
(* time a request has left and of cooldowns.                                *)
FairSpec ==
    /\ Spec
    /\ \A i \in Image : WF_vars(ImageStep(i))
    /\ \A r \in Requests : WF_vars(Accept(r)) /\ WF_vars(Reply(r))

-----------------------------------------------------------------------------
(* A credential is used by one image at a time, of whatever request, and a  *)
(* lock is held by nobody but the image that is using it.                   *)
OneImagePerCredential ==
    /\ \A i \in Image : pc[i] \in Using => lock[Current(i)] = i
    /\ \A k \in Credentials :
         lock[k] # Nobody => pc[lock[k]] \in Using /\ Current(lock[k]) = k

(* No image uses a credential that is cooling down, although the first look *)
(* at the cooldown comes before the lock.                                   *)
NoUseWhileCooling ==
    \A i \in Image : pc[i] = "generate" => cooldown[Current(i)] = "none"

(* A cooldown is only ever ended by its time: a late, milder failure of     *)
(* another image does not replace the 300 seconds of a rejected credential  *)
(* by fewer.                                                                *)
CooldownNeverShortened ==
    [][\A k \in Credentials :
         cooldown[k] # "none" => cooldown'[k] \in {"none", cooldown[k]}]_vars

(* No image gives up while a credential was merely busy: short of its       *)
(* deadline it has tried or seen cooling every credential it was offered.   *)
NoEarlySurrender ==
    \A i \in Image :
      result[i] \in {"credential_expired", "unavailable"} =>
        attempted[i] = ToSet(Offered[i[1]])

(* What an image knows of its round: it gave up nothing it was not offered, *)
(* and unless a lock was busy everything up to where it is.                 *)
Rounds ==
    \A i \in Image :
      /\ attempted[i] \subseteq ToSet(order[i])
      /\ pc[i] = "queued" => attempted[i] = {} /\ pos[i] = 1
      /\ pc[i] # "queued" => ToSet(order[i]) = ToSet(Offered[i[1]])
      /\ pc[i] \in {"generate", "unlock"} => Current(i) \in attempted[i]
      /\ pc[i] # "done" /\ ~busy[i] =>
           \A n \in 1 .. pos[i] - 1 : order[i][n] \in attempted[i]
      /\ result[i] \in {"credential_expired", "unavailable"} => pc[i] = "done"

(* Only images the request asked for are under way, with credentials to try,*)
(* and none any more when it is answered.                                   *)
Served ==
    /\ \A r \in Requests : asked[r] > 0 => Offered[r] # <<>>
    /\ \A i \in Image : pc[i] # "queued" => i \in ImagesOf(i[1])
    /\ \A r \in Requests :
         reply[r] # "none" => \A i \in ImagesOf(r) : pc[i] = "done"

(* A request is answered when none of its images is using a credential any  *)
(* more, also when the first of them failed long ago.                       *)
ReplyIsLast ==
    \A i \in Image : reply[i[1]] # "none" => \A k \in Credentials : lock[k] # i

(* What a thread's position says of its image: it has a result at the end,  *)
(* and the credential it is about to use is one it did not try.             *)
Positions ==
    \A i \in Image :
      /\ result[i] # "none" => pc[i] \in {"unlock", "done"}
      /\ pc[i] = "unlock" => result[i] \in {"none", "image"}
      /\ pc[i] = "done" => result[i] # "none"
      /\ pc[i] \in {"try", "recheck"} => Current(i) \notin attempted[i]

(* What keeps the threads apart, *)
Scheduled ==
    /\ TypeOK
    /\ OneImagePerCredential
    /\ NoUseWhileCooling
    /\ Rounds
    /\ NoEarlySurrender
    /\ Served

(* and where they are: the inductive invariant. *)
SchedulerInv == Scheduled /\ Positions

-----------------------------------------------------------------------------
(* The image a credential serves: one that generates, while the lock is     *)
(* held a little longer.                                                    *)
Users ==
    [k \in Credentials |->
       IF lock[k] # Nobody /\ pc[lock[k]] = "generate" THEN lock[k] ELSE Nobody]

Snapshots == [r \in Requests |-> ToSet(Offered[r])]

Sharing == INSTANCE CredentialSharing
             WITH Snapshot <- Snapshots, late <- expired, user <- Users,
                  rest <- cooldown, tried <- attempted, failures <- statuses,
                  outcome <- result

(* With its locks, rounds and second looks generate_one does what           *)
(* CredentialSharing promises: whatever the threads do to each other, a     *)
(* credential is taken and rested as if in one step, and the answer is that *)
(* of images that are through.                                              *)
KeepsSharing == Sharing!Spec

(* Every request is answered without help from its deadline: images that    *)
(* pass over each other's busy credentials do not do so forever.            *)
EveryRequestAnswered == \A r \in Requests : <>(reply[r] # "none")

(* README.md:191 and tests/test_helper.py:394: when every credential of the *)
(* snapshot has expired the plugin is told so (401), and reads the          *)
(* credentials again; 503 does not make it do that.  To the helper a        *)
(* credential has expired when it was answered 401 or 403, for which it     *)
(* rests 300 seconds: no request is told 503 while all it has rest so.      *)
AllExpiredIsReported ==
    [][\A r \in Requests :
         reply[r] = "none" /\ reply'[r] = "unavailable" =>
           \E k \in ToSet(Offered[r]) : cooldown[k] # "long"]_vars
=============================================================================
