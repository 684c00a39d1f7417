---------------------- MODULE CredentialSchedulerProofs ----------------------
(* Safety of CredentialScheduler, for any number of requests, images and    *)
(* credentials, proved from an inductive invariant.                         *)
EXTENDS CredentialScheduler, TLAPS

(* No image is mistaken for the absence of one. *)
LEMMA NobodyIsNoImage == Nobody \notin Image
  BY DEF Nobody, Image

(* What a body asks for, if it is accepted, is at least one image. *)
LEMMA AcceptedAsks ==
    ASSUME NEW b, parse_image_request(b).error = "none"
    PROVE  parse_image_request(b).n \in Nat \ {0}
  BY DEF parse_image_request, Refusal, Parsed

(* Why a body is refused. *)
LEMMA RefusedWith ==
    ASSUME NEW b
    PROVE  parse_image_request(b).error \in {"none", "invalid", "crash"}
  BY DEF parse_image_request, Refusal, Parsed

(* The elements of a sequence, by position. *)
LEMMA Elements ==
    ASSUME NEW S, NEW s \in Seq(S), NEW x
    PROVE  x \in ToSet(s) <=> \E k \in 1 .. Len(s) : x = s[k]
  <1>1. DOMAIN s = 1 .. Len(s)
    OBVIOUS
  <1> QED
    BY <1>1 DEF ToSet

(* Two sequences, one after the other, have the elements of both. *)
LEMMA ElementsOfConcatenation ==
    ASSUME NEW S, NEW u \in Seq(S), NEW v \in Seq(S)
    PROVE  /\ u \o v \in Seq(S) /\ Len(u \o v) = Len(u) + Len(v)
           /\ ToSet(u \o v) = ToSet(u) \cup ToSet(v)
  <1>1. u \o v \in Seq(S) /\ Len(u \o v) = Len(u) + Len(v)
    OBVIOUS
  <1>2. ASSUME NEW k \in 1 .. Len(u) PROVE (u \o v)[k] = u[k] /\ k \in 1 .. Len(u \o v)
    BY <1>1
  <1>3. ASSUME NEW k \in 1 .. Len(v)
        PROVE  (u \o v)[k + Len(u)] = v[k] /\ k + Len(u) \in 1 .. Len(u \o v)
    BY <1>1
  <1>4. ASSUME NEW x \in ToSet(u) \cup ToSet(v) PROVE x \in ToSet(u \o v)
    <2>1. CASE x \in ToSet(u)
      <3>1. PICK k \in 1 .. Len(u) : x = u[k]
        BY <2>1, Elements
      <3> QED
        BY <1>1, <1>2, <3>1, Elements
    <2>2. CASE x \in ToSet(v)
      <3>1. PICK k \in 1 .. Len(v) : x = v[k]
        BY <2>2, Elements
      <3>2. x = (u \o v)[k + Len(u)] /\ k + Len(u) \in 1 .. Len(u \o v)
        BY <1>3, <3>1
      <3> QED
        BY <1>1, <3>2, Elements
    <2> QED
      BY <1>4, <2>1, <2>2
  <1>5. ASSUME NEW x \in ToSet(u \o v) PROVE x \in ToSet(u) \cup ToSet(v)
    <2>1. PICK k \in 1 .. Len(u \o v) : x = (u \o v)[k]
      BY <1>1, <1>5, Elements
    <2>2. CASE k <= Len(u)
      <3>1. k \in 1 .. Len(u) /\ x = u[k]
        BY <1>1, <2>1, <2>2
      <3> QED
        BY <3>1, Elements
    <2>3. CASE k > Len(u)
      <3>1. k - Len(u) \in 1 .. Len(v) /\ x = v[k - Len(u)]
        BY <1>1, <2>1, <2>3
      <3> QED
        BY <3>1, Elements
    <2> QED
      BY <1>1, <2>2, <2>3
  <1> QED
    BY <1>1, <1>4, <1>5

(* A sequence that is cut in two, with the parts swapped, has the elements  *)
(* it had: rotate_credentials offers every credential.                      *)
LEMMA RotationKeepsElements ==
    ASSUME NEW S, NEW s \in Seq(S), NEW m \in 0 .. Len(s)
    PROVE  /\ SubSeq(s, m + 1, Len(s)) \o SubSeq(s, 1, m) \in Seq(S)
           /\ ToSet(SubSeq(s, m + 1, Len(s)) \o SubSeq(s, 1, m)) = ToSet(s)
  <1> DEFINE u == SubSeq(s, m + 1, Len(s))
             v == SubSeq(s, 1, m)
  <1>1. /\ u \in Seq(S) /\ Len(u) = Len(s) - m
        /\ \A n \in 1 .. Len(u) : u[n] = s[m + n]
    OBVIOUS
  <1>2. /\ v \in Seq(S) /\ Len(v) = m
        /\ \A n \in 1 .. Len(v) : v[n] = s[n]
    OBVIOUS
  <1>3. u \o v \in Seq(S) /\ ToSet(u \o v) = ToSet(u) \cup ToSet(v)
    BY <1>1, <1>2, ElementsOfConcatenation
  <1> HIDE DEF u, v
  <1>4. ASSUME NEW x \in ToSet(u) \cup ToSet(v) PROVE x \in ToSet(s)
    <2>1. CASE x \in ToSet(u)
      <3>1. PICK n \in 1 .. Len(u) : x = u[n]
        BY <1>1, <2>1, Elements
      <3>2. m + n \in 1 .. Len(s) /\ x = s[m + n]
        BY <1>1, <3>1
      <3> QED
        BY <3>2, Elements
    <2>2. CASE x \in ToSet(v)
      <3>1. PICK n \in 1 .. Len(v) : x = v[n]
        BY <1>2, <2>2, Elements
      <3>2. n \in 1 .. Len(s) /\ x = s[n]
        BY <1>2, <3>1
      <3> QED
        BY <3>2, Elements
    <2> QED
      BY <1>4, <2>1, <2>2
  <1>5. ASSUME NEW x \in ToSet(s) PROVE x \in ToSet(u) \cup ToSet(v)
    <2>1. PICK k \in 1 .. Len(s) : x = s[k]
      BY <1>5, Elements
    <2>2. CASE k <= m
      <3>1. k \in 1 .. Len(v) /\ x = v[k]
        BY <1>2, <2>1, <2>2
      <3> QED
        BY <1>2, <3>1, Elements
    <2>3. CASE k > m
      <3>1. k - m \in 1 .. Len(u) /\ x = u[k - m]
        BY <1>1, <2>1, <2>3
      <3> QED
        BY <1>1, <3>1, Elements
    <2> QED
      BY <2>2, <2>3
  <1>6. ToSet(u \o v) = ToSet(s)
    BY <1>3, <1>4, <1>5
  <1> QED
    BY <1>3, <1>6 DEF u, v

-----------------------------------------------------------------------------
(* A step of image i's thread touches no other image's variables. *)
OnlyMoves(i) ==
    \A j \in Image \ {i} :
      /\ pc'[j] = pc[j] /\ order'[j] = order[j] /\ pos'[j] = pos[j]
      /\ attempted'[j] = attempted[j] /\ busy'[j] = busy[j] /\ result'[j] = result[j]

(* What such a step has to keep of Rounds, NoEarlySurrender and Served for  *)
(* its own image.                                                           *)
KeepsRound(i) ==
    /\ attempted'[i] \subseteq ToSet(order'[i])
    /\ pc'[i] = "queued" => attempted'[i] = {} /\ pos'[i] = 1
    /\ pc'[i] # "queued" => ToSet(order'[i]) = ToSet(Offered[i[1]])
    /\ pc'[i] \in {"generate", "unlock"} => order'[i][pos'[i]] \in attempted'[i]
    /\ pc'[i] # "done" /\ ~busy'[i] =>
         \A n \in 1 .. pos'[i] - 1 : order'[i][n] \in attempted'[i]
    /\ result'[i] \in {"credential_expired", "unavailable"} =>
         pc'[i] = "done" /\ attempted'[i] = ToSet(Offered[i[1]])

(* The invariants about single images follow. *)
LEMMA RoundsKept ==
    ASSUME NEW i \in Image, TypeOK, Rounds, NoEarlySurrender, OnlyMoves(i), KeepsRound(i)
    PROVE  Rounds' /\ NoEarlySurrender'
  <1>1. Rounds'
    <2> SUFFICES ASSUME NEW j \in Image
        PROVE /\ attempted'[j] \subseteq ToSet(order'[j])
              /\ pc'[j] = "queued" => attempted'[j] = {} /\ pos'[j] = 1
              /\ pc'[j] # "queued" => ToSet(order'[j]) = ToSet(Offered[j[1]])
              /\ pc'[j] \in {"generate", "unlock"} => Current(j)' \in attempted'[j]
              /\ pc'[j] # "done" /\ ~busy'[j] =>
                   \A n \in 1 .. pos'[j] - 1 : order'[j][n] \in attempted'[j]
              /\ result'[j] \in {"credential_expired", "unavailable"} => pc'[j] = "done"
      BY DEF Rounds
    <2>1. CASE j = i
      BY <2>1 DEF KeepsRound, Current
    <2>2. CASE j # i
      BY <2>2 DEF OnlyMoves, Rounds, Current
    <2> QED
      BY <2>1, <2>2
  <1>2. NoEarlySurrender'
    BY DEF NoEarlySurrender, OnlyMoves, KeepsRound
  <1> QED
    BY <1>1, <1>2

(* A thread that is under way belongs to a request that is not answered. *)
LEMMA UnderWay ==
    ASSUME NEW i \in Image, Served, pc[i] \notin {"queued", "done"}
    PROVE  i \in ImagesOf(i[1]) /\ reply[i[1]] = "none"
  <1>1. i \in ImagesOf(i[1]) /\ i[1] \in Requests
    BY DEF Served, Image
  <1> QED
    BY <1>1 DEF Served

(* So it may go on to any label, and stays one of its request's images. *)
LEMMA ServedKept ==
    ASSUME NEW i \in Image, TypeOK, Served, OnlyMoves(i),
           UNCHANGED <<asked, reply>>, i \in ImagesOf(i[1]), reply[i[1]] = "none"
    PROVE  Served'
  <1>1. \A r : ImagesOf(r)' = ImagesOf(r)
    BY DEF ImagesOf
  <1>2. ASSUME NEW j \in Image, pc'[j] # "queued" PROVE j \in ImagesOf(j[1])'
    BY <1>1, <1>2 DEF Served, OnlyMoves
  <1>3. ASSUME NEW r \in Requests, reply'[r] # "none", NEW j \in ImagesOf(r)
        PROVE  pc'[j] = "done"
    <2>1. j[1] = r /\ j \in Image
      BY OfferedAssumption DEF ImagesOf, Image, TypeOK
    <2>2. j # i
      BY <1>3, <2>1
    <2> QED
      BY <1>3, <2>1, <2>2 DEF Served, OnlyMoves
  <1>4. \A r \in Requests : asked'[r] > 0 => Offered[r] # <<>>
    BY DEF Served
  <1> QED
    BY <1>1, <1>2, <1>3, <1>4 DEF Served

-----------------------------------------------------------------------------
(* An image that keeps using its credential, or keeps not using one, keeps  *)
(* the locks in order.                                                      *)
LEMMA LocksKept ==
    ASSUME NEW i \in Image, TypeOK, OneImagePerCredential, OnlyMoves(i),
           UNCHANGED lock, pc[i] \in Using <=> pc'[i] \in Using,
           pc[i] \in Using => Current(i)' = Current(i)
    PROVE  OneImagePerCredential'
  <1>1. \A j \in Image : (pc[j] \in Using <=> pc'[j] \in Using)
                          /\ (pc[j] \in Using => Current(j)' = Current(j))
    BY DEF OnlyMoves, Current
  <1>2. \A k \in Credentials : lock[k] # Nobody => lock[k] \in Image
    BY DEF TypeOK
  <1> QED
    BY <1>1, <1>2 DEF OneImagePerCredential

(* The credential that an image is trying or using. *)
LEMMA CurrentIsOffered ==
    ASSUME NEW i \in Image, TypeOK,
           pc[i] \in Using \cup {"try"} \/ pos[i] <= Len(order[i])
    PROVE  Current(i) \in Credentials /\ Current(i) \in ToSet(order[i])
  <1>1. pos[i] \in 1 .. Len(order[i]) /\ order[i] \in Seq(Credentials)
    BY DEF TypeOK
  <1> QED
    BY <1>1, Elements DEF Current

(* Nor does one that lets its credential go disturb them. *)
LEMMA LockReleased ==
    ASSUME NEW i \in Image, TypeOK, OneImagePerCredential, OnlyMoves(i),
           Release(i), pc[i] \in Using, pc'[i] \notin Using
    PROVE  OneImagePerCredential'
  <1>1. Current(i) \in Credentials /\ lock[Current(i)] = i
    BY CurrentIsOffered DEF OneImagePerCredential
  <1>2. /\ lock'[Current(i)] = Nobody
        /\ \A k \in Credentials : k # Current(i) => lock'[k] = lock[k]
    BY <1>1 DEF Release, TypeOK
  <1>3. ASSUME NEW j \in Image, pc'[j] \in Using PROVE lock'[Current(j)'] = j
    <2>1. j # i /\ pc[j] \in Using /\ Current(j)' = Current(j)
      BY <1>3 DEF OnlyMoves, Current
    <2>2. Current(j) \in Credentials /\ lock[Current(j)] = j
      BY <2>1, CurrentIsOffered DEF OneImagePerCredential
    <2> QED
      BY <1>1, <1>2, <2>1, <2>2
  <1>4. ASSUME NEW k \in Credentials, NEW j \in Image, lock'[k] = j
        PROVE  pc'[j] \in Using /\ Current(j)' = k
    <2>1. j # Nobody
      BY NobodyIsNoImage
    <2>2. k # Current(i) /\ lock[k] = j
      BY <1>2, <1>4, <2>1
    <2>3. pc[j] \in Using /\ Current(j) = k
      BY <2>1, <2>2 DEF OneImagePerCredential
    <2>4. j # i
      BY <2>2, <2>3
    <2> QED
      BY <2>3, <2>4 DEF OnlyMoves, Current
  <1>5. ASSUME NEW k \in Credentials, lock'[k] # Nobody PROVE lock'[k] \in Image
    BY <1>2, <1>5 DEF TypeOK
  <1>6. \A k \in Credentials :
          lock'[k] # Nobody =>
            pc'[lock'[k]] \in Using /\ order'[lock'[k]][pos'[lock'[k]]] = k
    BY <1>4, <1>5 DEF Current
  <1> QED
    BY <1>3, <1>6 DEF OneImagePerCredential, Current

(* An image that starts to use a credential finds it cool; the others keep  *)
(* theirs.                                                                  *)
LEMMA CoolingKept ==
    ASSUME NEW i \in Image, NoUseWhileCooling, OnlyMoves(i), UNCHANGED cooldown,
           pc'[i] = "generate" => cooldown[Current(i)'] = "none"
    PROVE  NoUseWhileCooling'
  BY DEF NoUseWhileCooling, OnlyMoves, Current

-----------------------------------------------------------------------------
(* A step of an image's thread keeps the invariant when it keeps the parts  *)
(* of it.                                                                   *)
LEMMA ImageStepKeeps ==
    ASSUME NEW i \in Image, Scheduled, TypeOK', OnlyMoves(i), KeepsRound(i),
           OneImagePerCredential', NoUseWhileCooling',
           UNCHANGED <<asked, reply>>,
           pc[i] \notin {"queued", "done"} \/
             (i \in ImagesOf(i[1]) /\ reply[i[1]] = "none")
    PROVE  Scheduled'
  <1>1. i \in ImagesOf(i[1]) /\ reply[i[1]] = "none"
    BY UnderWay DEF Scheduled
  <1>2. Rounds' /\ NoEarlySurrender'
    BY RoundsKept DEF Scheduled
  <1>3. Served'
    BY <1>1, ServedKept DEF Scheduled
  <1> QED
    BY <1>2, <1>3 DEF Scheduled

(* Positions stay within their sequences when the image's own does. *)
LEMMA PositionsKept ==
    ASSUME NEW i \in Image, TypeOK, OnlyMoves(i), pos'[i] <= Len(order'[i]) + 1,
           pc'[i] \in Using \cup {"try"} => pos'[i] <= Len(order'[i])
    PROVE  \A j \in Image :
             /\ pos'[j] <= Len(order'[j]) + 1
             /\ pc'[j] \in Using \cup {"try"} => pos'[j] <= Len(order'[j])
  <1> SUFFICES ASSUME NEW j \in Image
               PROVE  /\ pos'[j] <= Len(order'[j]) + 1
                      /\ pc'[j] \in Using \cup {"try"} => pos'[j] <= Len(order'[j])
    OBVIOUS
  <1>1. CASE j = i
    BY <1>1
  <1>2. CASE j # i
    <2>1. pc'[j] = pc[j] /\ order'[j] = order[j] /\ pos'[j] = pos[j]
      BY <1>2 DEF OnlyMoves
    <2>2. /\ pos[j] <= Len(order[j]) + 1
          /\ pc[j] \in Using \cup {"try"} => pos[j] <= Len(order[j])
      BY DEF TypeOK
    <2> QED
      BY <2>1, <2>2
  <1> QED
    BY <1>1, <1>2

(* "continue" goes to the next position, which ends the round at the latest *)
(* after the last.                                                          *)
LEMMA ContinueFacts ==
    ASSUME NEW i \in Image, TypeOK, Continue(i), UNCHANGED order, pos[i] <= Len(order[i])
    PROVE  /\ pc' \in [Image -> {"queued", "scan", "try", "done"} \cup Using]
           /\ pos' \in [Image -> Nat \ {0}]
           /\ pc'[i] = "scan" /\ pos'[i] = pos[i] + 1
           /\ \A j \in Image \ {i} : pc'[j] = pc[j] /\ pos'[j] = pos[j]
           /\ \A j \in Image :
                /\ pos'[j] <= Len(order'[j]) + 1
                /\ pc'[j] \in Using \cup {"try"} => pos'[j] <= Len(order'[j])
  <1>1. /\ pc' \in [Image -> {"queued", "scan", "try", "done"} \cup Using]
        /\ pos' \in [Image -> Nat \ {0}]
        /\ pc'[i] = "scan" /\ pos'[i] = pos[i] + 1
        /\ \A j \in Image \ {i} : pc'[j] = pc[j] /\ pos'[j] = pos[j]
    BY DEF Continue, Goto, TypeOK, Using
  <1>2. pos[i] + 1 <= Len(order[i]) + 1
    BY DEF TypeOK
  <1> QED
    BY <1>1, <1>2 DEF TypeOK, Using

(* The end of generate_one, whatever it raises. *)
LEMMA ConcludeFacts ==
    ASSUME NEW i \in Image, TypeOK, Conclude(i)
    PROVE  /\ pc' \in [Image -> {"queued", "scan", "try", "done"} \cup Using]
           /\ result' \in [Image -> Results]
           /\ pc'[i] = "done" /\ UNCHANGED <<pos, busy>>
           /\ Expired(i) => result'[i] = "timeout"
           /\ \A j \in Image \ {i} : pc'[j] = pc[j] /\ result'[j] = result[j]
  <1>1. /\ pc' \in [Image -> {"queued", "scan", "try", "done"} \cup Using]
        /\ pc'[i] = "done" /\ UNCHANGED <<pos, busy>>
        /\ \A j \in Image \ {i} : pc'[j] = pc[j]
    BY DEF Conclude, Goto, TypeOK
  <1>2. PICK how \in {"timeout", "credential_expired", "unavailable"} :
          result' = [result EXCEPT ![i] = how] /\ (Expired(i) => how = "timeout")
    BY DEF Conclude
  <1> QED
    BY <1>1, <1>2 DEF TypeOK, Results

(* The start of a round. *)
LEMMA NewRoundFacts ==
    ASSUME NEW i \in Image, TypeOK, NewRound(i)
    PROVE  /\ pc' \in [Image -> {"queued", "scan", "try", "done"} \cup Using]
           /\ pos' \in [Image -> Nat \ {0}] /\ busy' \in [Image -> BOOLEAN]
           /\ pc'[i] = "scan" /\ pos'[i] = 1 /\ UNCHANGED result
           /\ \A j \in Image \ {i} : pc'[j] = pc[j] /\ pos'[j] = pos[j] /\ busy'[j] = busy[j]
  BY DEF NewRound, Goto, TypeOK

-----------------------------------------------------------------------------
(* One lemma for each action of an image's thread.                          *)

(* The image starts its first round, with nothing tried, or is told at once *)
(* that its time is up.                                                     *)
LEMMA BeginKeeps ==
    ASSUME NEW i \in Image, Scheduled, Begin(i)
    PROVE  Scheduled'
  <1> DEFINE offered == Offered[i[1]]
             start   == (cursor + i[2]) % Len(offered)
             rotated == SubSeq(offered, start + 1, Len(offered)) \o SubSeq(offered, 1, start)
  <1>1. /\ i \in ImagesOf(i[1]) /\ i[1] \in Requests /\ i[2] \in Nat
        /\ offered \in Seq(Credentials) /\ pc[i] = "queued"
    BY OfferedAssumption DEF Begin, Image
  <1>2. asked[i[1]] > 0 /\ asked[i[1]] \in Nat /\ reply[i[1]] = "none"
    <2>1. asked[i[1]] \in Nat
      BY <1>1, OfferedAssumption DEF Scheduled, TypeOK
    <2>2. asked[i[1]] > 0
      BY <1>1, <2>1 DEF ImagesOf
    <2>3. reply[i[1]] = "none"
      BY <1>1 DEF Scheduled, Served
    <2> QED
      BY <2>1, <2>2, <2>3
  <1>3. Len(offered) \in Nat \ {0}
    BY <1>1, <1>2 DEF Scheduled, Served
  <1>4. start \in 0 .. Len(offered) /\ (cursor + 1) % Len(offered) \in Nat
    <2>1. cursor + i[2] \in Nat /\ cursor + 1 \in Nat
      BY <1>1 DEF Scheduled, TypeOK
    <2> HIDE DEF offered
    <2> QED
      BY <1>3, <2>1
  <1>5. rotated \in Seq(Credentials) /\ ToSet(rotated) = ToSet(offered)
    BY <1>1, <1>4, RotationKeepsElements
  <1>6. order' = [order EXCEPT ![i] = rotated] /\ cursor' \in Nat
    BY <1>4 DEF Begin
  <1> HIDE DEF rotated, start
  <1>7. UNCHANGED <<lock, cooldown, given, attempted, statuses, reply>>
    BY DEF Begin
  <1>8. /\ order' \in [Image -> Seq(Credentials)] /\ order'[i] = rotated
        /\ \A j \in Image \ {i} : order'[j] = order[j]
    BY <1>5, <1>6 DEF Scheduled, TypeOK
  <1>9. attempted[i] = {} /\ pos[i] = 1
    BY <1>1 DEF Scheduled, Rounds
  <1>10. CASE Conclude(i) /\ Expired(i)
    <2>1. pc'[i] = "done" /\ pos'[i] = 1 /\ UNCHANGED <<pos, busy>>
      BY <1>9, <1>10, ConcludeFacts DEF Scheduled
    <2>2. OnlyMoves(i) /\ KeepsRound(i)
      BY <1>5, <1>7, <1>8, <1>9, <1>10, ConcludeFacts DEF Scheduled, OnlyMoves, KeepsRound
    <2>3. \A j \in Image :
            /\ pos'[j] <= Len(order'[j]) + 1
            /\ pc'[j] \in Using \cup {"try"} => pos'[j] <= Len(order'[j])
      <3>1. Len(order'[i]) \in Nat
        BY <1>8
      <3>2. pc'[i] \notin Using \cup {"try"}
        BY <2>1 DEF Using
      <3>3. pos'[i] <= Len(order'[i]) + 1
        BY <2>1, <3>1
      <3> QED
        BY <2>2, <3>2, <3>3, PositionsKept DEF Scheduled
    <2>4. TypeOK'
      BY <1>6, <1>7, <1>8, <1>10, <2>1, <2>3, ConcludeFacts DEF Scheduled, TypeOK, given
    <2>5. OneImagePerCredential' /\ NoUseWhileCooling'
      BY <1>1, <1>7, <2>1, <2>2, LocksKept, CoolingKept DEF Scheduled, Using
    <2> QED
      BY <1>1, <1>2, <1>7, <2>2, <2>4, <2>5, ImageStepKeeps DEF given
  <1>11. CASE NewRound(i)
    <2>1. pc'[i] = "scan" /\ pos'[i] = 1 /\ UNCHANGED result
      BY <1>11, NewRoundFacts DEF Scheduled
    <2>2. result[i] \notin {"credential_expired", "unavailable"}
      BY <1>1 DEF Scheduled, Rounds
    <2>3. OnlyMoves(i) /\ KeepsRound(i)
      BY <1>5, <1>7, <1>8, <1>9, <1>11, <2>2, NewRoundFacts
      DEF Scheduled, OnlyMoves, KeepsRound
    <2>4. \A j \in Image :
            /\ pos'[j] <= Len(order'[j]) + 1
            /\ pc'[j] \in Using \cup {"try"} => pos'[j] <= Len(order'[j])
      <3>1. Len(order'[i]) \in Nat
        BY <1>8
      <3>2. pc'[i] \notin Using \cup {"try"}
        BY <2>1 DEF Using
      <3>3. pos'[i] <= Len(order'[i]) + 1
        BY <2>1, <3>1
      <3> QED
        BY <2>3, <3>2, <3>3, PositionsKept DEF Scheduled
    <2>5. TypeOK'
      BY <1>6, <1>7, <1>8, <1>11, <2>1, <2>4, NewRoundFacts DEF Scheduled, TypeOK, given
    <2>6. OneImagePerCredential' /\ NoUseWhileCooling'
      BY <1>1, <1>7, <2>1, <2>3, LocksKept, CoolingKept DEF Scheduled, Using
    <2> QED
      BY <1>1, <1>2, <1>7, <2>3, <2>5, <2>6, ImageStepKeeps DEF given
  <1> QED
    BY <1>10, <1>11 DEF Begin

(* The image goes on to its next credential: it gave this one up, or found  *)
(* it busy, and holds no lock any more.                                     *)
LEMMA ContinueKeeps ==
    ASSUME NEW i \in Image, Scheduled, Continue(i), pos[i] <= Len(order[i]),
           pc[i] \notin {"queued", "done"},
           UNCHANGED <<cursor, cooldown, given, order, statuses, result, reply>>,
           UNCHANGED attempted \/ GiveUp(i),
           UNCHANGED busy \/ busy' = [busy EXCEPT ![i] = TRUE],
           Current(i) \in attempted'[i] \/ busy'[i],
           \/ UNCHANGED lock /\ pc[i] \notin Using
           \/ Release(i) /\ pc[i] \in Using
    PROVE  Scheduled'
  <1>1. Current(i) \in Credentials /\ Current(i) \in ToSet(order[i])
    BY CurrentIsOffered DEF Scheduled
  <1>2. /\ attempted' \in [Image -> SUBSET Credentials]
        /\ attempted'[i] \in {attempted[i], attempted[i] \cup {Current(i)}}
        /\ \A j \in Image \ {i} : attempted'[j] = attempted[j]
    <2>1. CASE UNCHANGED attempted
      BY <2>1 DEF Scheduled, TypeOK
    <2>2. CASE GiveUp(i)
      <3>1. attempted[i] \cup {Current(i)} \in SUBSET Credentials
        BY <1>1 DEF Scheduled, TypeOK
      <3> QED
        BY <2>2, <3>1 DEF GiveUp, Scheduled, TypeOK
    <2> QED
      BY <2>1, <2>2
  <1>3. /\ busy' \in [Image -> BOOLEAN] /\ (~busy'[i] => ~busy[i])
        /\ \A j \in Image \ {i} : busy'[j] = busy[j]
    BY DEF Scheduled, TypeOK
  <1>4. lock' \in [Credentials -> Image \cup {Nobody}]
    BY <1>1 DEF Release, Scheduled, TypeOK
  <1>5. TypeOK'
    BY <1>2, <1>3, <1>4, ContinueFacts DEF Scheduled, TypeOK, given
  <1>6. OnlyMoves(i)
    BY <1>2, <1>3, ContinueFacts DEF Scheduled, OnlyMoves
  <1>7. ASSUME ~busy'[i], NEW n \in 1 .. pos'[i] - 1
        PROVE  order'[i][n] \in attempted'[i]
    <2>1. n \in 1 .. pos[i] /\ pos[i] \in Nat
      <3>1. pos[i] \in Nat /\ pos'[i] = pos[i] + 1
        BY ContinueFacts DEF Scheduled, TypeOK
      <3> QED
        BY <3>1
    <2>2. CASE n = pos[i]
      BY <1>7, <2>2 DEF Current
    <2>3. CASE n # pos[i]
      <3>1. n \in 1 .. pos[i] - 1
        BY <2>1, <2>3
      <3> QED
        BY <1>2, <1>3, <1>7, <3>1 DEF Scheduled, Rounds
    <2> QED
      BY <2>2, <2>3
  <1>8. KeepsRound(i)
    <2>1. pc'[i] = "scan"
      BY ContinueFacts DEF Scheduled
    <2>2. result[i] \notin {"credential_expired", "unavailable"}
      BY DEF Scheduled, Rounds
    <2> QED
      BY <1>1, <1>2, <1>7, <2>1, <2>2 DEF Scheduled, Rounds, KeepsRound
  <1>9. OneImagePerCredential'
    <2>1. pc'[i] \notin Using
      BY ContinueFacts DEF Scheduled, Using
    <2> QED
      BY <1>6, <2>1, LocksKept, LockReleased DEF Scheduled
  <1>10. NoUseWhileCooling'
    BY <1>6, ContinueFacts, CoolingKept DEF Scheduled
  <1> QED
    BY <1>5, <1>6, <1>8, <1>9, <1>10, ImageStepKeeps DEF given

(* A credential that was tried before is passed over, *)
LEMMA SkipAttemptedKeeps ==
    ASSUME NEW i \in Image, Scheduled, SkipAttempted(i)
    PROVE  Scheduled'
  BY ContinueKeeps DEF SkipAttempted, shared, Using

(* and one that is cooling down is given up. *)
LEMMA SkipCoolingKeeps ==
    ASSUME NEW i \in Image, Scheduled, SkipCooling(i)
    PROVE  Scheduled'
  <1>1. Current(i) \in attempted'[i]
    BY DEF SkipCooling, GiveUp, Scheduled, TypeOK
  <1> QED
    BY <1>1, ContinueKeeps DEF SkipCooling, shared, Using

(* One whose lock is taken counts as busy. *)
LEMMA TryBusyKeeps ==
    ASSUME NEW i \in Image, Scheduled, TryBusy(i)
    PROVE  Scheduled'
  <1>1. busy'[i] /\ pos[i] <= Len(order[i])
    BY DEF TryBusy, Scheduled, TypeOK
  <1> QED
    BY <1>1, ContinueKeeps DEF TryBusy, shared, Using

(* The second look finds the credential cooling down: back goes the lock. *)
LEMMA RecheckCoolingKeeps ==
    ASSUME NEW i \in Image, Scheduled, RecheckCooling(i)
    PROVE  Scheduled'
  <1>1. Current(i) \in attempted'[i] /\ pos[i] <= Len(order[i])
    BY DEF RecheckCooling, GiveUp, Scheduled, TypeOK, Using
  <1> QED
    BY <1>1, ContinueKeeps DEF RecheckCooling, Using

(* A step that changes the label alone, with what the image knows and holds *)
(* fitting the new one.                                                     *)
LEMMA GotoKeeps ==
    ASSUME NEW i \in Image, Scheduled, NEW next \in {"try", "recheck", "generate", "unlock", "done"},
           Goto(i, next), pc[i] \notin {"queued", "done"}, TypeOK',
           pos[i] <= Len(order[i]),
           UNCHANGED <<given, order, pos, busy, reply>>,
           UNCHANGED attempted \/ GiveUp(i),
           \A j \in Image \ {i} : result'[j] = result[j],
           result'[i] \in {"none", "image", result[i]},
           next \in {"generate", "unlock"} => Current(i) \in attempted'[i],
           OneImagePerCredential', NoUseWhileCooling'
    PROVE  Scheduled'
  <1>1. /\ pc'[i] = next /\ \A j \in Image \ {i} : pc'[j] = pc[j]
        /\ \A j \in Image \ {i} : attempted'[j] = attempted[j]
    BY DEF Goto, GiveUp, Scheduled, TypeOK
  <1>2. OnlyMoves(i)
    BY <1>1 DEF OnlyMoves
  <1>3. result'[i] \notin {"credential_expired", "unavailable"}
    BY DEF Scheduled, Rounds
  <1>4. /\ attempted[i] \subseteq attempted'[i]
        /\ attempted'[i] \subseteq ToSet(order[i])
    <2>1. CASE UNCHANGED attempted
      BY <2>1 DEF Scheduled, Rounds
    <2>2. CASE GiveUp(i)
      <3>1. attempted'[i] = attempted[i] \cup {Current(i)}
        BY <2>2 DEF GiveUp, Scheduled, TypeOK
      <3>2. Current(i) \in ToSet(order[i])
        BY CurrentIsOffered DEF Scheduled
      <3> QED
        BY <3>1, <3>2 DEF Scheduled, Rounds
    <2> QED
      BY <2>1, <2>2
  <1>5. KeepsRound(i)
    BY <1>1, <1>3, <1>4 DEF KeepsRound, Current, Scheduled, Rounds
  <1> QED
    BY <1>2, <1>5, ImageStepKeeps DEF given

(* The first look finds the credential usable; so far nothing is held. *)
LEMMA ChooseKeeps ==
    ASSUME NEW i \in Image, Scheduled, Choose(i)
    PROVE  Scheduled'
  <1>1. pos[i] <= Len(order[i]) /\ pc[i] = "scan" /\ pc'[i] = "try"
    BY DEF Choose, Goto, Scheduled, TypeOK
  <1>2. \A j \in Image \ {i} : pc'[j] = pc[j]
    BY DEF Choose, Goto, Scheduled, TypeOK
  <1>3. TypeOK'
    BY <1>1, <1>2 DEF Choose, Goto, Scheduled, TypeOK, shared, given, local, scan
  <1>4. OnlyMoves(i)
    BY <1>2 DEF Choose, OnlyMoves, local, scan
  <1>5. OneImagePerCredential' /\ NoUseWhileCooling'
    BY <1>1, <1>4, LocksKept, CoolingKept DEF Choose, Scheduled, Using, shared
  <1> QED
    BY <1>1, <1>3, <1>5, GotoKeeps DEF Choose, local, scan

(* The lock was free: nobody uses the credential, and now i may. *)
LEMMA TryLockKeeps ==
    ASSUME NEW i \in Image, Scheduled, TryLock(i)
    PROVE  Scheduled'
  <1>1. /\ pos[i] <= Len(order[i]) /\ pc[i] = "try" /\ pc'[i] = "recheck"
        /\ Current(i) \in Credentials /\ lock[Current(i)] = Nobody
    BY CurrentIsOffered DEF TryLock, Goto, Scheduled, TypeOK
  <1>2. \A j \in Image \ {i} : pc'[j] = pc[j]
    BY DEF TryLock, Goto, Scheduled, TypeOK
  <1>3. /\ lock' \in [Credentials -> Image \cup {Nobody}] /\ lock'[Current(i)] = i
        /\ \A k \in Credentials : k # Current(i) => lock'[k] = lock[k]
    BY <1>1 DEF TryLock, Scheduled, TypeOK
  <1>4. TypeOK'
    BY <1>1, <1>2, <1>3 DEF TryLock, Goto, Scheduled, TypeOK, given, local, scan, Using
  <1>5. OnlyMoves(i)
    BY <1>2 DEF TryLock, OnlyMoves, local, scan
  <1>6. \A j \in Image : Current(j)' = Current(j)
    BY DEF TryLock, Current, local, scan
  <1>7. ASSUME NEW j \in Image, pc'[j] \in Using PROVE lock'[Current(j)'] = j
    <2>1. CASE j = i
      BY <1>3, <1>6, <2>1
    <2>2. CASE j # i
      <3>1. pc[j] \in Using
        BY <1>2, <1>7, <2>2
      <3>2. lock[Current(j)] = j /\ Current(j) \in Credentials
        BY <3>1, CurrentIsOffered DEF Scheduled, OneImagePerCredential
      <3>3. Current(j) # Current(i)
        BY <1>1, <3>2, NobodyIsNoImage
      <3> QED
        BY <1>3, <1>6, <3>2, <3>3
    <2> QED
      BY <2>1, <2>2
  <1>8. ASSUME NEW k \in Credentials, NEW j \in Image, lock'[k] = j
        PROVE  pc'[j] \in Using /\ Current(j)' = k
    <2>1. CASE k = Current(i)
      BY <1>1, <1>3, <1>6, <1>8, <2>1 DEF Using
    <2>2. CASE k # Current(i)
      <3>1. lock[k] = j /\ j # Nobody
        BY <1>3, <1>8, <2>2, NobodyIsNoImage
      <3>2. pc[j] \in Using /\ Current(j) = k
        BY <3>1 DEF Scheduled, OneImagePerCredential
      <3> QED
        BY <1>1, <1>2, <1>6, <3>2 DEF Using
    <2> QED
      BY <2>1, <2>2
  <1>9. ASSUME NEW k \in Credentials, lock'[k] # Nobody PROVE lock'[k] \in Image
    BY <1>3, <1>9
  <1>10. OneImagePerCredential'
    <2>1. \A k \in Credentials :
            lock'[k] # Nobody =>
              pc'[lock'[k]] \in Using /\ order'[lock'[k]][pos'[lock'[k]]] = k
      BY <1>8, <1>9 DEF Current
    <2> QED
      BY <1>7, <2>1 DEF OneImagePerCredential, Current
  <1>11. NoUseWhileCooling'
    BY <1>1, <1>5, CoolingKept DEF TryLock, Scheduled
  <1> QED
    BY <1>1, <1>4, <1>10, <1>11, GotoKeeps DEF TryLock, local, scan

(* The second look finds it usable: the generation starts. *)
LEMMA StartGenerationKeeps ==
    ASSUME NEW i \in Image, Scheduled, StartGeneration(i)
    PROVE  Scheduled'
  <1>1. /\ pos[i] <= Len(order[i]) /\ pc[i] = "recheck" /\ pc'[i] = "generate"
        /\ Current(i) \in Credentials
    BY CurrentIsOffered DEF StartGeneration, Goto, Scheduled, TypeOK, Using
  <1>2. \A j \in Image \ {i} : pc'[j] = pc[j]
    BY DEF StartGeneration, Goto, Scheduled, TypeOK
  <1>3. /\ attempted' \in [Image -> SUBSET Credentials] /\ Current(i) \in attempted'[i]
        /\ \A j \in Image \ {i} : attempted'[j] = attempted[j]
    <2>1. attempted[i] \cup {Current(i)} \in SUBSET Credentials
      BY <1>1 DEF Scheduled, TypeOK
    <2> QED
      BY <2>1 DEF StartGeneration, GiveUp, Scheduled, TypeOK
  <1>4. TypeOK'
    BY <1>1, <1>2, <1>3
    DEF StartGeneration, Goto, Scheduled, TypeOK, shared, given, Using
  <1>5. OnlyMoves(i)
    BY <1>2, <1>3 DEF StartGeneration, OnlyMoves
  <1>6. OneImagePerCredential' /\ NoUseWhileCooling'
    BY <1>1, <1>5, LocksKept, CoolingKept
    DEF StartGeneration, Scheduled, Using, shared, Current
  <1> QED
    BY <1>1, <1>3, <1>4, <1>5, <1>6, GotoKeeps DEF StartGeneration, OnlyMoves

(* It succeeds; the lock is still held. *)
LEMMA SucceedKeeps ==
    ASSUME NEW i \in Image, Scheduled, Succeed(i)
    PROVE  Scheduled'
  <1>1. /\ pos[i] <= Len(order[i]) /\ pc[i] = "generate" /\ pc'[i] = "unlock"
        /\ Current(i) \in attempted[i]
    BY DEF Succeed, Goto, Scheduled, TypeOK, Using, Rounds
  <1>2. \A j \in Image \ {i} : pc'[j] = pc[j] /\ result'[j] = result[j]
    BY DEF Succeed, Goto, Scheduled, TypeOK
  <1>3. TypeOK' /\ result'[i] = "image"
    BY <1>1, <1>2 DEF Succeed, Goto, Scheduled, TypeOK, shared, given, scan, Using, Results
  <1>4. OnlyMoves(i)
    BY <1>2 DEF Succeed, OnlyMoves, scan
  <1>5. OneImagePerCredential' /\ NoUseWhileCooling'
    BY <1>1, <1>4, LocksKept, CoolingKept DEF Succeed, Scheduled, Using, shared, scan, Current
  <1> QED
    BY <1>1, <1>2, <1>3, <1>5, GotoKeeps DEF Succeed, scan

(* It fails, and the cooldown it may set is that of a credential no other   *)
(* image is using.                                                          *)
LEMMA FailKeeps ==
    ASSUME NEW i \in Image, Scheduled, NEW status \in SUBSET {"auth", "other"},
           NEW length \in Cooldown, Fail(i, status, length)
    PROVE  Scheduled'
  <1>1. /\ pos[i] <= Len(order[i]) /\ pc[i] = "generate" /\ pc'[i] = "unlock"
        /\ Current(i) \in attempted[i] /\ Current(i) \in Credentials
    BY CurrentIsOffered DEF Fail, Goto, Scheduled, TypeOK, Using, Rounds
  <1>2. \A j \in Image \ {i} : pc'[j] = pc[j]
    BY DEF Fail, Goto, Scheduled, TypeOK
  <1>3. /\ cooldown' \in [Credentials -> Cooldown]
        /\ \A k \in Credentials : k # Current(i) => cooldown'[k] = cooldown[k]
    BY <1>1 DEF Fail, Scheduled, TypeOK
  <1>4. statuses' \in [Image -> SUBSET {"auth", "other"}]
    <2>1. statuses[i] \cup status \in SUBSET {"auth", "other"}
      BY DEF Scheduled, TypeOK
    <2> QED
      BY <2>1 DEF Fail, Scheduled, TypeOK
  <1>5. TypeOK'
    BY <1>1, <1>2, <1>3, <1>4 DEF Fail, Goto, Scheduled, TypeOK, given, scan, Using
  <1>6. OnlyMoves(i)
    BY <1>2 DEF Fail, OnlyMoves, scan
  <1>7. OneImagePerCredential'
    BY <1>1, <1>6, LocksKept DEF Fail, Scheduled, Using, scan, Current
  <1>8. NoUseWhileCooling'
    <2> SUFFICES ASSUME NEW j \in Image, pc'[j] = "generate"
                 PROVE  cooldown'[Current(j)'] = "none"
      BY DEF NoUseWhileCooling
    <2>1. j # i /\ pc[j] = "generate" /\ Current(j)' = Current(j)
      BY <1>1, <1>6 DEF OnlyMoves, Current
    <2>2. lock[Current(j)] = j /\ lock[Current(i)] = i /\ Current(j) \in Credentials
      BY <1>1, <2>1, CurrentIsOffered DEF Scheduled, OneImagePerCredential, Using
    <2> QED
      BY <1>3, <2>1, <2>2 DEF Scheduled, NoUseWhileCooling
  <1> QED
    BY <1>1, <1>5, <1>7, <1>8, GotoKeeps DEF Fail, scan

(* Every way for a generation to end is one of these. *)
LEMMA GenerationKeeps ==
    ASSUME NEW i \in Image, Scheduled, Generation(i)
    PROVE  Scheduled'
  <1>1. CASE Succeed(i)
    BY <1>1, SucceedKeeps
  <1>2. CASE Rejected(i) \/ Challenged(i)
    BY <1>2, FailKeeps DEF Rejected, Challenged, Cooldown
  <1>3. CASE Failed(i) \/ Refused(i) \/ TimedOut(i)
    BY <1>3, FailKeeps DEF Failed, Refused, TimedOut, Cooldown
  <1>4. CASE Crashed(i)
    BY <1>4, FailKeeps DEF Crashed, Cooldown
  <1> QED
    BY <1>1, <1>2, <1>3, <1>4 DEF Generation

(* The finally clause lets the lock go, and the image returns or goes on. *)
LEMMA UnlockKeeps ==
    ASSUME NEW i \in Image, Scheduled, Unlock(i)
    PROVE  Scheduled'
  <1>1. /\ pos[i] <= Len(order[i]) /\ pc[i] = "unlock" /\ pc[i] \in Using
        /\ Current(i) \in attempted[i] /\ Current(i) \in Credentials
    BY CurrentIsOffered DEF Unlock, Scheduled, TypeOK, Using, Rounds
  <1>2. CASE result[i] = "image"
    <2>1. Goto(i, "done") /\ UNCHANGED pos
      BY <1>2 DEF Unlock
    <2>2. pc'[i] = "done" /\ \A j \in Image \ {i} : pc'[j] = pc[j]
      BY <2>1 DEF Goto, Scheduled, TypeOK
    <2>3. lock' \in [Credentials -> Image \cup {Nobody}]
      BY <1>1 DEF Unlock, Release, Scheduled, TypeOK
    <2>4. TypeOK'
      BY <1>1, <2>1, <2>2, <2>3 DEF Unlock, Goto, Scheduled, TypeOK, given, Using
    <2>5. OnlyMoves(i)
      BY <2>1, <2>2 DEF Unlock, OnlyMoves
    <2>6. OneImagePerCredential' /\ NoUseWhileCooling'
      BY <1>1, <2>2, <2>5, LockReleased, CoolingKept DEF Unlock, Scheduled, Using
    <2> QED
      BY <1>1, <2>1, <2>4, <2>6, GotoKeeps DEF Unlock
  <1>3. CASE result[i] # "image"
    BY <1>1, <1>3, ContinueKeeps DEF Unlock
  <1> QED
    BY <1>2, <1>3

(* At the end of a round in which no lock was busy everything was tried. *)
LEMMA AllTried ==
    ASSUME NEW i \in Image, Scheduled, pc[i] = "scan", pos[i] > Len(order[i]), ~busy[i]
    PROVE  attempted[i] = ToSet(order[i])
  <1>1. order[i] \in Seq(Credentials) /\ Len(order[i]) \in Nat /\ pos[i] \in Nat
    BY DEF Scheduled, TypeOK
  <1>2. ASSUME NEW n \in 1 .. Len(order[i]) PROVE order[i][n] \in attempted[i]
    <2>1. n \in 1 .. pos[i] - 1
      BY <1>1
    <2> QED
      BY <2>1 DEF Scheduled, Rounds
  <1>3. ToSet(order[i]) \subseteq attempted[i]
    BY <1>1, <1>2, Elements
  <1> QED
    BY <1>3 DEF Scheduled, Rounds

(* The image goes round again, or surrenders when its time is up or all     *)
(* was tried.                                                               *)
LEMMA EndRoundKeeps ==
    ASSUME NEW i \in Image, Scheduled, EndRound(i)
    PROVE  Scheduled'
  <1>1. /\ pc[i] = "scan" /\ pos[i] > Len(order[i])
        /\ UNCHANGED <<shared, given, order, attempted, statuses, reply>>
        /\ ToSet(order[i]) = ToSet(Offered[i[1]])
        /\ attempted[i] \subseteq ToSet(order[i])
        /\ Len(order[i]) \in Nat
    BY DEF EndRound, Scheduled, Rounds, TypeOK
  <1>2. CASE NewRound(i)
    <2>1. /\ pc'[i] = "scan" /\ pos'[i] = 1 /\ UNCHANGED result
          /\ result[i] \notin {"credential_expired", "unavailable"}
      BY <1>1, <1>2, NewRoundFacts DEF Scheduled, Rounds
    <2>2. OnlyMoves(i)
      BY <1>1, <1>2, NewRoundFacts DEF Scheduled, OnlyMoves
    <2>3. KeepsRound(i)
      BY <1>1, <2>1 DEF KeepsRound
    <2>4. \A j \in Image :
            /\ pos'[j] <= Len(order'[j]) + 1
            /\ pc'[j] \in Using \cup {"try"} => pos'[j] <= Len(order'[j])
      <3>1. pos'[i] <= Len(order'[i]) + 1 /\ pc'[i] \notin Using \cup {"try"}
        BY <1>1, <2>1 DEF Using
      <3> QED
        BY <2>2, <3>1, PositionsKept DEF Scheduled
    <2>5. TypeOK'
      BY <1>1, <1>2, <2>1, <2>4, NewRoundFacts DEF Scheduled, TypeOK, shared, given
    <2>6. OneImagePerCredential' /\ NoUseWhileCooling'
      BY <1>1, <2>1, <2>2, LocksKept, CoolingKept DEF Scheduled, Using, shared
    <2> QED
      BY <1>1, <2>2, <2>3, <2>5, <2>6, ImageStepKeeps DEF given
  <1>3. CASE Conclude(i) /\ (Expired(i) \/ attempted[i] = ToSet(order[i]))
    <2>1. /\ pc'[i] = "done" /\ UNCHANGED <<pos, busy>>
          /\ result'[i] \in {"credential_expired", "unavailable"} => ~Expired(i)
      BY <1>3, ConcludeFacts DEF Scheduled
    <2>2. OnlyMoves(i)
      BY <1>1, <1>3, ConcludeFacts DEF Scheduled, OnlyMoves
    <2>3. KeepsRound(i)
      BY <1>1, <1>3, <2>1 DEF KeepsRound
    <2>4. TypeOK'
      <3>1. \A j \in Image : pc'[j] \in Using \cup {"try"} => pc'[j] = pc[j]
        BY <2>1, <2>2 DEF OnlyMoves, Using
      <3> QED
        BY <1>1, <1>3, <2>1, <3>1, ConcludeFacts DEF Scheduled, TypeOK, shared, given
    <2>5. OneImagePerCredential' /\ NoUseWhileCooling'
      BY <1>1, <2>1, <2>2, LocksKept, CoolingKept DEF Scheduled, Using, shared
    <2> QED
      BY <1>1, <2>2, <2>3, <2>4, <2>5, ImageStepKeeps DEF given
  <1> QED
    BY <1>1, <1>2, <1>3, AllTried DEF EndRound

-----------------------------------------------------------------------------
(* The actions of requests and of time.                                     *)

(* handle_images refuses the request or starts on its images. *)
LEMMA AcceptKeeps ==
    ASSUME NEW r \in Requests, Scheduled, Accept(r)
    PROVE  Scheduled'
  <1> DEFINE request == parse_image_request(body[r])
  <1>1. /\ asked[r] = 0 /\ reply[r] = "none"
        /\ UNCHANGED <<shared, expired, body, pc, local>>
    BY DEF Accept
  <1>2. OneImagePerCredential' /\ NoUseWhileCooling' /\ Rounds' /\ NoEarlySurrender'
    BY <1>1 DEF Scheduled, OneImagePerCredential, NoUseWhileCooling, Rounds,
                NoEarlySurrender, Current, shared, local, scan
  <1>3. CASE UNCHANGED asked
    <2>1. PICK how \in {"invalid", "crash", "no_credentials"} :
            reply' = [reply EXCEPT ![r] = how]
      BY <1>1, <1>3, AcceptedAsks, RefusedWith DEF Accept, Scheduled, TypeOK
    <2>2. TypeOK'
      BY <1>1, <1>3, <2>1 DEF Scheduled, TypeOK, shared, local, scan
    <2>3. ImagesOf(r) = {}
      BY <1>1 DEF ImagesOf
    <2>4. Served'
      BY <1>1, <1>3, <2>1, <2>3 DEF Scheduled, Served, ImagesOf, TypeOK
    <2> QED
      BY <1>2, <2>2, <2>4 DEF Scheduled
  <1>4. CASE /\ request.error = "none" /\ Offered[r] # <<>>
             /\ asked' = [asked EXCEPT ![r] = request.n] /\ UNCHANGED reply
    <2>1. request.n \in 0 .. MaxN /\ request.n # 0
      BY <1>4, AcceptedAsks, OfferedAssumption DEF Scheduled, TypeOK
    <2> HIDE DEF request
    <2>2. TypeOK'
      BY <1>1, <1>4, <2>1 DEF Scheduled, TypeOK, shared, local, scan
    <2>3. /\ \A s \in Requests : s # r => asked'[s] = asked[s] /\ ImagesOf(s)' = ImagesOf(s)
          /\ \A i \in Image : i[1] \in Requests
      BY <1>4 DEF ImagesOf, Scheduled, TypeOK, Image
    <2>4. ASSUME NEW i \in Image, pc'[i] # "queued" PROVE i \in ImagesOf(i[1])'
      <3>1. i \in ImagesOf(i[1])
        BY <1>1, <2>4 DEF Scheduled, Served
      <3>2. ImagesOf(r) = {}
        BY <1>1 DEF ImagesOf
      <3>3. i[1] # r
        BY <3>1, <3>2
      <3> QED
        BY <2>3, <3>1, <3>3
    <2>5. \A s \in Requests : asked'[s] > 0 => Offered[s] # <<>>
      BY <1>4, <2>3 DEF Scheduled, Served
    <2>6. \A s \in Requests : reply'[s] # "none" => \A i \in ImagesOf(s)' : pc'[i] = "done"
      BY <1>1, <1>4, <2>3 DEF Scheduled, Served
    <2>7. Served'
      BY <2>4, <2>5, <2>6 DEF Served
    <2> QED
      BY <1>2, <2>2, <2>7 DEF Scheduled
  <1> QED
    BY <1>1, <1>3, <1>4 DEF Accept

(* handle_images answers when all its images are through. *)
LEMMA ReplyKeeps ==
    ASSUME NEW r \in Requests, Scheduled, Reply(r)
    PROVE  Scheduled'
  <1>1. /\ asked[r] > 0 /\ \A i \in ImagesOf(r) : pc[i] = "done"
        /\ UNCHANGED <<shared, given, pc, local>>
    BY DEF Reply
  <1>2. PICK how \in Results : reply' = [reply EXCEPT ![r] = how]
    <2>1. ImagesOf(r) \subseteq Image
      BY OfferedAssumption DEF ImagesOf, Image, Scheduled, TypeOK
    <2> QED
      BY <2>1 DEF Reply, Scheduled, TypeOK, Results
  <1>3. OneImagePerCredential' /\ NoUseWhileCooling' /\ Rounds' /\ NoEarlySurrender'
    BY <1>1 DEF Scheduled, OneImagePerCredential, NoUseWhileCooling, Rounds,
                NoEarlySurrender, Current, shared, local, scan
  <1>4. TypeOK'
    BY <1>1, <1>2 DEF Scheduled, TypeOK, shared, given, local, scan
  <1>5. Served'
    BY <1>1, <1>2 DEF Scheduled, TypeOK, Served, ImagesOf, given
  <1> QED
    BY <1>3, <1>4, <1>5 DEF Scheduled

(* Neither a request that expires nor a cooldown that ends disturbs         *)
(* anything.                                                                *)
LEMMA TimeKeeps ==
    ASSUME Scheduled, (\E r \in Requests : Expire(r)) \/ (\E k \in Credentials : CooldownEnds(k))
    PROVE  Scheduled'
  <1>1. /\ UNCHANGED <<cursor, lock, body, asked, pc, local, reply>>
        /\ expired' \subseteq Requests
        /\ cooldown' \in [Credentials -> Cooldown]
        /\ \A k \in Credentials : cooldown[k] = "none" => cooldown'[k] = "none"
    BY DEF Expire, CooldownEnds, Scheduled, TypeOK, shared, given, Cooldown
  <1>2. TypeOK'
    BY <1>1 DEF Scheduled, TypeOK, local, scan
  <1>3. OneImagePerCredential' /\ Rounds' /\ NoEarlySurrender' /\ Served'
    BY <1>1 DEF Scheduled, OneImagePerCredential, Rounds, NoEarlySurrender, Served, ImagesOf,
                Current, local, scan
  <1>4. NoUseWhileCooling'
    <2>1. \A i \in Image : pc[i] = "generate" => Current(i) \in Credentials
      BY CurrentIsOffered DEF Scheduled, Using
    <2> QED
      BY <1>1, <2>1 DEF Scheduled, NoUseWhileCooling, Current, local, scan
  <1> QED
    BY <1>2, <1>3, <1>4 DEF Scheduled

-----------------------------------------------------------------------------
(* The invariant holds when the helper starts, *)
LEMMA InitScheduled == Init => Scheduled
  <1> SUFFICES ASSUME Init PROVE Scheduled
    OBVIOUS
  <1>1. TypeOK
    BY OfferedAssumption DEF Init, TypeOK, Cooldown, Results, Using
  <1>2. OneImagePerCredential /\ NoUseWhileCooling /\ NoEarlySurrender /\ Served
    BY <1>1 DEF Init, OneImagePerCredential, NoUseWhileCooling, NoEarlySurrender, Served,
                Using, ImagesOf
  <1>3. Rounds
    BY DEF Init, Rounds
  <1> QED
    BY <1>1, <1>2, <1>3 DEF Scheduled

(* and every action of a thread, a request or the clock keeps it. *)
LEMMA NextScheduled == Scheduled /\ [Next]_vars => Scheduled'
  <1> SUFFICES ASSUME Scheduled, [Next]_vars PROVE Scheduled'
    OBVIOUS
  <1>1. ASSUME NEW i \in Image, ImageStep(i) PROVE Scheduled'
    BY <1>1, BeginKeeps, SkipAttemptedKeeps, SkipCoolingKeeps, ChooseKeeps, TryBusyKeeps,
       TryLockKeeps, RecheckCoolingKeeps, StartGenerationKeeps, GenerationKeeps,
       UnlockKeeps, EndRoundKeeps
    DEF ImageStep
  <1>2. ASSUME NEW r \in Requests, Accept(r) \/ Reply(r) PROVE Scheduled'
    BY <1>2, AcceptKeeps, ReplyKeeps
  <1>3. CASE UNCHANGED vars
    <2>1. UNCHANGED <<cursor, lock, cooldown, expired, body, asked, pc, order,
                      pos, attempted, busy, statuses, result, reply>>
      BY <1>3 DEF vars, shared, given, local, scan
    <2> QED
      BY <2>1 DEF Scheduled, TypeOK, OneImagePerCredential, NoUseWhileCooling, Rounds,
                  NoEarlySurrender, Served, ImagesOf, Current
  <1> QED
    BY <1>1, <1>2, <1>3, TimeKeeps DEF Next

-----------------------------------------------------------------------------
(* Where the threads are.                                                   *)

(* A step that gives no result keeps the positions, if its own image's fits. *)
LEMMA PositionsFit ==
    ASSUME NEW i \in Image, SchedulerInv, OnlyMoves(i), UNCHANGED result,
           result[i] # "none" => pc'[i] \in {"unlock", "done"},
           pc'[i] = "unlock" => result[i] \in {"none", "image"},
           pc'[i] = "done" => result[i] # "none",
           pc'[i] \in {"try", "recheck"} => Current(i)' \notin attempted'[i]
    PROVE  Positions'
  <1> SUFFICES ASSUME NEW j \in Image
               PROVE  /\ result'[j] # "none" => pc'[j] \in {"unlock", "done"}
                      /\ pc'[j] = "unlock" => result'[j] \in {"none", "image"}
                      /\ pc'[j] = "done" => result'[j] # "none"
                      /\ pc'[j] \in {"try", "recheck"} => Current(j)' \notin attempted'[j]
    BY DEF Positions
  <1>1. CASE j = i
    BY <1>1
  <1>2. CASE j # i
    BY <1>2 DEF OnlyMoves, SchedulerInv, Positions, Current
  <1> QED
    BY <1>1, <1>2

(* An image that raises is through. *)
LEMMA ConcludeFits ==
    ASSUME NEW i \in Image, SchedulerInv, Conclude(i), pc[i] \in {"queued", "scan"},
           UNCHANGED attempted,
           \A j \in Image \ {i} : order'[j] = order[j]
    PROVE  Positions'
  <1>1. /\ pc'[i] = "done" /\ UNCHANGED pos
        /\ \A j \in Image \ {i} : pc'[j] = pc[j] /\ result'[j] = result[j]
    BY ConcludeFacts DEF SchedulerInv, Scheduled
  <1>2. result'[i] \in {"timeout", "credential_expired", "unavailable"}
    BY DEF Conclude, SchedulerInv, Scheduled, TypeOK
  <1> SUFFICES ASSUME NEW j \in Image
               PROVE  /\ result'[j] # "none" => pc'[j] \in {"unlock", "done"}
                      /\ pc'[j] = "unlock" => result'[j] \in {"none", "image"}
                      /\ pc'[j] = "done" => result'[j] # "none"
                      /\ pc'[j] \in {"try", "recheck"} => Current(j)' \notin attempted'[j]
    BY DEF Positions
  <1>3. CASE j = i
    BY <1>1, <1>2, <1>3
  <1>4. CASE j # i
    BY <1>1, <1>4 DEF SchedulerInv, Positions, Current
  <1> QED
    BY <1>3, <1>4

(* A failure leaves its image without a result. *)
LEMMA FailFits ==
    ASSUME NEW i \in Image, SchedulerInv, NEW status, NEW length, Fail(i, status, length)
    PROVE  Positions'
  <1>1. /\ pc[i] = "generate" /\ pc'[i] = "unlock"
        /\ UNCHANGED <<order, pos, attempted, result>>
        /\ \A j \in Image \ {i} : pc'[j] = pc[j]
    BY DEF Fail, Goto, scan, SchedulerInv, Scheduled, TypeOK
  <1>2. result[i] = "none"
    BY <1>1 DEF SchedulerInv, Positions
  <1> QED
    BY <1>1, <1>2 DEF SchedulerInv, Positions, Current

(* A step of an image's thread. *)
LEMMA ImageFits ==
    ASSUME NEW i \in Image, SchedulerInv, ImageStep(i)
    PROVE  Positions'
  <1> USE DEF SchedulerInv, Scheduled
  <1>1. pc[i] \in {"queued", "scan", "try", "recheck", "generate"} => result[i] = "none"
    BY DEF Positions
  <1>2. CASE Begin(i)
    <2>1. /\ pc[i] = "queued" /\ attempted[i] = {}
          /\ UNCHANGED <<lock, cooldown, given, attempted, statuses, reply>>
          /\ \A j \in Image \ {i} : order'[j] = order[j]
      BY <1>2 DEF Begin, Rounds, TypeOK
    <2>2. CASE Conclude(i)
      BY <2>1, <2>2, ConcludeFits
    <2>3. CASE NewRound(i)
      BY <1>1, <2>1, <2>3, NewRoundFacts, PositionsFit DEF OnlyMoves
    <2> QED
      BY <1>2, <2>2, <2>3 DEF Begin
  <1>3. CASE SkipAttempted(i) \/ TryBusy(i)
    <2>1. /\ pc[i] \in {"scan", "try"} /\ Continue(i) /\ pos[i] <= Len(order[i])
          /\ UNCHANGED <<order, attempted, statuses, result, given>>
          /\ \A j \in Image \ {i} : busy'[j] = busy[j]
      BY <1>3 DEF SkipAttempted, TryBusy, TypeOK
    <2> QED
      BY <1>1, <2>1, ContinueFacts, PositionsFit DEF OnlyMoves
  <1>4. CASE SkipCooling(i) \/ RecheckCooling(i)
    <2>1. /\ pc[i] \in {"scan", "recheck"} /\ Continue(i) /\ pos[i] <= Len(order[i])
          /\ UNCHANGED <<order, busy, statuses, result, given>>
          /\ \A j \in Image \ {i} : attempted'[j] = attempted[j]
          /\ attempted[i] \subseteq attempted'[i]
      BY <1>4 DEF SkipCooling, RecheckCooling, GiveUp, TypeOK, Using
    <2> QED
      BY <1>1, <2>1, ContinueFacts, PositionsFit DEF OnlyMoves
  <1>5. CASE Choose(i) \/ TryLock(i)
    <2>1. /\ pc[i] \in {"scan", "try"} /\ pc'[i] \in {"try", "recheck"}
          /\ Current(i) \notin attempted[i]
          /\ UNCHANGED <<given, local>>
          /\ \A j \in Image \ {i} : pc'[j] = pc[j]
      BY <1>5 DEF Choose, TryLock, Goto, TypeOK, Positions
    <2> QED
      BY <1>1, <2>1, PositionsFit DEF OnlyMoves, local, scan, Current
  <1>6. CASE StartGeneration(i)
    <2>1. /\ pc[i] = "recheck" /\ pc'[i] = "generate"
          /\ UNCHANGED <<given, order, pos, busy, statuses, result>>
          /\ \A j \in Image \ {i} : pc'[j] = pc[j] /\ attempted'[j] = attempted[j]
          /\ attempted[i] \subseteq attempted'[i]
      BY <1>6 DEF StartGeneration, GiveUp, Goto, TypeOK
    <2> QED
      BY <1>1, <2>1, PositionsFit DEF OnlyMoves
  <1>7. CASE Succeed(i)
    <2>1. /\ pc[i] = "generate" /\ pc'[i] = "unlock" /\ result'[i] = "image"
          /\ UNCHANGED <<given, scan, statuses>>
          /\ \A j \in Image \ {i} : pc'[j] = pc[j] /\ result'[j] = result[j]
      BY <1>7 DEF Succeed, Goto, TypeOK
    <2> QED
      BY <2>1 DEF Positions, Current, scan
  <1>8. CASE Generation(i) /\ ~Succeed(i)
    BY <1>8, FailFits
    DEF Generation, Rejected, Failed, Refused, Challenged, TimedOut, Crashed
  <1>9. CASE Unlock(i)
    <2>1. /\ pc[i] = "unlock" /\ pos[i] <= Len(order[i])
          /\ UNCHANGED <<given, order, attempted, busy, statuses, result>>
      BY <1>9 DEF Unlock, TypeOK, Using
    <2>2. CASE result[i] = "image"
      <3>1. pc'[i] = "done" /\ UNCHANGED pos /\ \A j \in Image \ {i} : pc'[j] = pc[j]
        BY <1>9, <2>2 DEF Unlock, Goto, TypeOK
      <3> QED
        BY <2>1, <2>2, <3>1, PositionsFit DEF OnlyMoves
    <2>3. CASE result[i] # "image"
      <3>1. Continue(i) /\ result[i] = "none"
        BY <1>9, <2>1, <2>3 DEF Unlock, Positions
      <3> QED
        BY <2>1, <3>1, ContinueFacts, PositionsFit DEF OnlyMoves
    <2> QED
      BY <2>2, <2>3
  <1>10. CASE EndRound(i)
    <2>1. /\ pc[i] = "scan"
          /\ UNCHANGED <<given, order, attempted, statuses, reply>>
      BY <1>10 DEF EndRound
    <2>2. CASE Conclude(i)
      BY <2>1, <2>2, ConcludeFits
    <2>3. CASE NewRound(i)
      BY <1>1, <2>1, <2>3, NewRoundFacts, PositionsFit DEF OnlyMoves
    <2> QED
      BY <1>10, <2>2, <2>3 DEF EndRound
  <1> QED
    BY <1>2, <1>3, <1>4, <1>5, <1>6, <1>7, <1>8, <1>9, <1>10 DEF ImageStep

(* The other steps leave images alone. *)
LEMMA OthersFit ==
    ASSUME SchedulerInv,
           \/ \E r \in Requests : Accept(r) \/ Reply(r) \/ Expire(r)
           \/ \E k \in Credentials : CooldownEnds(k)
           \/ UNCHANGED vars
    PROVE  Positions'
  <1>1. UNCHANGED <<pc, local>>
    BY DEF Accept, Reply, Expire, CooldownEnds, vars
  <1> QED
    BY <1>1 DEF SchedulerInv, Positions, Current, local, scan

-----------------------------------------------------------------------------
(* The invariant holds when the helper starts, *)
LEMMA InitialInvariant == Init => SchedulerInv
  <1> SUFFICES ASSUME Init PROVE SchedulerInv
    OBVIOUS
  <1>1. Positions
    BY DEF Init, Positions
  <1> QED
    BY <1>1, InitScheduled DEF SchedulerInv

(* and every step keeps it. *)
LEMMA InductiveInvariant == SchedulerInv /\ [Next]_vars => SchedulerInv'
  <1> SUFFICES ASSUME SchedulerInv, [Next]_vars PROVE SchedulerInv'
    OBVIOUS
  <1>1. Positions'
    BY ImageFits, OthersFit DEF Next
  <1> QED
    BY <1>1, NextScheduled DEF SchedulerInv

(* The inductive invariant holds in every reachable state. *)
THEOREM Invariant == Spec => []SchedulerInv
  BY InitialInvariant, InductiveInvariant, PTL DEF Spec

(* The locks in generate_one keep images apart: a credential is used by one *)
(* image at a time.                                                         *)
THEOREM CredentialsAreExclusive == Spec => []OneImagePerCredential
  <1>1. SchedulerInv => OneImagePerCredential
    BY DEF SchedulerInv, Scheduled
  <1> QED
    BY <1>1, Invariant, PTL

(* The second look under the lock is enough: no generation runs with a      *)
(* credential that is cooling down.                                         *)
THEOREM CoolingCredentialsRest == Spec => []NoUseWhileCooling
  <1>1. SchedulerInv => NoUseWhileCooling
    BY DEF SchedulerInv, Scheduled
  <1> QED
    BY <1>1, Invariant, PTL

(* An image that surrenders before its deadline has tried every credential  *)
(* it was offered.                                                          *)
THEOREM NobodySurrendersEarly == Spec => []NoEarlySurrender
  <1>1. SchedulerInv => NoEarlySurrender
    BY DEF SchedulerInv, Scheduled
  <1> QED
    BY <1>1, Invariant, PTL

(* An answered request holds no lock. *)
THEOREM AnswersComeLast == Spec => []ReplyIsLast
  <1>1. ASSUME SchedulerInv PROVE ReplyIsLast
    <2> SUFFICES ASSUME NEW i \in Image, reply[i[1]] # "none", NEW k \in Credentials, lock[k] = i
                 PROVE  FALSE
      BY DEF ReplyIsLast
    <2>1. pc[i] \in Using
      BY <1>1, NobodyIsNoImage DEF SchedulerInv, Scheduled, OneImagePerCredential
    <2> QED
      BY <1>1, <2>1, UnderWay DEF SchedulerInv, Scheduled, Using
  <1> QED
    BY <1>1, Invariant, PTL

(* Only a generation sets cooldowns, and only on a credential that has      *)
(* none: a cooldown ends by its time.                                       *)
THEOREM CooldownsAreKept == Spec => CooldownNeverShortened
  <1>1. ASSUME SchedulerInv, [Next]_vars
        PROVE  [\A k \in Credentials :
                  cooldown[k] # "none" => cooldown'[k] \in {"none", cooldown[k]}]_vars
    <2>1. ASSUME NEW i \in Image, NEW status, NEW length, Fail(i, status, length),
                 NEW k \in Credentials, cooldown[k] # "none"
          PROVE  cooldown'[k] = cooldown[k]
      <3>1. cooldown[Current(i)] = "none"
        BY <1>1, <2>1 DEF Fail, SchedulerInv, Scheduled, NoUseWhileCooling
      <3> QED
        BY <1>1, <2>1, <3>1 DEF Fail, SchedulerInv, Scheduled, TypeOK
    <2>2. ASSUME NEW i \in Image, Generation(i), NEW k \in Credentials, cooldown[k] # "none"
          PROVE  cooldown'[k] = cooldown[k]
      BY <2>1, <2>2
      DEF Generation, Succeed, Rejected, Failed, Refused, Challenged, TimedOut, Crashed, shared
    <2>3. ASSUME NEW i \in Image,
                 \/ Begin(i) \/ SkipAttempted(i) \/ SkipCooling(i) \/ Choose(i)
                 \/ TryBusy(i) \/ TryLock(i) \/ RecheckCooling(i)
                 \/ StartGeneration(i) \/ Unlock(i) \/ EndRound(i)
          PROVE  UNCHANGED cooldown
      BY <2>3 DEF Begin, SkipAttempted, SkipCooling, Choose, TryBusy, TryLock,
                  RecheckCooling, StartGeneration, Unlock, EndRound, shared
    <2>4. ASSUME NEW r \in Requests, Accept(r) \/ Reply(r) \/ Expire(r)
          PROVE  UNCHANGED cooldown
      BY <2>4 DEF Accept, Reply, Expire, shared
    <2>5. ASSUME NEW k \in Credentials, CooldownEnds(k), NEW l \in Credentials
          PROVE  cooldown'[l] \in {"none", cooldown[l]}
      BY <1>1, <2>5 DEF CooldownEnds, SchedulerInv, Scheduled, TypeOK
    <2> QED
      BY <1>1, <2>2, <2>3, <2>4, <2>5 DEF Next, ImageStep
  <1> QED
    BY <1>1, Invariant, PTL DEF Spec, CooldownNeverShortened

-----------------------------------------------------------------------------
(* CredentialScheduler implements CredentialSharing.                        *)

(* A credential serves the image that generates with it. *)
LEMMA UserIs ==
    ASSUME SchedulerInv, NEW i \in Image, NEW k \in Credentials
    PROVE  Users[k] = i <=> pc[i] = "generate" /\ Current(i) = k
  <1> USE DEF SchedulerInv, Scheduled
  <1>1. i # Nobody
    BY NobodyIsNoImage
  <1>2. ASSUME Users[k] = i PROVE pc[i] = "generate" /\ Current(i) = k
    BY <1>1, <1>2 DEF Users, OneImagePerCredential
  <1>3. ASSUME pc[i] = "generate", Current(i) = k PROVE Users[k] = i
    BY <1>1, <1>3 DEF Users, OneImagePerCredential, Using
  <1> QED
    BY <1>2, <1>3

(* A step that begins and ends no generation, and touches no lock but for   *)
(* its own image, changes nothing about who uses what.                      *)
LEMMA UsersKept ==
    ASSUME TypeOK, NEW i \in Image, pc[i] # "generate", pc'[i] # "generate",
           \A j \in Image \ {i} : pc'[j] = pc[j],
           \A k \in Credentials :
             lock'[k] = lock[k] \/ {lock[k], lock'[k]} \subseteq {i, Nobody}
    PROVE  UNCHANGED Users
  <1>1. ASSUME NEW k \in Credentials PROVE Users'[k] = Users[k]
    <2>1. CASE lock'[k] = lock[k]
      <3>1. lock[k] \in Image \cup {Nobody}
        BY DEF TypeOK
      <3> QED
        BY <2>1, <3>1 DEF Users
    <2>2. CASE {lock[k], lock'[k]} \subseteq {i, Nobody}
      BY <2>2 DEF Users
    <2> QED
      BY <2>1, <2>2
  <1>2. \A k \in Credentials : Users'[k] = Users[k]
    BY <1>1
  <1> QED
    BY <1>2 DEF Users

(* A request and its images are the same to both. *)
LEMMA SameImages ==
    /\ Sharing!Image = Image
    /\ Sharing!Nobody = Nobody
    /\ \A r : Sharing!ImagesOf(r) = ImagesOf(r)
  BY DEF Sharing!Image, Image, Sharing!Nobody, Nobody, Sharing!ImagesOf, ImagesOf

(* An image is looking for a credential unless it generates or is through. *)
LEMMA LookingIs ==
    ASSUME SchedulerInv, NEW i \in Image, i \in ImagesOf(i[1]),
           pc[i] \in {"queued", "scan", "try", "recheck"}
    PROVE  Sharing!Looking(i)
  <1>1. result[i] = "none"
    BY DEF SchedulerInv, Positions
  <1>2. \A k \in Credentials : Users[k] # i
    BY UserIs
  <1> QED
    BY <1>1, <1>2, SameImages DEF Sharing!Looking

(* What it is about to use or to pass over it did not try before. *)
LEMMA CurrentIsUntried ==
    ASSUME SchedulerInv, NEW i \in Image, pc[i] # "queued", pos[i] <= Len(order[i]),
           Current(i) \notin attempted[i]
    PROVE  Current(i) \in Credentials /\ Current(i) \in Sharing!Untried(i)
  <1>1. i[1] \in Requests
    BY DEF Image
  <1>2. Current(i) \in Credentials /\ Current(i) \in ToSet(Offered[i[1]])
    BY CurrentIsOffered DEF SchedulerInv, Scheduled, Rounds
  <1> QED
    BY <1>1, <1>2 DEF Sharing!Untried, Snapshots

(* The end of generate_one gives up for the reasons the contract knows. *)
LEMMA ConcludeGivesUp ==
    ASSUME SchedulerInv, NEW i \in Image, i \in ImagesOf(i[1]), Conclude(i),
           pc[i] \in {"queued", "scan"},
           Expired(i) \/ attempted[i] = ToSet(Offered[i[1]]),
           UNCHANGED <<lock, cooldown, given, attempted, statuses, reply>>
    PROVE  Sharing!GiveUp(i)
  <1>1. /\ pc'[i] = "done"
        /\ \A j \in Image \ {i} : pc'[j] = pc[j]
    BY ConcludeFacts DEF SchedulerInv, Scheduled
  <1>2. UNCHANGED Users
    BY <1>1, UsersKept DEF SchedulerInv, Scheduled
  <1>3. Sharing!Untried(i) = {} \/ i[1] \in expired
    <2>1. i[1] \in Requests
      BY DEF Image
    <2> QED
      BY <2>1 DEF Sharing!Untried, Snapshots, Expired
  <1>4. result' = [result EXCEPT ![i] =
                     IF i[1] \in expired THEN "timeout"
                     ELSE IF statuses[i] = {"auth"} THEN "credential_expired"
                     ELSE "unavailable"]
    BY DEF Conclude, Expired
  <1> QED
    BY <1>2, <1>3, <1>4, LookingIs DEF Sharing!GiveUp, given

(* Passing over a credential that rests, with or without its lock. *)
LEMMA GiveUpPassesOver ==
    ASSUME SchedulerInv, NEW i \in Image, SkipCooling(i) \/ RecheckCooling(i)
    PROVE  Sharing!PassOver(i, Current(i)) /\ Current(i) \in Credentials
  <1> USE DEF SchedulerInv, Scheduled
  <1>1. /\ pc[i] \in {"scan", "recheck"} /\ pos[i] <= Len(order[i])
        /\ Current(i) \notin attempted[i] /\ cooldown[Current(i)] # "none"
        /\ GiveUp(i) /\ Continue(i)
        /\ UNCHANGED <<cooldown, given, order, statuses, result, reply>>
    BY DEF SkipCooling, RecheckCooling, TypeOK, Using, Positions, shared
  <1>2. i \in ImagesOf(i[1])
    BY <1>1 DEF Served
  <1>3. Current(i) \in Credentials /\ Current(i) \in Sharing!Untried(i)
    BY <1>1, CurrentIsUntried
  <1>4. pc'[i] = "scan" /\ \A j \in Image \ {i} : pc'[j] = pc[j]
    BY <1>1, ContinueFacts
  <1>5. \A k \in Credentials :
          lock'[k] = lock[k] \/ {lock[k], lock'[k]} \subseteq {i, Nobody}
    <2>1. CASE SkipCooling(i)
      BY <2>1 DEF SkipCooling, shared
    <2>2. CASE RecheckCooling(i)
      <3>1. lock[Current(i)] = i
        BY <2>2 DEF RecheckCooling, OneImagePerCredential, Using
      <3> QED
        BY <2>2, <3>1 DEF RecheckCooling, Release, TypeOK
    <2> QED
      BY <2>1, <2>2
  <1>6. UNCHANGED Users
    BY <1>1, <1>4, <1>5, UsersKept
  <1> QED
    BY <1>1, <1>2, <1>3, <1>6, LookingIs
    DEF Sharing!PassOver, Sharing!Try, GiveUp, given

(* The start of a generation takes the credential. *)
LEMMA StartTakes ==
    ASSUME SchedulerInv, NEW i \in Image, StartGeneration(i)
    PROVE  Sharing!Take(i, Current(i)) /\ Current(i) \in Credentials
  <1> USE DEF SchedulerInv, Scheduled
  <1>1. /\ pc[i] = "recheck" /\ pc'[i] = "generate" /\ pos[i] <= Len(order[i])
        /\ \A j \in Image \ {i} : pc'[j] = pc[j]
        /\ Current(i) \notin attempted[i] /\ cooldown[Current(i)] = "none"
        /\ GiveUp(i)
        /\ UNCHANGED <<shared, given, statuses, result, reply>>
    BY DEF StartGeneration, Goto, TypeOK, Using, Positions
  <1>2. i \in ImagesOf(i[1]) /\ i # Nobody
    BY <1>1, NobodyIsNoImage DEF Served
  <1>3. Current(i) \in Credentials /\ Current(i) \in Sharing!Untried(i)
    BY <1>1, CurrentIsUntried
  <1>4. lock[Current(i)] = i
    BY <1>1 DEF OneImagePerCredential, Using
  <1>5. Users[Current(i)] = Nobody
    BY <1>1, <1>3, <1>4 DEF Users
  <1>6. Users' = [Users EXCEPT ![Current(i)] = i]
    <2>1. ASSUME NEW k \in Credentials
          PROVE  Users'[k] = IF k = Current(i) THEN i ELSE Users[k]
      <3>1. CASE k = Current(i)
        BY <1>1, <1>2, <1>4, <3>1 DEF Users, shared
      <3>2. CASE k # Current(i)
        <4>1. lock[k] # i
          BY <1>2, <3>2 DEF OneImagePerCredential
        <4>2. lock[k] = Nobody \/ lock[k] \in Image \ {i}
          BY <4>1 DEF TypeOK
        <4> QED
          BY <1>1, <3>2, <4>2 DEF Users, shared
      <3> QED
        BY <3>1, <3>2
    <2>2. Users = [k \in Credentials |-> Users[k]]
      BY DEF Users
    <2>3. Users' = [k \in Credentials |-> Users'[k]]
      BY DEF Users
    <2> QED
      BY <1>3, <2>1, <2>2, <2>3
  <1> QED
    BY <1>1, <1>2, <1>3, <1>5, <1>6, LookingIs, SameImages
    DEF Sharing!Take, Sharing!Try, GiveUp, given, shared

(* The end of one gives it back. *)
LEMMA EndFrees ==
    ASSUME SchedulerInv, NEW i \in Image, pc[i] = "generate", Goto(i, "unlock"), UNCHANGED lock
    PROVE  /\ Current(i) \in Credentials /\ Users[Current(i)] = i
           /\ Users' = [Users EXCEPT ![Current(i)] = Nobody]
  <1> USE DEF SchedulerInv, Scheduled
  <1>1. /\ pc'[i] = "unlock" /\ \A j \in Image \ {i} : pc'[j] = pc[j]
        /\ pos[i] <= Len(order[i]) /\ i # Nobody
    BY NobodyIsNoImage DEF Goto, TypeOK, Using
  <1>2. Current(i) \in Credentials /\ Users[Current(i)] = i
    BY <1>1, CurrentIsOffered, UserIs
  <1>3. lock[Current(i)] = i
    BY DEF OneImagePerCredential, Using
  <1>4. ASSUME NEW k \in Credentials
        PROVE  Users'[k] = IF k = Current(i) THEN Nobody ELSE Users[k]
    <2>1. CASE k = Current(i)
      BY <1>1, <1>3, <2>1 DEF Users
    <2>2. CASE k # Current(i)
      <3>1. lock[k] # i
        BY <1>1, <2>2 DEF OneImagePerCredential
      <3>2. lock[k] = Nobody \/ lock[k] \in Image \ {i}
        BY <3>1 DEF TypeOK
      <3> QED
        BY <1>1, <2>2, <3>2 DEF Users
    <2> QED
      BY <2>1, <2>2
  <1>5. Users = [k \in Credentials |-> Users[k]]
    BY DEF Users
  <1>6. Users' = [k \in Credentials |-> Users'[k]]
    BY DEF Users
  <1> QED
    BY <1>2, <1>4, <1>5, <1>6

LEMMA SucceedSucceeds ==
    ASSUME SchedulerInv, NEW i \in Image, Succeed(i)
    PROVE  Sharing!Succeed(i, Current(i)) /\ Current(i) \in Credentials
  <1>1. /\ pc[i] = "generate" /\ Goto(i, "unlock")
        /\ UNCHANGED <<shared, given, scan, statuses, reply>>
        /\ result' = [result EXCEPT ![i] = "image"]
    BY DEF Succeed
  <1> QED
    BY <1>1, EndFrees, SameImages DEF Sharing!Succeed, shared, given, scan

(* The credential had no cooldown, so that the failure's is the one it has  *)
(* afterwards.                                                              *)
LEMMA FailFails ==
    ASSUME SchedulerInv, NEW i \in Image, NEW status \in {{}, {"auth"}, {"other"}},
           NEW length \in Cooldown, Fail(i, status, length),
           length = "long" => status = {"auth"},
           length = "brief" => status # {"auth"}
    PROVE  Sharing!Fail(i, Current(i), status, length) /\ Current(i) \in Credentials
  <1>1. /\ pc[i] = "generate" /\ Goto(i, "unlock")
        /\ UNCHANGED <<cursor, lock, given, scan, result, reply>>
        /\ statuses' = [statuses EXCEPT ![i] = @ \cup status]
    BY DEF Fail
  <1>2. cooldown' = [cooldown EXCEPT ![Current(i)] = length]
    <2>1. cooldown[Current(i)] = "none"
      BY <1>1 DEF SchedulerInv, Scheduled, NoUseWhileCooling
    <2>2. cooldown \in [Credentials -> Cooldown] /\ Current(i) \in Credentials
      BY <1>1, EndFrees DEF SchedulerInv, Scheduled, TypeOK
    <2>3. [cooldown EXCEPT ![Current(i)] = "none"] = cooldown
      BY <2>1, <2>2
    <2> QED
      BY <2>3 DEF Fail
  <1> QED
    BY <1>1, <1>2, EndFrees, SameImages DEF Sharing!Fail, given, scan

LEMMA GenerationEndsUse ==
    ASSUME SchedulerInv, NEW i \in Image, Generation(i)
    PROVE  Sharing!Use(i, Current(i)) /\ Current(i) \in Credentials
  <1>1. CASE Succeed(i)
    BY <1>1, SucceedSucceeds DEF Sharing!Use
  <1>2. CASE ~Succeed(i)
    <2>1. PICK status \in {{}, {"auth"}, {"other"}}, length \in Cooldown :
            /\ Fail(i, status, length)
            /\ length = "long" => status = {"auth"}
            /\ length = "brief" => status # {"auth"}
      <3>1. {"auth"} # {"other"} /\ {"auth"} # {}
        OBVIOUS
      <3> QED
        BY <1>2, <3>1 DEF Generation, Rejected, Failed, Refused, Challenged, TimedOut,
                          Crashed, Cooldown
    <2>2. Sharing!Fail(i, Current(i), status, length) /\ Current(i) \in Credentials
      BY <2>1, FailFails
    <2> QED
      BY <2>2 DEF Sharing!Use, Cooldown
  <1> QED
    BY <1>1, <1>2

(* What the contract sees. *)
Seen == <<asked, expired, Users, cooldown, attempted, statuses, result, reply>>

(* A step of an image's thread is one of the contract's for that image, or  *)
(* none.                                                                    *)
LEMMA ImageSharing ==
    ASSUME SchedulerInv, NEW i \in Image, ImageStep(i)
    PROVE  \/ UNCHANGED Seen
           \/ Sharing!GiveUp(i)
           \/ \E k \in Credentials : Sharing!Use(i, k)
  <1> USE DEF SchedulerInv, Scheduled
  <1>1. CASE Begin(i)
    <2>1. /\ pc[i] = "queued" /\ i \in ImagesOf(i[1])
          /\ UNCHANGED <<lock, cooldown, given, attempted, statuses, reply>>
      BY <1>1 DEF Begin
    <2>2. CASE Expired(i) /\ Conclude(i)
      BY <2>1, <2>2, ConcludeGivesUp
    <2>3. CASE NewRound(i)
      <3>1. UNCHANGED Users
        BY <2>1, <2>3, NewRoundFacts, UsersKept
      <3> QED
        BY <2>1, <2>3, <3>1, NewRoundFacts DEF Seen, given
    <2> QED
      BY <1>1, <2>2, <2>3 DEF Begin
  <1>2. CASE SkipAttempted(i) \/ TryBusy(i)
    <2>1. /\ pc[i] \in {"scan", "try"} /\ Continue(i) /\ pos[i] <= Len(order[i])
          /\ UNCHANGED <<shared, given, order, attempted, statuses, result, reply>>
      BY <1>2 DEF SkipAttempted, TryBusy, TypeOK
    <2>2. UNCHANGED Users
      BY <2>1, ContinueFacts, UsersKept DEF shared
    <2> QED
      BY <2>1, <2>2 DEF Seen, shared, given
  <1>3. CASE SkipCooling(i) \/ RecheckCooling(i)
    BY <1>3, GiveUpPassesOver DEF Sharing!Use
  <1>4. CASE Choose(i) \/ TryLock(i)
    <2>1. /\ pc[i] \in {"scan", "try"} /\ pc'[i] \in {"try", "recheck"}
          /\ \A j \in Image \ {i} : pc'[j] = pc[j]
          /\ \A k \in Credentials :
               lock'[k] = lock[k] \/ {lock[k], lock'[k]} \subseteq {i, Nobody}
          /\ UNCHANGED <<cooldown, given, local, reply>>
      <3>1. CASE Choose(i)
        BY <3>1 DEF Choose, Goto, TypeOK, shared
      <3>2. CASE TryLock(i)
        BY <3>2 DEF TryLock, Goto, TypeOK
      <3> QED
        BY <1>4, <3>1, <3>2
    <2>2. UNCHANGED Users
      BY <2>1, UsersKept
    <2> QED
      BY <2>1, <2>2 DEF Seen, given, local, scan
  <1>5. CASE StartGeneration(i)
    BY <1>5, StartTakes DEF Sharing!Use
  <1>6. CASE Generation(i)
    BY <1>6, GenerationEndsUse
  <1>7. CASE Unlock(i)
    <2>1. /\ pc[i] = "unlock" /\ pos[i] <= Len(order[i]) /\ Release(i)
          /\ UNCHANGED <<cooldown, given, order, attempted, statuses, result, reply>>
      BY <1>7 DEF Unlock, TypeOK, Using
    <2>2. pc'[i] # "generate" /\ \A j \in Image \ {i} : pc'[j] = pc[j]
      BY <1>7, <2>1, ContinueFacts DEF Unlock, Goto, TypeOK
    <2>3. lock[Current(i)] = i
      BY <2>1 DEF OneImagePerCredential, Using
    <2>4. \A k \in Credentials :
            lock'[k] = lock[k] \/ {lock[k], lock'[k]} \subseteq {i, Nobody}
      BY <2>1, <2>3 DEF Release, TypeOK
    <2>5. UNCHANGED Users
      BY <2>1, <2>2, <2>4, UsersKept
    <2> QED
      BY <2>1, <2>5 DEF Seen, given
  <1>8. CASE EndRound(i)
    <2>1. /\ pc[i] = "scan" /\ pos[i] > Len(order[i])
          /\ UNCHANGED <<shared, given, order, attempted, statuses, reply>>
      BY <1>8 DEF EndRound
    <2>2. i \in ImagesOf(i[1])
      BY <2>1 DEF Served
    <2>3. CASE Conclude(i) /\ (~busy[i] \/ Expired(i) \/ attempted[i] = ToSet(order[i]))
      <3>1. Expired(i) \/ attempted[i] = ToSet(Offered[i[1]])
        BY <2>1, <2>3, AllTried DEF Rounds
      <3> QED
        BY <2>1, <2>2, <2>3, <3>1, ConcludeGivesUp DEF shared
    <2>4. CASE NewRound(i)
      <3>1. UNCHANGED Users
        BY <2>1, <2>4, NewRoundFacts, UsersKept DEF shared
      <3> QED
        BY <2>1, <2>4, <3>1, NewRoundFacts DEF Seen, given, shared
    <2> QED
      BY <1>8, <2>3, <2>4 DEF EndRound
  <1> QED
    BY <1>1, <1>2, <1>3, <1>4, <1>5, <1>6, <1>7, <1>8 DEF ImageStep

(* So is one of a request, *)
LEMMA RequestSharing ==
    ASSUME SchedulerInv, NEW r \in Requests, Accept(r) \/ Reply(r) \/ Expire(r)
    PROVE  \/ \E n \in 1 .. MaxN : Sharing!Accept(r, n)
           \/ Sharing!Refuse(r) \/ Sharing!Answer(r) \/ Sharing!Expire(r)
  <1> USE DEF SchedulerInv, Scheduled
  <1>1. UNCHANGED <<Users, attempted, statuses, result, cooldown>>
    BY DEF Accept, Reply, Expire, Users, shared, local, scan
  <1>2. CASE Accept(r)
    <2> DEFINE request == parse_image_request(body[r])
    <2>1. asked[r] = 0 /\ reply[r] = "none" /\ UNCHANGED expired
      BY <1>2 DEF Accept
    <2>2. CASE UNCHANGED asked
      <3>1. PICK how \in {"invalid", "crash", "no_credentials"} :
              reply' = [reply EXCEPT ![r] = how]
        BY <1>2, <2>1, <2>2, AcceptedAsks, RefusedWith DEF Accept, TypeOK
      <3> QED
        BY <1>1, <2>1, <2>2, <3>1 DEF Sharing!Refuse
    <2>3. CASE /\ request.error = "none" /\ Offered[r] # <<>>
               /\ asked' = [asked EXCEPT ![r] = request.n] /\ UNCHANGED reply
      <3>1. request.n \in 1 .. MaxN
        BY <2>3, AcceptedAsks, OfferedAssumption DEF TypeOK
      <3>2. Snapshots[r] # {}
        <4>1. Offered[r] \in Seq(Credentials)
          BY OfferedAssumption
        <4>2. 1 \in 1 .. Len(Offered[r])
          BY <2>3, <4>1
        <4>3. Offered[r][1] \in ToSet(Offered[r])
          BY <4>1, <4>2, Elements
        <4> QED
          BY <4>3 DEF Snapshots
      <3> HIDE DEF request
      <3>3. Sharing!Accept(r, request.n)
        BY <1>1, <2>1, <2>3, <3>2 DEF Sharing!Accept
      <3> QED
        BY <3>1, <3>3
    <2> QED
      BY <1>2, <2>2, <2>3 DEF Accept
  <1>3. CASE Reply(r)
    <2>1. /\ asked[r] > 0 /\ reply[r] = "none"
          /\ \A i \in ImagesOf(r) : pc[i] = "done"
          /\ UNCHANGED <<asked, expired>>
      BY <1>3 DEF Reply, given
    <2>2. ImagesOf(r) \subseteq Image /\ ImagesOf(r) # {}
      <3>1. asked[r] \in 1 .. MaxN /\ MaxN \in Nat
        BY <2>1, OfferedAssumption DEF TypeOK
      <3>2. <<r, 0>> \in ImagesOf(r)
        BY <3>1 DEF ImagesOf
      <3>3. \A index \in 0 .. asked[r] - 1 : index \in 0 .. MaxN - 1
        BY <3>1
      <3>4. \A index \in 0 .. asked[r] - 1 : <<r, index>> \in Image
        BY <3>3 DEF Image
      <3>5. ImagesOf(r) \subseteq Image
        BY ONLY <3>4 DEF ImagesOf
      <3> QED
        BY ONLY <3>2, <3>5
    <2>3. \A i \in ImagesOf(r) : result[i] # "none"
      BY <2>1, <2>2 DEF Positions
    <2> DEFINE outcomes == {result[i] : i \in ImagesOf(r)}
    <2>4. PICK one \in outcomes :
            /\ one = "image" => outcomes = {"image"}
            /\ reply' = [reply EXCEPT ![r] = one]
      BY <1>3, <2>2 DEF Reply
    <2> QED
      BY <1>1, <2>1, <2>3, <2>4, SameImages DEF Sharing!Answer
  <1>4. CASE Expire(r)
    BY <1>1, <1>4 DEF Expire, Sharing!Expire
  <1> QED
    BY <1>2, <1>3, <1>4

(* and the end of a cooldown. *)
LEMMA TimeSharing ==
    ASSUME NEW k \in Credentials, CooldownEnds(k)
    PROVE  Sharing!Recover(k)
  BY DEF CooldownEnds, Sharing!Recover, Users, given, local, scan

LEMMA InitSharing == Init => Sharing!Init
  <1> SUFFICES ASSUME Init PROVE Sharing!Init
    OBVIOUS
  <1>1. Users = [k \in Credentials |-> Nobody]
    BY DEF Init, Users
  <1> QED
    BY <1>1, SameImages DEF Init, Sharing!Init

(* generate_one implements CredentialSharing: looking, locking, looking     *)
(* again and generating take a credential as if in one step, and what an    *)
(* image reports is what it went through.                                   *)
THEOREM SchedulerKeepsSharing == Spec => KeepsSharing
  <1>1. SchedulerInv /\ [Next]_vars => [Sharing!Next]_Seen
    <2> SUFFICES ASSUME SchedulerInv, [Next]_vars PROVE [Sharing!Next]_Seen
      OBVIOUS
    <2>1. ASSUME NEW i \in Image, ImageStep(i) PROVE [Sharing!Next]_Seen
      BY <2>1, ImageSharing, SameImages DEF Sharing!Next
    <2>2. ASSUME NEW r \in Requests, Accept(r) \/ Reply(r) \/ Expire(r)
          PROVE  [Sharing!Next]_Seen
      BY <2>2, RequestSharing DEF Sharing!Next
    <2>3. ASSUME NEW k \in Credentials, CooldownEnds(k) PROVE [Sharing!Next]_Seen
      BY <2>3, TimeSharing DEF Sharing!Next
    <2>4. CASE UNCHANGED vars
      BY <2>4 DEF vars, shared, given, local, scan, Seen, Users
    <2> QED
      BY <2>1, <2>2, <2>3, <2>4 DEF Next
  <1>2. SchedulerInv /\ [Next]_vars => [Sharing!Next]_(Sharing!vars)
    BY <1>1 DEF Seen, Sharing!vars
  <1> QED
    BY <1>2, InitSharing, Invariant, PTL DEF Spec, KeepsSharing, Sharing!Spec
=============================================================================
