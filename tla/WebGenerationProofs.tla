------------------------ MODULE WebGenerationProofs ------------------------
(* Safety of WebGeneration, for any requests, documents and lines, proved   *)
(* from an inductive invariant.                                             *)
EXTENDS WebGeneration, FiniteSetTheorems, SequenceTheorems, TLAPS

Outcomes == {"none", "image", "timeout", "challenged"} \cup Failures
Blamable == {"nobody", "account", "other", "client"}

NumImages == Len(request.images)
NumMasks  == Len(request.masks)

(* How many masks come no later than image i: the number of its own. *)
MasksUpTo(i) == Cardinality({m \in DOMAIN request.masks : m <= i})

(* The first n images are those the client sent, in order, not yet masked. *)
Plain(n) ==
    /\ Len(images) = n
    /\ \A i \in 1 .. n : images[i].input = i /\ images[i].mask = 0

(* All of them are there, each under its mask, *)
Masked ==
    /\ Len(images) = NumImages
    /\ \A i \in 1 .. NumImages : images[i].input = i /\ images[i].mask = MasksUpTo(i)

(* and the first n are uploaded. *)
Uploaded(n) ==
    /\ Len(uploaded) = n
    /\ \A i \in 1 .. n :
         /\ uploaded[i].input = i /\ uploaded[i].ok
         /\ uploaded[i].mask = MasksUpTo(i)

(* What has become of the inputs, phase by phase. *)
Prepared ==
    /\ phase = "normalize" =>
         /\ uploaded = <<>>
         /\ \/ pos - 1 <= NumImages /\ Plain(pos - 1) /\ masks = <<>>
            \/ /\ NumImages < pos - 1 /\ pos - 1 <= NumImages + NumMasks
               /\ Plain(NumImages) /\ Len(masks) = pos - 1 - NumImages
    /\ phase = "composite" =>
         uploaded = <<>> /\ pos = 1 /\ Plain(NumImages) /\ Len(masks) = NumMasks
    /\ phase \in {"upload", "put", "confirm"} =>
         Masked /\ pos - 1 <= NumImages /\ Uploaded(pos - 1)
    /\ phase \in {"put", "confirm"} => pos <= NumImages /\ images[pos].ok
    /\ phase \in Setup \cup {"start", "stream"} => Uploaded(NumImages)

Inv == TypeOK /\ Prepared

(* The data lines collected are those read since the last empty one. *)
Gathered ==
    LET n == Len(stream) IN
    \E a \in 1 .. n + 1 : Spans(a, n + 1) /\ lines = SubSeq(stream, a, n)

(* Up to here the events are those of the frames that were ended. *)
Complete ==
    /\ Len(events) = Cardinality(Yielding)
    /\ \A b \in Yielding : \A a \in 1 .. b :
         Spans(a, b) => events[Rank(b)] = Decode(SubSeq(stream, a, b - 1)).value
    /\ \A i \in DOMAIN events : ~IsTokenError(events[i])

Value == {Decode(frame).value : frame \in Seq(Line)}

Assembled ==
    /\ phase \in Working \ {"stream", "collect", "poll", "locate", "download"} =>
         stream = <<>> /\ lines = <<>> /\ events = <<>>
    /\ phase \in {"stream", "collect"} =>
         /\ stream \in Seq(Line \cup {Blank})
         /\ lines \in Seq(Line) /\ events \in Seq(Value)
         /\ Gathered /\ Complete

-----------------------------------------------------------------------------
LEMMA RequestIsTyped ==
    ASSUME TypeOK
    PROVE  /\ request.images \in Seq(Source) /\ request.masks \in Seq(Source)
           /\ NumImages \in Nat /\ NumMasks \in Nat
           /\ Sources \in Seq(Source) /\ Len(Sources) = NumImages + NumMasks
  BY InputsAssumption DEF TypeOK, NumImages, NumMasks, Sources

(* An image's mask is the one at its own place, or the last. *)
LEMMA MasksCounted ==
    ASSUME TypeOK, NEW i \in Nat
    PROVE  MasksUpTo(i) = IF i < NumMasks THEN i ELSE NumMasks
  <1> DEFINE n == IF i < NumMasks THEN i ELSE NumMasks
  <1>1. NumMasks \in Nat /\ DOMAIN request.masks = 1 .. NumMasks
    BY RequestIsTyped DEF NumMasks
  <1>2. n \in Nat /\ {m \in DOMAIN request.masks : m <= i} = 1 .. n
    BY <1>1
  <1>3. Cardinality(1 .. n) = n
    BY <1>2, FS_Interval
  <1> QED
    BY <1>2, <1>3 DEF MasksUpTo

(* A step that ends the work satisfies the invariant, wherever it was. *)
LEMMA LeaveStep ==
    ASSUME Inv, phase \in Working,
           \/ TimedOut
           \/ \E whose \in Blamable : Failed(whose) \/ Crash(whose)
           \/ \E result \in Outcomes \ {"none"}, whose \in Blamable : Leave(result, whose),
           UNCHANGED <<request, expired>>,
           pos' \in Nat \ {0}, known' \in BOOLEAN,
           images' \in Seq([input : Nat, mask : Nat, ok : BOOLEAN]),
           masks' \in Seq(BOOLEAN),
           uploaded' \in Seq([input : Nat, mask : Nat, ok : BOOLEAN]),
           conversation' \in {"none", "visible", "kept", "hidden"}
    PROVE  Inv'
  <1>1. phase' = "cleanup" /\ outcome' \in Outcomes \ {"none"} /\ blamed' \in Blamable
    BY DEF TimedOut, Failed, Crash, Leave, Outcomes, Blamable, Failures
  <1> QED
    BY <1>1 DEF Inv, TypeOK, Outcomes, Blamable, Working, Setup, Prepared

(* A step within the work satisfies it when the inputs are prepared. *)
LEMMA GotoStep ==
    ASSUME Inv, phase \in Working, NEW next \in Working, Goto(next), Prepared',
           UNCHANGED <<request, expired>>,
           pos' \in Nat \ {0}, known' \in BOOLEAN,
           images' \in Seq([input : Nat, mask : Nat, ok : BOOLEAN]),
           masks' \in Seq(BOOLEAN),
           uploaded' \in Seq([input : Nat, mask : Nat, ok : BOOLEAN]),
           conversation' \in {"none", "visible", "kept", "hidden"}
    PROVE  Inv'
  BY DEF Goto, Inv, TypeOK, Working, Setup

(* Once the inputs are uploaded the generation only looks at them. *)
LEMMA LaterStep ==
    ASSUME Inv, phase \in Setup \cup {"start", "stream", "collect", "poll", "locate", "download"},
           \/ \E whose \in Blamable : TimedOut \/ Failed(whose) \/ Crash(whose)
           \/ \E result \in Outcomes \ {"none"}, whose \in Blamable : Leave(result, whose)
           \/ /\ \E next \in Setup \cup {"start", "stream"} : Goto(next)
              /\ phase \in Setup \cup {"start", "stream"}
           \/ \E next \in {"collect", "poll", "locate", "download"} : Goto(next),
           UNCHANGED <<inputs, expired>>,
           pos' \in Nat \ {0}, known' \in BOOLEAN,
           conversation' \in {"none", "visible", "kept", "hidden"}
    PROVE  Inv'
  <1> USE DEF inputs
  <1>1. /\ images' \in Seq([input : Nat, mask : Nat, ok : BOOLEAN])
        /\ masks' \in Seq(BOOLEAN)
        /\ uploaded' \in Seq([input : Nat, mask : Nat, ok : BOOLEAN])
        /\ phase \in Working
    BY DEF Inv, TypeOK, Working
  <1>2. ASSUME NEW next \in Setup \cup {"start", "stream"}, Goto(next),
               phase \in Setup \cup {"start", "stream"}
        PROVE  Inv'
    <2>1. Prepared'
      BY <1>2 DEF Goto, Inv, Prepared, Setup, Uploaded, MasksUpTo, NumImages
    <2> QED
      BY <1>1, <1>2, <2>1, GotoStep DEF Working
  <1>3. ASSUME NEW next \in {"collect", "poll", "locate", "download"}, Goto(next)
        PROVE  Inv'
    <2>1. Prepared'
      BY <1>3 DEF Goto, Prepared, Setup
    <2> QED
      BY <1>1, <1>3, <2>1, GotoStep DEF Working
  <1> QED
    BY <1>1, <1>2, <1>3, LeaveStep

-----------------------------------------------------------------------------
(* The initial states satisfy the invariant. *)
LEMMA InitialInvariant == Init => Inv
  <1> SUFFICES ASSUME Init PROVE Inv
    OBVIOUS
  <1>1. TypeOK
    <2> DEFINE Image == [input : Nat, mask : Nat, ok : BOOLEAN]
    <2>1. images \in Seq(Image) /\ uploaded \in Seq(Image) /\ masks \in Seq(BOOLEAN)
      BY DEF Init
    <2>2. phase \in Working /\ request \in Inputs /\ pos \in Nat \ {0}
      BY DEF Init, Working
    <2>3. expired \in BOOLEAN /\ known \in BOOLEAN
      BY DEF Init
    <2>4. conversation = "none" /\ outcome = "none" /\ blamed = "nobody"
      BY DEF Init
    <2> QED
      BY <2>1, <2>2, <2>3, <2>4 DEF TypeOK
  <1>2. NumImages \in Nat
    BY <1>1, RequestIsTyped
  <1> QED
    BY <1>1, <1>2 DEF Init, Inv, Prepared, Plain, Setup

(* The next source, normalised, comes after those before it. *)
LEMMA NormalizeStep ==
    ASSUME Inv, Normalize
    PROVE  Inv'
  <1>1. ASSUME NEW isImage \in BOOLEAN, Normalised(isImage) PROVE Inv'
    <2>1. /\ phase = "normalize" /\ pos <= NumImages + NumMasks
          /\ UNCHANGED <<request, uploaded, expired, known, conversation>>
      BY RequestIsTyped DEF Normalize, Inv, found
    <2>2. NumImages' = NumImages /\ NumMasks' = NumMasks
      BY <2>1 DEF NumImages, NumMasks
    <2>3. pos \in Nat \ {0} /\ NumImages \in Nat /\ NumMasks \in Nat
      BY RequestIsTyped DEF Inv, TypeOK
    <2>4. CASE pos <= NumImages
      <3>1. /\ images' = Append(images, [input |-> pos, mask |-> 0, ok |-> isImage])
            /\ masks' = masks /\ pos' = pos + 1 /\ phase' = "normalize"
        BY <1>1, <2>4 DEF Normalised, Goto, NumImages
      <3>2. Plain(pos - 1) /\ masks = <<>>
        BY <2>1, <2>3, <2>4 DEF Inv, Prepared
      <3>3. images' \in Seq([input : Nat, mask : Nat, ok : BOOLEAN])
        BY <2>3, <3>1 DEF Inv, TypeOK
      <3>4. Len(images') = pos
        BY <2>3, <3>1, <3>2 DEF Plain, Inv, TypeOK
      <3>5. \A i \in 1 .. pos : images'[i].input = i /\ images'[i].mask = 0
        BY <2>3, <3>1, <3>2 DEF Plain, Inv, TypeOK
      <3>6. Prepared'
        <4>1. Plain(pos - 1)'
          BY <2>3, <3>1, <3>4, <3>5 DEF Plain
        <4> QED
          BY <2>1, <2>2, <2>3, <2>4, <3>1, <3>2, <4>1 DEF Inv, Prepared, Setup
      <3> QED
        BY <1>1, <2>1, <2>3, <3>1, <3>3, <3>6, GotoStep
        DEF Normalised, Inv, TypeOK, Working
    <2>5. CASE pos > NumImages
      <3>1. /\ masks' = Append(masks, isImage)
            /\ images' = images /\ pos' = pos + 1 /\ phase' = "normalize"
        BY <1>1, <2>3, <2>5 DEF Normalised, Goto, NumImages
      <3>2. masks' \in Seq(BOOLEAN) /\ Len(masks') = Len(masks) + 1
        BY <3>1 DEF Inv, TypeOK
      <3>3. Plain(NumImages) /\ Len(masks) = pos - 1 - NumImages
        <4>1. CASE pos - 1 <= NumImages
          <5>1. pos - 1 = NumImages
            BY <2>3, <2>5, <4>1
          <5> QED
            BY <2>1, <2>3, <5>1 DEF Inv, Prepared
        <4>2. CASE NumImages < pos - 1
          BY <2>1, <2>3, <4>2 DEF Inv, Prepared
        <4> QED
          BY <2>3, <4>1, <4>2
      <3>4. Plain(NumImages)'
        BY <2>2, <3>1, <3>3 DEF Plain
      <3>5. Prepared'
        BY <2>1, <2>2, <2>3, <2>5, <3>1, <3>2, <3>3, <3>4 DEF Inv, Prepared, Setup
      <3> QED
        BY <1>1, <2>1, <2>3, <3>1, <3>2, <3>5, GotoStep
        DEF Normalised, Inv, TypeOK, Working
    <2> QED
      BY <2>3, <2>4, <2>5
  <1>2. ASSUME TimedOut \/ Failed("other"), UNCHANGED <<pos, images, masks>> PROVE Inv'
    BY <1>2, LeaveStep DEF Normalize, Inv, TypeOK, found, Working, Blamable
  <1> QED
    BY <1>1, <1>2 DEF Normalize

(* Compositing gives each image its mask. *)
LEMMA CompositeStep ==
    ASSUME Inv, Composite
    PROVE  Inv'
  <1>1. /\ phase = "composite" /\ phase \in Working
        /\ UNCHANGED <<pos, request, masks, uploaded, expired, known, conversation>>
    BY DEF Composite, found, Working
  <1>2. /\ Plain(NumImages) /\ Len(masks) = NumMasks /\ uploaded = <<>> /\ pos = 1
        /\ NumImages \in Nat /\ NumMasks \in Nat
    BY <1>1, RequestIsTyped DEF Inv, Prepared
  <1>3. ASSUME Goto("upload"), images' \in Seq([input : Nat, mask : Nat, ok : BOOLEAN]),
               Len(images') = NumImages,
               \A i \in 1 .. NumImages : images'[i].input = i /\ images'[i].mask = MaskOf(i)
        PROVE  Inv'
    <2>1. NumImages' = NumImages /\ \A i : MasksUpTo(i)' = MasksUpTo(i)
      BY <1>1 DEF NumImages, MasksUpTo
    <2>2. \A i \in 1 .. NumImages : MaskOf(i) = MasksUpTo(i)
      BY <1>2, MasksCounted DEF MaskOf, Inv
    <2>3. Masked'
      BY <1>3, <2>1, <2>2 DEF Masked
    <2>4. Uploaded(0)'
      BY <1>1, <1>2 DEF Uploaded
    <2>5. Prepared'
      BY <1>1, <1>2, <1>3, <2>1, <2>3, <2>4 DEF Goto, Prepared, Setup
    <2> QED
      BY <1>1, <1>3, <2>5, GotoStep DEF Inv, TypeOK, Working
  <1>4. CASE masks = <<>>
    <2>1. NumMasks = 0 /\ Goto("upload") /\ images' = images
      BY <1>2, <1>4 DEF Composite
    <2>2. \A i \in 1 .. NumImages : images'[i].input = i /\ images'[i].mask = MaskOf(i)
      BY <1>2, <1>4, <2>1 DEF Plain, MaskOf
    <2> QED
      BY <1>2, <1>3, <2>1, <2>2 DEF Plain, Inv, TypeOK
  <1>5. CASE masks # <<>> /\ \A i \in DOMAIN images : images[i].ok /\ masks[MaskOf(i)]
    <2>1. /\ Goto("upload")
          /\ images' = [i \in DOMAIN images |->
                          [input |-> images[i].input, mask |-> MaskOf(i), ok |-> TRUE]]
      BY <1>5 DEF Composite
    <2>2. DOMAIN images = 1 .. NumImages
      BY <1>2 DEF Plain, Inv, TypeOK
    <2>3. \A i \in 1 .. NumImages : MaskOf(i) \in Nat /\ images[i].input \in Nat
      BY <1>2 DEF MaskOf, Plain
    <2>4. /\ images' \in Seq([input : Nat, mask : Nat, ok : BOOLEAN])
          /\ Len(images') = NumImages
      BY <1>2, <2>1, <2>2, <2>3
    <2>5. \A i \in 1 .. NumImages : images'[i].input = i /\ images'[i].mask = MaskOf(i)
      BY <1>2, <2>1, <2>2 DEF Plain
    <2> QED
      BY <1>3, <2>1, <2>4, <2>5
  <1>6. CASE Crash("client") /\ images' = images
    BY <1>1, <1>6, LeaveStep DEF Inv, TypeOK, Blamable
  <1> QED
    BY <1>4, <1>5, <1>6 DEF Composite

(* Every step keeps it. *)
LEMMA InductiveInvariant == Inv /\ [Next]_vars => Inv'
  <1> SUFFICES ASSUME Inv, [Next]_vars PROVE Inv'
    OBVIOUS
  <1> USE DEF inputs, reading, found
  <1>0. TypeOK /\ NumImages \in Nat /\ NumMasks \in Nat /\ pos \in Nat \ {0}
    BY RequestIsTyped DEF Inv, TypeOK
  <1>1. CASE Normalize
    BY <1>1, NormalizeStep
  <1>2. CASE NormalizeEnds
    <2>1. phase = "normalize" /\ pos > NumImages + NumMasks
      BY <1>0, <1>2, RequestIsTyped DEF NormalizeEnds
    <2>2. Plain(NumImages) /\ Len(masks) = NumMasks /\ uploaded = <<>>
      <3>1. CASE pos - 1 <= NumImages
        <4>1. pos - 1 = NumImages /\ NumMasks = 0
          BY <1>0, <2>1, <3>1
        <4> QED
          BY <1>0, <2>1, <4>1 DEF Inv, Prepared
      <3>2. CASE NumImages < pos - 1
        BY <1>0, <2>1, <3>2 DEF Inv, Prepared
      <3> QED
        BY <1>0, <3>1, <3>2
    <2>3. Prepared'
      BY <1>2, <2>2 DEF NormalizeEnds, Goto, Prepared, Setup, Plain, NumImages, NumMasks
    <2> QED
      BY <1>2, <2>3, GotoStep DEF NormalizeEnds, Inv, TypeOK, Working
  <1>3. CASE Composite
    BY <1>3, CompositeStep
  <1>4. CASE Upload
    <2>1. /\ phase = "upload" /\ Masked /\ pos - 1 <= NumImages /\ Uploaded(pos - 1)
          /\ UNCHANGED <<pos, inputs, expired, reading, found, conversation>>
      BY <1>4 DEF Upload, Inv, Prepared
    <2>2. CASE TimedOut \/ Failed("account") \/ Crash("client")
      BY <2>1, <2>2, LeaveStep DEF Inv, TypeOK, Working, Blamable
    <2>3. CASE Goto("bootstrap") /\ pos > Len(images)
      <3>1. pos - 1 = NumImages
        BY <1>0, <2>1, <2>3 DEF Masked
      <3>2. Prepared'
        BY <2>1, <2>3, <3>1 DEF Goto, Prepared, Setup, Uploaded, MasksUpTo, NumImages
      <3> QED
        BY <2>1, <2>3, <3>2, GotoStep DEF Inv, TypeOK, Working, Setup
    <2>4. CASE Goto("put") /\ pos <= Len(images) /\ images[pos].ok
      <3>1. Prepared'
        BY <1>0, <2>1, <2>4
        DEF Goto, Prepared, Setup, Masked, Uploaded, MasksUpTo, NumImages
      <3> QED
        BY <2>1, <2>4, <3>1, GotoStep DEF Inv, TypeOK, Working
    <2> QED
      BY <1>0, <1>4, <2>2, <2>3, <2>4 DEF Upload, Exchange, Inv, TypeOK
  <1>5. CASE Put
    <2>1. /\ phase = "put"
          /\ UNCHANGED <<pos, inputs, expired, reading, found, conversation>>
      BY <1>5 DEF Put
    <2>2. CASE TimedOut \/ Failed("other")
      BY <2>1, <2>2, LeaveStep DEF Inv, TypeOK, Working, Blamable
    <2>3. CASE Goto("confirm")
      <3>1. Prepared'
        BY <2>1, <2>3 DEF Goto, Inv, Prepared, Setup, Masked, Uploaded, MasksUpTo, NumImages
      <3> QED
        BY <2>1, <2>3, <3>1, GotoStep DEF Inv, TypeOK, Working
    <2> QED
      BY <1>5, <2>2, <2>3 DEF Put, Exchange
  <1>6. CASE Confirm
    <2>1. /\ phase = "confirm" /\ Masked /\ pos <= NumImages /\ images[pos].ok
          /\ Uploaded(pos - 1)
          /\ UNCHANGED <<request, images, masks, expired, known, conversation>>
      BY <1>6 DEF Confirm, Inv, Prepared
    <2>2. CASE (TimedOut \/ Failed("account")) /\ UNCHANGED <<pos, uploaded>>
      BY <2>1, <2>2, LeaveStep DEF Inv, TypeOK, Working, Blamable
    <2>3. CASE Goto("upload") /\ uploaded' = Append(uploaded, images[pos]) /\ pos' = pos + 1
      <3>1. images[pos] \in [input : Nat, mask : Nat, ok : BOOLEAN]
        <4> DEFINE Image == [input : Nat, mask : Nat, ok : BOOLEAN]
        <4>1. images \in Seq(Image) /\ pos \in 1 .. Len(images)
          BY <1>0, <2>1 DEF Masked, TypeOK
        <4> HIDE DEF Image
        <4>2. images[pos] \in Image
          BY <4>1
        <4> QED
          BY <4>2 DEF Image
      <3>2. /\ uploaded' \in Seq([input : Nat, mask : Nat, ok : BOOLEAN])
            /\ Len(uploaded') = pos
        BY <1>0, <2>1, <2>3, <3>1 DEF Uploaded, TypeOK
      <3>3. \A i \in 1 .. pos :
              /\ uploaded'[i].input = i /\ uploaded'[i].ok
              /\ uploaded'[i].mask = MasksUpTo(i)
        <4> SUFFICES ASSUME NEW i \in 1 .. pos
                     PROVE  /\ uploaded'[i].input = i /\ uploaded'[i].ok
                            /\ uploaded'[i].mask = MasksUpTo(i)
          OBVIOUS
        <4>1. CASE i = pos
          <5>1. uploaded'[i] = images[i]
            BY <1>0, <2>1, <2>3, <4>1 DEF Uploaded, TypeOK
          <5> QED
            BY <1>0, <2>1, <4>1, <5>1 DEF Masked
        <4>2. CASE i # pos
          <5>1. i \in 1 .. pos - 1 /\ uploaded'[i] = uploaded[i]
            BY <1>0, <2>1, <2>3, <4>2 DEF Uploaded, TypeOK
          <5> QED
            BY <2>1, <5>1 DEF Uploaded
        <4> QED
          BY <4>1, <4>2
      <3>4. NumImages' = NumImages /\ \A i : MasksUpTo(i)' = MasksUpTo(i)
        BY <2>1 DEF NumImages, MasksUpTo
      <3>5. Uploaded(pos - 1)' /\ pos' - 1 <= NumImages'
        BY <1>0, <2>1, <2>3, <3>2, <3>3, <3>4 DEF Uploaded
      <3>6. Masked'
        BY <2>1, <3>4 DEF Masked
      <3>7. Prepared'
        BY <2>3, <3>5, <3>6 DEF Goto, Prepared, Setup
      <3> QED
        BY <1>0, <2>1, <2>3, <3>2, <3>7, GotoStep DEF TypeOK, Working
    <2> QED
      BY <1>6, <2>2, <2>3 DEF Confirm
  <1>7. CASE SetUp
    <2>1. /\ phase \in Setup
          /\ UNCHANGED <<pos, inputs, expired, reading, found, conversation>>
      BY <1>7 DEF SetUp, Proof, Setup
    <2>2. \/ TimedOut \/ Failed("account") \/ Crash("account") \/ Leave("challenged", "account")
          \/ \E next \in Setup \cup {"start", "stream"} : Goto(next)
      BY <1>7 DEF SetUp, Proof, Exchange, Setup
    <2> QED
      BY <2>1, <2>2, LaterStep DEF Inv, TypeOK, Blamable, Outcomes
  <1>8. CASE Start
    <2>1. /\ phase = "start" /\ UNCHANGED <<pos, inputs, expired, reading, found>>
          /\ conversation' \in {"none", "visible", "kept", "hidden"}
      BY <1>8 DEF Start, Inv, TypeOK
    <2>2. TimedOut \/ Failed("account") \/ Goto("stream")
      BY <1>8 DEF Start
    <2> QED
      BY <2>1, <2>2, LaterStep DEF Inv, TypeOK, Blamable
  <1>9. CASE ReadBlank \/ ReadLine \/ StreamBreaks \/ StreamEnds
    <2>1. /\ phase = "stream"
          /\ UNCHANGED <<pos, inputs, expired, found, conversation>>
      BY <1>9 DEF ReadBlank, ReadLine, StreamBreaks, StreamEnds
    <2>2. \/ Leave("rejected", "account") \/ Crash("account")
          \/ Goto("stream") \/ Goto("collect")
      BY <1>9 DEF ReadBlank, Yield, ReadLine, StreamBreaks, StreamEnds
    <2> QED
      BY <2>1, <2>2, LaterStep DEF Inv, TypeOK, Blamable, Outcomes, Failures
  <1>10. CASE Collect
    <2>1. /\ phase = "collect" /\ known' \in BOOLEAN
          /\ UNCHANGED <<pos, inputs, expired, urls, conversation>>
      BY <1>10 DEF Collect
    <2>2. \/ TimedOut \/ Crash("account")
          \/ Leave("image", "nobody") \/ Leave("refused", "account")
          \/ Goto("locate") \/ Goto("poll")
      BY <1>10 DEF Collect
    <2> QED
      BY <2>1, <2>2, LaterStep DEF Inv, TypeOK, Blamable, Outcomes, Failures
  <1>11. CASE Poll
    <2>1. /\ phase = "poll"
          /\ UNCHANGED <<pos, inputs, expired, reading, known, urls, conversation>>
      BY <1>11 DEF Poll
    <2>2. \/ TimedOut \/ \E failure \in Failures : Leave(failure, "account")
          \/ Goto("locate") \/ Goto("poll")
      BY <1>11 DEF Poll, Failures
    <2> QED
      BY <2>1, <2>2, LaterStep DEF Inv, TypeOK, Blamable, Outcomes, Failures
  <1>12. CASE Locate
    <2>1. /\ phase = "locate" /\ pos' \in Nat \ {0}
          /\ UNCHANGED <<inputs, expired, reading, known, wanted, conversation>>
      BY <1>0, <1>12 DEF Locate
    <2>2. TimedOut \/ Failed("account") \/ Goto("locate") \/ Goto("download")
      BY <1>12 DEF Locate
    <2> QED
      BY <2>1, <2>2, LaterStep DEF Inv, TypeOK, Blamable
  <1>13. CASE Download
    <2>1. /\ phase = "download" /\ pos' \in Nat \ {0}
          /\ UNCHANGED <<inputs, expired, reading, found, conversation>>
      BY <1>0, <1>13 DEF Download
    <2>2. \/ TimedOut \/ Failed("other")
          \/ Leave("image", "nobody") \/ Leave("refused", "account") \/ Goto("download")
      BY <1>13 DEF Download
    <2> QED
      BY <2>1, <2>2, LaterStep DEF Inv, TypeOK, Blamable, Outcomes, Failures
  <1>14. CASE Hide \/ Close \/ Expire
    <2>1. TypeOK'
      BY <1>14 DEF Hide, Close, Expire, Inv, TypeOK, Working, Setup
    <2>2. Prepared'
      BY <1>14
      DEF Hide, Close, Expire, Inv, Prepared, Setup, Plain, Masked, Uploaded, MasksUpTo,
          NumImages, NumMasks
    <2> QED
      BY <2>1, <2>2 DEF Inv
  <1>15. CASE UNCHANGED vars
    <2>1. TypeOK'
      BY <1>15 DEF vars, Inv, TypeOK
    <2>2. Prepared'
      BY <1>15
      DEF vars, Inv, Prepared, Plain, Masked, Uploaded, MasksUpTo, NumImages, NumMasks
    <2> QED
      BY <2>1, <2>2 DEF Inv
  <1> QED
    BY <1>1, <1>2, <1>3, <1>4, <1>5, <1>6, <1>7, <1>8, <1>9, <1>10, <1>11, <1>12,
       <1>13, <1>14, <1>15
    DEF Next, Step

(* The inductive invariant holds in every reachable state. *)
THEOREM Invariant == Spec => []Inv
  <1> QED
    BY InitialInvariant, InductiveInvariant, PTL DEF Spec

(* The variables keep their types. *)
THEOREM TypesAreKept == Spec => []TypeOK
  <1>1. Inv => TypeOK
    BY DEF Inv
  <1> QED
    BY <1>1, Invariant, PTL

(* The conversation starts with the client's images, in their order, each   *)
(* under its mask, however many there are of either.                        *)
THEOREM InputsArrive == Spec => []EveryInputUploaded
  <1>1. Inv => EveryInputUploaded
    <2> SUFFICES ASSUME Inv, phase \in {"start", "stream"}
                 PROVE  /\ Len(uploaded) = Len(request.images)
                        /\ \A i \in DOMAIN uploaded :
                             /\ uploaded[i].input = i /\ uploaded[i].ok
                             /\ uploaded[i].mask =
                                  Cardinality({m \in DOMAIN request.masks : m <= i})
      BY DEF EveryInputUploaded
    <2>1. Uploaded(NumImages)
      BY DEF Inv, Prepared
    <2>2. DOMAIN uploaded = 1 .. Len(uploaded)
      BY DEF Inv, TypeOK
    <2> QED
      BY <2>1, <2>2 DEF Uploaded, NumImages, MasksUpTo
  <1> QED
    BY <1>1, Invariant, PTL

-----------------------------------------------------------------------------
(* A frame begins at one place only. *)
LEMMA OneSpan ==
    ASSUME NEW a, NEW c, NEW b \in Nat, Spans(a, b), Spans(c, b)
    PROVE  a = c
  BY DEF Spans

(* The lines of a stream that has one more. *)
LEMMA StreamGrows ==
    ASSUME NEW S, stream \in Seq(S), NEW line \in S, stream' = Append(stream, line),
           NEW n \in Nat, n = Len(stream)
    PROVE  /\ Len(stream') = n + 1 /\ stream'[n + 1] = line
           /\ DOMAIN stream = 1 .. n /\ DOMAIN stream' = 1 .. n + 1
           /\ \A i \in 1 .. n : stream'[i] = stream[i] /\ stream[i] \in S
  OBVIOUS

(* Its frames up to there are the same, *)
LEMMA SpansStay ==
    ASSUME NEW S, stream \in Seq(S), NEW line \in S, stream' = Append(stream, line),
           NEW n \in Nat, n = Len(stream), NEW b \in 1 .. n + 1, NEW a \in 1 .. b
    PROVE  /\ Spans(a, b)' <=> Spans(a, b)
           /\ SubSeq(stream', a, b - 1) = SubSeq(stream, a, b - 1)
  <1>1. \A i \in 1 .. n : stream'[i] = stream[i] /\ stream[i] \in S
    BY StreamGrows
  <1>2. Spans(a, b)' <=> Spans(a, b)
    BY <1>1 DEF Spans
  <1> DEFINE old == SubSeq(stream, a, b - 1)
             new == SubSeq(stream', a, b - 1)
             size == IF a <= b - 1 THEN b - a ELSE 0
  <1>3. a \in Int /\ b - 1 \in Int /\ \A i \in a .. b - 1 : i \in 1 .. n
    OBVIOUS
  <1>4. /\ old \in Seq(S) /\ Len(old) = size
        /\ \A i \in 1 .. b - a : old[i] = stream[a + i - 1]
    BY <1>1, <1>3, SubSeqProperties
  <1>5. \A i \in a .. b - 1 : stream'[i] \in S
    BY <1>1, <1>3
  <1>6. /\ new \in Seq(S) /\ Len(new) = size
        /\ \A i \in 1 .. b - a : new[i] = stream'[a + i - 1]
    BY <1>3, <1>5, SubSeqProperties
  <1>7. \A i \in 1 .. size : old[i] = new[i]
    BY <1>1, <1>4, <1>6
  <1> HIDE DEF old, new
  <1>8. old = new
    BY <1>4, <1>6, <1>7, SeqEqual
  <1> QED
    BY <1>2, <1>8 DEF old, new

(* and the one it is in has one line more. *)
LEMMA FrameGrows ==
    ASSUME NEW S, stream \in Seq(S), NEW line \in S, stream' = Append(stream, line),
           NEW n \in Nat, n = Len(stream), NEW a \in 1 .. n + 1
    PROVE  SubSeq(stream', a, n + 1) = Append(SubSeq(stream, a, n), line)
  <1>1. /\ Len(stream') = n + 1 /\ stream'[n + 1] = line
        /\ \A i \in 1 .. n : stream'[i] = stream[i] /\ stream[i] \in S
    BY StreamGrows
  <1> DEFINE old == SubSeq(stream, a, n)
             new == SubSeq(stream', a, n + 1)
             size == n + 1 - a
  <1>2. a \in Int /\ n \in Int /\ size \in Nat /\ \A i \in a .. n : i \in 1 .. n
    OBVIOUS
  <1>3. \A i \in a .. n : stream[i] \in S
    BY <1>1, <1>2
  <1>4. /\ old \in Seq(S) /\ Len(old) = size
        /\ \A i \in 1 .. n - a + 1 : old[i] = stream[a + i - 1]
    BY <1>2, <1>3, SubSeqProperties
  <1>5. \A i \in a .. n + 1 : stream'[i] \in S
    BY <1>1
  <1>6. /\ new \in Seq(S) /\ Len(new) = size + 1
        /\ \A i \in 1 .. n + 1 - a + 1 : new[i] = stream'[a + i - 1]
    BY <1>2, <1>5, SubSeqProperties
  <1>7. \A i \in 1 .. size : new[i] = old[i]
    BY <1>1, <1>4, <1>6
  <1>8. new[size + 1] = line
    BY <1>1, <1>6
  <1>9. old \in Seq(S) /\ Len(old) = size
    BY <1>4
  <1> HIDE DEF old, new, size
  <1>10. /\ Append(old, line) \in Seq(S) /\ Len(Append(old, line)) = size + 1
         /\ Append(old, line)[size + 1] = line
         /\ \A i \in 1 .. size : Append(old, line)[i] = old[i]
    <2> SUFFICES ASSUME NEW t \in Seq(S), Len(t) = size
                 PROVE  /\ Append(t, line) \in Seq(S) /\ Len(Append(t, line)) = size + 1
                        /\ Append(t, line)[size + 1] = line
                        /\ \A i \in 1 .. size : Append(t, line)[i] = t[i]
      BY <1>9
    <2> QED
      BY <1>2
  <1>11. \A i \in 1 .. size + 1 : new[i] = Append(old, line)[i]
    BY <1>2, <1>7, <1>8, <1>10
  <1>12. new = Append(old, line)
    BY <1>6, <1>10, <1>11, SeqEqual
  <1> QED
    BY <1>12 DEF old, new

(* The frames that were ended are counted by their rank. *)
LEMMA RanksCount ==
    ASSUME NEW S, stream \in Seq(S)
    PROVE  /\ IsFiniteSet(Yielding) /\ Cardinality(Yielding) \in Nat
           /\ \A b \in Yielding : Rank(b) \in 1 .. Cardinality(Yielding)
  <1>1. Yielding \subseteq 1 .. Len(stream) /\ Len(stream) \in Nat
    BY DEF Yielding
  <1>2. IsFiniteSet(Yielding) /\ Cardinality(Yielding) \in Nat
    <2>1. IsFiniteSet(1 .. Len(stream))
      BY <1>1, FS_Interval
    <2>2. IsFiniteSet(Yielding)
      BY <1>1, <2>1, FS_Subset
    <2> QED
      BY <2>2, FS_CardinalityType
  <1>3. ASSUME NEW b \in Yielding PROVE Rank(b) \in 1 .. Cardinality(Yielding)
    <2> DEFINE upTo == {c \in Yielding : c <= b}
    <2>1. IsFiniteSet(upTo) /\ Cardinality(upTo) <= Cardinality(Yielding)
      BY <1>2, FS_Subset
    <2>2. b \in upTo
      BY <1>1
    <2>3. Cardinality(upTo) \in Nat \ {0}
      BY <2>1, <2>2, FS_CardinalityType, FS_EmptySet
    <2> QED
      BY <1>2, <2>1, <2>3 DEF Rank
  <1> QED
    BY <1>2, <1>3

(* A line more ends no frame before it. *)
LEMMA YieldingGrows ==
    ASSUME NEW S, stream \in Seq(S), NEW line \in S, stream' = Append(stream, line),
           NEW n \in Nat, n = Len(stream)
    PROVE  /\ Yielding \subseteq 1 .. n
           /\ Yielding' \ {n + 1} = Yielding
           /\ n + 1 \in Yielding' <=>
                /\ line = Blank
                /\ \E a \in 1 .. n + 1 : Spans(a, n + 1) /\ IsEvent(SubSeq(stream, a, n))
           /\ \A b \in Yielding : Rank(b)' = Rank(b)
  <1>1. /\ Len(stream') = n + 1 /\ stream'[n + 1] = line
        /\ DOMAIN stream = 1 .. n /\ DOMAIN stream' = 1 .. n + 1
        /\ \A i \in 1 .. n : stream'[i] = stream[i]
    BY StreamGrows
  <1>2. /\ Yielding \subseteq 1 .. n
        /\ Yielding' \subseteq 1 .. n + 1
    BY <1>1 DEF Yielding
  <1>3. ASSUME NEW b \in 1 .. n + 1
        PROVE  b \in Yielding' <=>
                 /\ stream'[b] = Blank
                 /\ \E a \in 1 .. b : Spans(a, b) /\ IsEvent(SubSeq(stream, a, b - 1))
    <2>1. \A a \in 1 .. b : /\ Spans(a, b)' <=> Spans(a, b)
                            /\ SubSeq(stream', a, b - 1) = SubSeq(stream, a, b - 1)
      BY SpansStay
    <2>2. b \in Yielding' <=>
            /\ stream'[b] = Blank
            /\ \E a \in 1 .. b : Spans(a, b)' /\ IsEvent(SubSeq(stream', a, b - 1))
      BY <1>1 DEF Yielding
    <2> QED
      BY <2>1, <2>2
  <1>4. \A b \in 1 .. n : b \in Yielding' <=> b \in Yielding
    <2> SUFFICES ASSUME NEW b \in 1 .. n PROVE b \in Yielding' <=> b \in Yielding
      OBVIOUS
    <2>1. b \in 1 .. n + 1 /\ b \in DOMAIN stream /\ stream'[b] = stream[b]
      BY <1>1
    <2> QED
      BY <1>3, <2>1 DEF Yielding
  <1>5. Yielding' \ {n + 1} = Yielding
    <2>1. \A b \in 1 .. n + 1 : b \in 1 .. n \/ b = n + 1
      OBVIOUS
    <2>2. n + 1 \notin 1 .. n
      OBVIOUS
    <2> QED
      BY <1>2, <1>4, <2>1, <2>2
  <1>6. \A b \in Yielding : Rank(b)' = Rank(b)
    <2> SUFFICES ASSUME NEW b \in Yielding
                 PROVE  {c \in Yielding' : c <= b} = {c \in Yielding : c <= b}
      BY DEF Rank
    <2>1. b \in 1 .. n /\ ~(n + 1 <= b)
      BY <1>2
    <2> QED
      BY <1>5, <2>1
  <1>7. n + 1 \in 1 .. n + 1 /\ (n + 1) - 1 = n
    OBVIOUS
  <1>8. n + 1 \in Yielding' <=>
          /\ line = Blank
          /\ \E a \in 1 .. n + 1 : Spans(a, n + 1) /\ IsEvent(SubSeq(stream, a, n))
    BY <1>1, <1>3, <1>7
  <1> QED
    BY <1>2, <1>5, <1>6, <1>8

(* What was said of the frames ended before still holds. *)
LEMMA EarlierEventsStay ==
    ASSUME NEW S, stream \in Seq(S), NEW line \in S, stream' = Append(stream, line),
           Complete, DOMAIN events = 1 .. Len(events),
           \A i \in 1 .. Len(events) : events'[i] = events[i],
           NEW b \in Yielding, NEW a \in 1 .. b, Spans(a, b)'
    PROVE  events'[Rank(b)'] = Decode(SubSeq(stream', a, b - 1)).value
  <1> PICK n \in Nat : n = Len(stream)
    OBVIOUS
  <1>1. b \in 1 .. n /\ Rank(b)' = Rank(b)
    BY YieldingGrows
  <1>2. Spans(a, b) /\ SubSeq(stream', a, b - 1) = SubSeq(stream, a, b - 1)
    <2>1. b \in 1 .. n + 1
      BY <1>1
    <2> QED
      BY <2>1, SpansStay
  <1>3. Rank(b) \in 1 .. Len(events)
    BY RanksCount DEF Complete
  <1> QED
    BY <1>1, <1>2, <1>3 DEF Complete

(* A data line ends no frame. *)
LEMMA ReadLineStep ==
    ASSUME Assembled, phase = "stream", ReadLine
    PROVE  Assembled'
  <1> DEFINE Lines == Line \cup {Blank}
  <1>1. PICK line \in Line :
          stream' = Append(stream, line) /\ lines' = Append(lines, line)
    BY DEF ReadLine
  <1>2. /\ stream \in Seq(Lines) /\ lines \in Seq(Line) /\ events \in Seq(Value)
        /\ Gathered /\ Complete
        /\ events' = events /\ phase' = "stream"
    BY DEF Assembled, ReadLine, Goto
  <1>3. line \in Lines /\ line # Blank
    BY InputsAssumption
  <1>4. stream' \in Seq(Lines) /\ lines' \in Seq(Line)
    BY <1>1, <1>2, <1>3
  <1> HIDE DEF Lines
  <1> PICK n \in Nat : n = Len(stream)
    BY <1>2
  <1>5. /\ Len(stream') = n + 1 /\ stream'[n + 1] = line
        /\ \A i \in 1 .. n : stream'[i] = stream[i]
    BY <1>1, <1>2, <1>3, StreamGrows
  <1>6. Gathered'
    <2>1. PICK a \in 1 .. n + 1 : Spans(a, n + 1) /\ lines = SubSeq(stream, a, n)
      BY <1>2 DEF Gathered
    <2>2. Spans(a, n + 2)'
      BY <1>3, <1>5, <2>1 DEF Spans
    <2>3. lines' = SubSeq(stream', a, n + 1)
      BY <1>1, <1>2, <1>3, <2>1, FrameGrows
    <2>4. a \in 1 .. (n + 1) + 1 /\ (n + 1) + 1 = n + 2
      OBVIOUS
    <2> QED
      BY <1>5, <2>2, <2>3, <2>4 DEF Gathered
  <1>7. Yielding' = Yielding
    <2>1. Yielding' \ {n + 1} = Yielding /\ n + 1 \notin Yielding'
      BY <1>1, <1>2, <1>3, YieldingGrows
    <2> QED
      BY <2>1
  <1>8. Complete'
    <2>1. \A b \in Yielding : \A a \in 1 .. b :
            Spans(a, b)' => events'[Rank(b)'] = Decode(SubSeq(stream', a, b - 1)).value
      BY <1>1, <1>2, <1>3, EarlierEventsStay
    <2> QED
      BY <1>2, <1>7, <2>1 DEF Complete
  <1> QED
    BY <1>2, <1>4, <1>6, <1>8 DEF Assembled, Lines

(* An empty line ends one; it yields the event that the frame spells. *)
LEMMA ReadBlankStep ==
    ASSUME Assembled, phase = "stream", ReadBlank, phase' = "stream"
    PROVE  Assembled'
  <1> DEFINE Lines == Line \cup {Blank}
  <1>1. /\ stream \in Seq(Lines) /\ lines \in Seq(Line) /\ events \in Seq(Value)
        /\ Gathered /\ Complete
    BY DEF Assembled
  <1>2. /\ ~Rejects(lines)
        /\ stream' = Append(stream, Blank) /\ lines' = <<>>
        /\ events' = IF IsEvent(lines) THEN Append(events, Decode(lines).value) ELSE events
    BY DEF ReadBlank, Yield, Leave
  <1>3. Blank \in Lines
    OBVIOUS
  <1>4. stream' \in Seq(Lines) /\ lines' \in Seq(Line)
    BY <1>1, <1>2, <1>3
  <1> HIDE DEF Lines
  <1> PICK n \in Nat : n = Len(stream)
    BY <1>1
  <1>5. /\ Len(stream') = n + 1 /\ stream'[n + 1] = Blank
        /\ \A i \in 1 .. n : stream'[i] = stream[i]
    BY <1>1, <1>2, <1>3, StreamGrows
  <1>6. Gathered'
    <2>1. Spans(n + 2, n + 2)'
      BY <1>5 DEF Spans
    <2>2. SubSeq(stream', n + 2, n + 1) = <<>>
      BY <1>4, SubSeqEmpty
    <2>3. n + 2 \in 1 .. (n + 1) + 1 /\ (n + 1) + 1 = n + 2
      OBVIOUS
    <2> QED
      BY <1>2, <1>5, <2>1, <2>2, <2>3 DEF Gathered
  <1> PICK s \in 1 .. n + 1 : Spans(s, n + 1) /\ lines = SubSeq(stream, s, n)
    BY <1>1 DEF Gathered
  <1>7. \A a \in 1 .. n + 1 : Spans(a, n + 1) => a = s
    BY OneSpan
  <1>8. /\ Yielding \subseteq 1 .. n /\ Yielding' \ {n + 1} = Yielding
        /\ n + 1 \in Yielding' <=> IsEvent(lines)
    <2>1. /\ Yielding \subseteq 1 .. n /\ Yielding' \ {n + 1} = Yielding
          /\ n + 1 \in Yielding' <=>
               \E a \in 1 .. n + 1 : Spans(a, n + 1) /\ IsEvent(SubSeq(stream, a, n))
      BY <1>1, <1>2, <1>3, YieldingGrows
    <2>2. (\E a \in 1 .. n + 1 : Spans(a, n + 1) /\ IsEvent(SubSeq(stream, a, n)))
            <=> IsEvent(lines)
      <3> SUFFICES ASSUME NEW a \in 1 .. n + 1, Spans(a, n + 1)
                   PROVE  SubSeq(stream, a, n) = lines
        OBVIOUS
      <3> QED
        BY <1>7
    <2> QED
      BY <2>1, <2>2
  <1>9. ASSUME \A i \in 1 .. Len(events) : events'[i] = events[i]
        PROVE  \A b \in Yielding : \A a \in 1 .. b :
                 Spans(a, b)' => events'[Rank(b)'] = Decode(SubSeq(stream', a, b - 1)).value
    <2>1. DOMAIN events = 1 .. Len(events)
      BY <1>1
    <2> QED
      BY <1>1, <1>2, <1>3, <1>9, <2>1, EarlierEventsStay
  <1>10. CASE IsEvent(lines)
    <2>1. Yielding' = Yielding \cup {n + 1} /\ n + 1 \notin Yielding
      BY <1>8, <1>10
    <2>2. Decode(lines).value \in Value /\ ~IsTokenError(Decode(lines).value)
      <3>1. Decode(lines).value \in Value
        BY <1>1 DEF Value
      <3> QED
        BY <1>2, <1>10, <3>1 DEF Rejects, IsEvent
    <2>3. /\ events' \in Seq(Value) /\ Len(events') = Len(events) + 1
          /\ Len(events) \in Nat /\ events'[Len(events) + 1] = Decode(lines).value
          /\ \A i \in 1 .. Len(events) : events'[i] = events[i]
      BY <1>1, <1>2, <1>10, <2>2
    <2>4. Len(events') = Cardinality(Yielding')
      <3>1. IsFiniteSet(Yielding) /\ Len(events) = Cardinality(Yielding)
        BY <1>1, RanksCount DEF Complete
      <3>2. Cardinality(Yielding \cup {n + 1}) = Cardinality(Yielding) + 1
        BY <2>1, <3>1, FS_AddElement
      <3> QED
        BY <2>1, <2>3, <3>1, <3>2
    <2>5. Rank(n + 1)' = Len(events')
      <3>1. {c \in Yielding' : c <= n + 1} = Yielding'
        <4>1. \A c \in Yielding' : c <= n + 1
          BY <1>8, <2>1
        <4> QED
          BY <4>1
      <3>2. Rank(n + 1)' = Cardinality(Yielding')
        BY <3>1 DEF Rank
      <3> QED
        BY <2>4, <3>2
    <2>6. ASSUME NEW a \in 1 .. n + 1, Spans(a, n + 1)'
          PROVE  events'[Rank(n + 1)'] = Decode(SubSeq(stream', a, (n + 1) - 1)).value
      <3>1. n + 1 \in 1 .. n + 1 /\ (n + 1) - 1 = n
        OBVIOUS
      <3>2. Spans(a, n + 1) /\ SubSeq(stream', a, n) = SubSeq(stream, a, n)
        BY <1>1, <1>2, <1>3, <2>6, <3>1, SpansStay
      <3>3. SubSeq(stream', a, (n + 1) - 1) = lines
        BY <1>7, <3>1, <3>2
      <3> QED
        BY <2>3, <2>5, <3>3
    <2>7. Complete'
      <3>1. \A b \in Yielding : \A a \in 1 .. b :
              Spans(a, b)' => events'[Rank(b)'] = Decode(SubSeq(stream', a, b - 1)).value
        BY <1>9, <2>3
      <3>2. \A i \in DOMAIN events' : ~IsTokenError(events'[i])
        BY <1>1, <2>2, <2>3 DEF Complete
      <3> QED
        BY <2>1, <2>4, <2>6, <3>1, <3>2 DEF Complete
    <2> QED
      BY <1>4, <1>6, <2>3, <2>7 DEF Assembled, Lines
  <1>11. CASE ~IsEvent(lines)
    <2>1. Yielding' = Yielding /\ events' = events
      BY <1>2, <1>8, <1>11
    <2>2. Complete'
      BY <1>1, <1>9, <2>1 DEF Complete
    <2> QED
      BY <1>1, <1>4, <1>6, <2>1, <2>2 DEF Assembled, Lines
  <1> QED
    BY <1>10, <1>11

(* A step that leaves the stream alone, and is none into it, changes nothing.*)
LEMMA AssembledStep ==
    ASSUME Assembled, [Next]_vars
    PROVE  Assembled'
  <1> DEFINE Before == Working \ {"stream", "collect", "poll", "locate", "download"}
             After == {"poll", "locate", "download", "cleanup", "close", "closed"}
  <1>0. ASSUME UNCHANGED reading, Gathered, Complete PROVE Gathered' /\ Complete'
    <2>1. stream' = stream /\ lines' = lines /\ events' = events
      BY <1>0 DEF reading
    <2>2. \A a, b : Spans(a, b)' <=> Spans(a, b)
      BY <2>1 DEF Spans
    <2>3. Yielding' = Yielding
      BY <2>1, <2>2 DEF Yielding
    <2>4. \A b : Rank(b)' = Rank(b)
      BY <2>3 DEF Rank
    <2>5. Gathered'
      BY <1>0, <2>1, <2>2 DEF Gathered
    <2> QED
      BY <1>0, <2>1, <2>2, <2>3, <2>4, <2>5 DEF Complete
  <1>1. ASSUME phase' \in After PROVE Assembled'
    BY <1>1 DEF Assembled, Working, Setup
  <1>2. ASSUME UNCHANGED reading, phase \in Before, phase' \in Before PROVE Assembled'
    BY <1>2 DEF Assembled, reading, Working, Setup
  <1>3. ASSUME UNCHANGED reading, phase \in {"stream", "collect"},
               phase' \in {"stream", "collect"}
        PROVE  Assembled'
    BY <1>0, <1>3 DEF Assembled, reading, Working, Setup
  <1>4. ASSUME UNCHANGED reading, phase \in Before, phase' = "stream" PROVE Assembled'
    <2>1. stream' = <<>> /\ lines' = <<>> /\ events' = <<>>
      BY <1>4 DEF Assembled, reading
    <2>2. Gathered'
      BY <2>1, SubSeqEmpty DEF Gathered, Spans
    <2>3. Complete'
      <3>1. Yielding' = {}
        BY <2>1 DEF Yielding
      <3> QED
        BY <2>1, <3>1, FS_EmptySet DEF Complete
    <2> QED
      BY <1>4, <2>1, <2>2, <2>3 DEF Assembled, Working, Setup
  <1>5. CASE Normalize \/ NormalizeEnds \/ Composite \/ Upload \/ Put \/ Confirm
             \/ SetUp \/ Start
    <2>1. phase \in Before /\ UNCHANGED reading
      BY <1>5 DEF Normalize, NormalizeEnds, Composite, Upload, Put, Confirm, SetUp, Proof,
                  Start, Working, Setup
    <2>2. phase' \in Before \cup {"stream", "cleanup"}
      BY <1>5 DEF Normalize, Normalised, NormalizeEnds, Composite, Upload, Put, Confirm,
                  SetUp, Proof, Start, Exchange, TimedOut, Failed, Crash, Leave, Goto,
                  Working, Setup
    <2> QED
      BY <1>1, <1>2, <1>4, <2>1, <2>2
  <1>6. CASE ReadBlank
    <2>1. phase = "stream" /\ phase' \in {"stream", "cleanup"}
      BY <1>6 DEF ReadBlank, Yield, Leave, Goto
    <2> QED
      BY <1>1, <1>6, <2>1, ReadBlankStep
  <1>7. CASE ReadLine
    BY <1>7, ReadLineStep DEF ReadLine
  <1>8. CASE StreamBreaks \/ Collect \/ Poll \/ Locate \/ Download \/ Hide \/ Close
    BY <1>1, <1>8 DEF StreamBreaks, Collect, Poll, Locate, Download, Hide, Close,
                      TimedOut, Failed, Crash, Leave, Goto
  <1>9. CASE StreamEnds
    BY <1>3, <1>9 DEF StreamEnds, Goto
  <1>10. CASE Expire \/ UNCHANGED vars
    <2>1. UNCHANGED reading /\ phase' = phase
      BY <1>10 DEF Expire, vars
    <2> QED
      BY <1>0, <2>1 DEF Assembled, reading
  <1> QED
    BY <1>5, <1>6, <1>7, <1>8, <1>9, <1>10 DEF Next, Step

(* Whatever lines the stream has, and however many: when it has ended the   *)
(* events are the objects that its frames spell, in order.                  *)
THEOREM FramesAreAssembled == Spec => []FramesAreComplete
  <1>1. Init => Assembled
    BY DEF Init, Assembled
  <1>2. Assembled => FramesAreComplete
    BY DEF Assembled, Complete, FramesAreComplete
  <1> QED
    BY <1>1, <1>2, AssembledStep, PTL DEF Spec
-----------------------------------------------------------------------------
(* What is left of a generation whose time is up. *)

(* A generation at work is at least three steps from its end: out of the    *)
(* work, through the finally clause.                                        *)
LEMMA WorkTakesSteps ==
    ASSUME Inv, phase \in Working
    PROVE  /\ StepsLeft \in Nat /\ StepsLeft >= 3
           /\ phase = "normalize" => StepsLeft >= 6
  <1>1. CASE phase = "normalize"
    <2>1. pos \in Nat /\ Len(Sources) \in Nat /\ pos <= Len(Sources) + 1
      BY <1>1, RequestIsTyped DEF Inv, TypeOK, Prepared
    <2> QED
      BY <1>1, <2>1 DEF StepsLeft
  <1>2. CASE phase # "normalize"
    BY <1>2 DEF StepsLeft, Working, Setup
  <1> QED
    BY <1>1, <1>2

(* Every way out of the work leads there, *)
LEMMA WorkEnds ==
    ASSUME Inv, phase \in Working,
           \/ TimedOut
           \/ \E whose \in Blamable :
                \/ Crash(whose)
                \/ Failed(whose)
                \/ \E result \in Outcomes : Leave(result, whose)
    PROVE  StepsLeft' \in 0 .. StepsLeft - 1
  <1>1. phase' = "cleanup"
    BY DEF TimedOut, Crash, Failed, Leave
  <1>2. StepsLeft' = 2
    BY <1>1 DEF StepsLeft
  <1> QED
    BY <1>2, WorkTakesSteps

(* and no server is asked any more. *)
LEMMA NoMoreCalls ==
    ASSUME expired, NEW server \in Blamable, NEW next, Exchange(server, next)
    PROVE  TimedOut
  BY DEF Exchange, Failed

(* Each step of a generation whose time is up leaves fewer. *)
LEMMA StepsRunOut ==
    ASSUME Inv, Next, expired
    PROVE  StepsLeft' \in 0 .. StepsLeft - 1
  <1> USE DEF Blamable, Outcomes, Failures
  <1>1. CASE Normalize
    <2>1. phase = "normalize" /\ pos <= Len(Sources) /\ request' = request
      BY <1>1 DEF Normalize, inputs
    <2>2. CASE TimedOut
      BY <2>1, <2>2, WorkEnds DEF Working
    <2>3. CASE pos' = pos + 1 /\ Goto("normalize")
      <3>1. pos \in Nat /\ Len(Sources) \in Nat
        BY RequestIsTyped DEF Inv, TypeOK
      <3>2. Len(Sources)' = Len(Sources)
        BY <2>1 DEF Sources
      <3> QED
        BY <2>1, <2>3, <3>1, <3>2 DEF StepsLeft, Goto
    <2> QED
      BY <1>1, <2>2, <2>3 DEF Normalize, Normalised, Failed
  <1>2. CASE NormalizeEnds
    <2>1. phase = "normalize" /\ phase' = "composite"
      BY <1>2 DEF NormalizeEnds, Goto
    <2>2. StepsLeft >= 6 /\ StepsLeft \in Nat /\ StepsLeft' = 5
      BY <2>1, WorkTakesSteps DEF Working, StepsLeft
    <2> QED
      BY <2>2
  <1>3. CASE Composite
    <2>1. phase = "composite" /\ (Goto("upload") \/ Crash("client"))
      BY <1>3 DEF Composite
    <2>2. CASE Goto("upload")
      BY <2>1, <2>2 DEF Goto, StepsLeft
    <2> QED
      BY <2>1, <2>2, WorkEnds DEF Working
  <1>4. CASE Upload
    <2>1. phase = "upload" /\ (Goto("bootstrap") \/ TimedOut \/ Crash("client"))
      BY <1>4, NoMoreCalls DEF Upload
    <2>2. CASE Goto("bootstrap")
      BY <2>1, <2>2 DEF Goto, StepsLeft
    <2> QED
      BY <2>1, <2>2, WorkEnds DEF Working
  <1>5. CASE Put \/ Confirm \/ Start \/ Poll
    <2>1. phase \in Working /\ TimedOut
      BY <1>5, NoMoreCalls DEF Put, Confirm, Start, Poll, Failed, Working
    <2> QED
      BY <2>1, WorkEnds
  <1>6. CASE SetUp
    <2>1. /\ phase \in Working
          /\ \/ TimedOut \/ Leave("challenged", "account") \/ Crash("account")
             \/ phase = "proof" /\ Goto("finalize")
      BY <1>6, NoMoreCalls DEF SetUp, Proof, Working, Setup
    <2>2. CASE phase = "proof" /\ Goto("finalize")
      BY <2>2 DEF Goto, StepsLeft
    <2> QED
      BY <2>1, <2>2, WorkEnds
  <1>7. CASE ReadBlank \/ ReadLine
    BY <1>7 DEF ReadBlank, ReadLine
  <1>8. CASE StreamBreaks \/ StreamEnds
    <2>1. phase = "stream" /\ (Crash("account") \/ Goto("collect"))
      BY <1>8 DEF StreamBreaks, StreamEnds
    <2>2. CASE Goto("collect")
      BY <2>1, <2>2 DEF Goto, StepsLeft
    <2> QED
      BY <2>1, <2>2, WorkEnds DEF Working
  <1>9. CASE Collect
    <2>1. /\ phase = "collect"
          /\ \/ Leave("image", "nobody") \/ Crash("account") \/ Leave("refused", "account")
             \/ Goto("locate") \/ TimedOut
      BY <1>9 DEF Collect
    <2>2. CASE Goto("locate")
      BY <2>1, <2>2 DEF Goto, StepsLeft
    <2> QED
      BY <2>1, <2>2, WorkEnds DEF Working
  <1>10. CASE Locate
    <2>1. phase = "locate" /\ (Goto("download") \/ TimedOut)
      BY <1>10 DEF Locate, Failed
    <2>2. CASE Goto("download")
      BY <2>1, <2>2 DEF Goto, StepsLeft
    <2> QED
      BY <2>1, <2>2, WorkEnds DEF Working
  <1>11. CASE Download
    <2>1. /\ phase = "download"
          /\ TimedOut \/ Leave("refused", "account") \/ Leave("image", "nobody")
      BY <1>11 DEF Download, Failed
    <2> QED
      BY <2>1, WorkEnds DEF Working
  <1>12. CASE Hide \/ Close
    <2>1. \/ phase = "cleanup" /\ phase' = "close"
          \/ phase = "close" /\ phase' = "closed"
      BY <1>12 DEF Hide, Close
    <2> QED
      BY <2>1 DEF StepsLeft
  <1>13. CASE Expire
    BY <1>13 DEF Expire
  <1> QED
    BY <1>1, <1>2, <1>3, <1>4, <1>5, <1>6, <1>7, <1>8, <1>9, <1>10, <1>11, <1>12, <1>13
    DEF Next, Step

(* A generation whose time is up has a number of steps left, and each step  *)
(* lowers it, for any requests, documents, lines and answers: with a thread *)
(* that is scheduled and calls that return it closes its session.           *)
THEOREM ExpiredGenerationsEnd == Spec => TimeUpCountsDown
  <1>1. Inv /\ [Next]_vars => [expired => StepsLeft' \in 0 .. StepsLeft - 1]_vars
    BY StepsRunOut
  <1> QED
    BY <1>1, Invariant, PTL DEF Spec, TimeUpCountsDown
=============================================================================
