--------------------------- MODULE WebGeneration ---------------------------
(***************************************************************************)
(* helper/backend.py and generate_with_credential in helper/protocol.py:    *)
(* one image through the web conversation of one ChatGPT account.           *)
(*                                                                          *)
(* The generation normalises, masks and uploads its input images, obtains   *)
(* the sentinel tokens, starts a conversation, reads its event stream line  *)
(* by line to the end, looks through the events, polls the conversation     *)
(* when they name no image, downloads the images, hides the conversation    *)
(* and closes its session.  Every call asks the RequestControl for its      *)
(* timeout first, and every answer goes through _check.  The account's      *)
(* side, and every other web server, may do as they please.                 *)
(***************************************************************************)
EXTENDS ImageRequest, FiniteSets, SequencesExt

CONSTANTS
    Cleanup,    \* cleanup_conversation of the configuration
    Inputs,     \* the images and masks a request may bring
    Document,   \* what the upstream may send as JSON
    Line,       \* the data lines of the event stream,
    Blank,      \* and its empty line
    MaxLines,   \* bound on the lines of a stream
    Decode(_),  \* what a list of data lines, joined by newlines, decodes to
    (* What backend.py finds in a JSON document, see WebEvent: *)
    HasConversationId(_), References(_), SaysInvalidToken(_), IsTokenError(_)

ASSUME InputsAssumption ==
    /\ Cleanup \in BOOLEAN
    /\ MaxLines \in Nat
    /\ \A input \in Inputs :
         input.images \in Seq(Source) /\ input.masks \in Seq(Source)
    /\ Blank \notin Line

VARIABLES
    phase,        \* what the generation is doing
    request,      \* request.images and request.masks
    pos,          \* the loop over inputs, references or URLs
    images,       \* normalized_images: which input, under which mask
    masks,        \* normalized_masks: whether each is an image
    uploaded,     \* references: the inputs uploaded so far
    expired,      \* whether the RequestControl has expired
    stream,       \* the data lines and empty lines of the event stream so far
    lines,        \* the data lines since the last empty one
    events,       \* the events yielded so far
    known,        \* whether the conversation's id was found in them
    wanted,       \* the file and sediment references to download
    urls,         \* the references the account gave a URL for
    conversation, \* the conversation, as the account has it
    outcome,      \* what generate_with_credential will return or raise
    blamed        \* whose answer, or whose data, was the failure

inputs  == <<request, images, masks, uploaded>>
reading == <<stream, lines, events>>
found   == <<known, wanted, urls>>
vars    == <<phase, pos, inputs, expired, reading, found, conversation, outcome, blamed>>

Setup   == {"bootstrap", "prepare", "proof", "finalize", "conduit"}
Working == {"normalize", "composite", "upload", "put", "confirm", "start", "stream",
            "collect", "poll", "locate", "download"} \cup Setup

(* What _check makes of a status: 401 or 403, 429, 5xx and broken           *)
(* connections, any other.                                                  *)
Failures == {"rejected", "limited", "unreachable", "refused"}

TypeOK ==
    /\ phase \in Working \cup {"cleanup", "close", "closed"}
    /\ request \in Inputs
    /\ pos \in Nat \ {0}
    /\ images \in Seq([input : Nat, mask : Nat, ok : BOOLEAN])
    /\ masks \in Seq(BOOLEAN)
    /\ uploaded \in Seq([input : Nat, mask : Nat, ok : BOOLEAN])
    /\ expired \in BOOLEAN
    /\ known \in BOOLEAN
    /\ conversation \in {"none", "visible", "kept", "hidden"}
    /\ outcome \in {"none", "image", "timeout", "challenged"} \cup Failures
    /\ outcome = "none" <=> phase \in Working
    /\ blamed \in {"nobody", "account", "other", "client"}

Init ==
    /\ phase = "normalize"
    /\ request \in Inputs
    /\ pos = 1
    /\ images = <<>>
    /\ masks = <<>>
    /\ uploaded = <<>>
    /\ expired = FALSE
    /\ stream = <<>>
    /\ lines = <<>>
    /\ events = <<>>
    /\ known = FALSE
    /\ wanted = <<>>
    /\ urls = <<>>
    /\ conversation = "none"
    /\ outcome = "none"
    /\ blamed = "nobody"

-----------------------------------------------------------------------------
Goto(next) == phase' = next /\ UNCHANGED <<outcome, blamed>>

(* return or raise: the finally clause comes next. *)
Leave(result, whose) ==
    /\ phase' = "cleanup"
    /\ outcome' = result
    /\ blamed' = whose

(* control.timeout refuses the call; no request is sent. *)
TimedOut == expired /\ Leave("timeout", "nobody")

(* Any exception but a HelperError: a timeout if the time is up, otherwise  *)
(* an upstream error that is worth a retry, whatever raised it.             *)
Crash(whose) == TimedOut \/ (~expired /\ Leave("unreachable", whose))

(* The call is made and fails.  A connection that breaks after the control  *)
(* expired is a timeout; a status is judged as it is.                       *)
Failed(server) ==
    /\ ~expired
    /\ \E failure \in Failures : Leave(failure, server)

(* A call that ends in one of these two ways, or goes on. *)
Exchange(server, next) ==
    \/ TimedOut
    \/ Failed(server)
    \/ ~expired /\ Goto(next)

-----------------------------------------------------------------------------
Sources == request.images \o request.masks

(* The next source is normalised to a data URL, with an image in it or not. *)
Normalised(isImage) ==
    /\ pos' = pos + 1
    /\ Goto("normalize")
    /\ IF pos <= Len(request.images)
       THEN images' = Append(images, [input |-> pos, mask |-> 0, ok |-> isImage])
            /\ UNCHANGED masks
       ELSE masks' = Append(masks, isImage) /\ UNCHANGED images

(* normalize_image_source: a URL is fetched, with the account's session,    *)
(* and gives whatever is there.  Only a data URL of an image is taken as it *)
(* is: any other ("octets") is wrapped once more, and becomes useless.      *)
Normalize ==
    /\ phase = "normalize"
    /\ pos <= Len(Sources)
    /\ IF Sources[pos] = "url"
       THEN \/ (TimedOut \/ Failed("other")) /\ UNCHANGED <<pos, images, masks>>
            \/ ~expired /\ \E isImage \in BOOLEAN : Normalised(isImage)
       ELSE Normalised(Sources[pos] = "inline")
    /\ UNCHANGED <<request, uploaded, expired, reading, found, conversation>>

NormalizeEnds ==
    /\ phase = "normalize"
    /\ pos > Len(Sources)
    /\ pos' = 1
    /\ Goto("composite")
    /\ UNCHANGED <<inputs, expired, reading, found, conversation>>

(* The mask of each image, or the last one. *)
MaskOf(i) == IF i < Len(masks) THEN i ELSE Len(masks)

(* Mutant: the first mask is put on every image. *)
CompositeFirst ==
    /\ phase = "composite"
    /\ images' = IF masks = <<>> THEN images
                 ELSE [i \in DOMAIN images |-> [images[i] EXCEPT !.mask = 1]]
    /\ Goto("upload")
    /\ UNCHANGED <<pos, request, masks, uploaded, expired, reading, found, conversation>>

(* composite_masks, when there are masks: an image or mask that is none     *)
(* raises an exception.                                                     *)
Composite ==
    /\ phase = "composite"
    /\ IF masks = <<>> THEN Goto("upload") /\ UNCHANGED images
       ELSE IF \A i \in DOMAIN images : images[i].ok /\ masks[MaskOf(i)]
       THEN /\ images' = [i \in DOMAIN images |->
                           [input |-> images[i].input, mask |-> MaskOf(i), ok |-> TRUE]]
            /\ Goto("upload")
       ELSE Crash("client") /\ UNCHANGED images
    /\ UNCHANGED <<pos, request, masks, uploaded, expired, reading, found, conversation>>

(* upload_image of the next image, which has to be one: announce the file,  *)
(* put it where the answer says, confirm it.                                *)
Upload ==
    /\ phase = "upload"
    /\ IF pos > Len(images) THEN Goto("bootstrap")
       ELSE IF images[pos].ok THEN Exchange("account", "put")
       ELSE Crash("client")
    /\ UNCHANGED <<pos, inputs, expired, reading, found, conversation>>

Put ==
    /\ phase = "put"
    /\ Exchange("other", "confirm")
    /\ UNCHANGED <<pos, inputs, expired, reading, found, conversation>>

Confirm ==
    /\ phase = "confirm"
    /\ \/ (TimedOut \/ Failed("account")) /\ UNCHANGED <<pos, uploaded>>
       \/ /\ ~expired /\ Goto("upload")
          /\ uploaded' = Append(uploaded, images[pos])
          /\ pos' = pos + 1
    /\ UNCHANGED <<request, images, masks, expired, reading, found, conversation>>

(* The account demands an Arkose challenge; or the proof of work cannot be  *)
(* made: its difficulty is no number, or none of 500000 attempts is good;   *)
(* or the turnstile's program is no list.  A turnstile program that fails   *)
(* leaves an empty token, and the request goes on.                          *)
Proof ==
    /\ phase = "proof"
    /\ \/ Leave("challenged", "account")
       \/ Crash("account")
       \/ Goto("finalize")

(* bootstrap, get_requirements (two calls) and prepare_conversation. *)
SetUp ==
    /\ \/ phase = "bootstrap" /\ Exchange("account", "prepare")
       \/ phase = "prepare"   /\ Exchange("account", "proof")
       \/ Proof
       \/ phase = "finalize"  /\ Exchange("account", "conduit")
       \/ phase = "conduit"   /\ Exchange("account", "start")
    /\ UNCHANGED <<pos, inputs, expired, reading, found, conversation>>

(* start_generation: the account may have the conversation although the     *)
(* answer is lost.                                                          *)
Start ==
    /\ phase = "start"
    /\ \/ TimedOut /\ UNCHANGED conversation
       \/ Failed("account") /\ conversation' \in {"none", "visible"}
       \/ ~expired /\ Goto("stream") /\ conversation' = "visible"
    /\ UNCHANGED <<pos, inputs, expired, reading, found>>

-----------------------------------------------------------------------------
(* iter_sse_json.  The data lines up to an empty one are a frame: joined by *)
(* newlines they decode to an object, which is an event, or not at all      *)
(* ("junk"), or they are another JSON value, "[DONE]" or nothing.  A line   *)
(* of any other kind changes nothing: it is no step.                        *)
IsEvent(frame) == frame # <<>> /\ Decode(frame).is = "event"

(* An object is searched for an error, junk for the words of one. *)
Rejects(frame) ==
    LET decoded == Decode(frame) IN
    /\ frame # <<>>
    /\ \/ decoded.is = "event" /\ IsTokenError(decoded.value)
       \/ decoded.is = "junk" /\ SaysInvalidToken(decoded.value)

(* The iterator and its list are gone. *)
Forget == stream' = <<>> /\ lines' = <<>> /\ events' = <<>>

(* What was collected is decoded, and an event in it yielded; an invalid    *)
(* token ends the generation.                                               *)
Yield ==
    IF Rejects(lines) THEN Leave("rejected", "account") /\ stream' = <<>> /\ events' = <<>>
    ELSE /\ Goto("stream")
         /\ stream' = Append(stream, Blank)
         /\ events' = IF IsEvent(lines) THEN Append(events, Decode(lines).value) ELSE events

(* Mutant: the data lines of a frame stay. *)
ReadBlankKeepsLines ==
    /\ phase = "stream" /\ ~expired
    /\ Len(stream) < MaxLines
    /\ Yield
    /\ UNCHANGED <<pos, inputs, expired, lines, found, conversation>>

(* An empty line. *)
ReadBlank ==
    /\ phase = "stream" /\ ~expired
    /\ Len(stream) < MaxLines
    /\ Yield
    /\ lines' = <<>>
    /\ UNCHANGED <<pos, inputs, expired, found, conversation>>

(* A data line is collected. *)
ReadLine ==
    /\ phase = "stream" /\ ~expired
    /\ Len(stream) < MaxLines
    /\ \E line \in Line :
         /\ stream' = Append(stream, line)
         /\ lines' = Append(lines, line)
    /\ Goto("stream")
    /\ UNCHANGED <<pos, inputs, expired, events, found, conversation>>

(* The next line is refused by the control or the connection breaks: the    *)
(* list of events is lost.                                                  *)
StreamBreaks ==
    /\ phase = "stream"
    /\ Crash("account")
    /\ Forget
    /\ UNCHANGED <<pos, inputs, expired, found, conversation>>

StreamEnds ==
    /\ phase = "stream"
    /\ Goto("collect")
    /\ UNCHANGED <<pos, inputs, expired, reading, found, conversation>>

-----------------------------------------------------------------------------
append_unique(target, values) ==
    target \o SelectSeq(values, LAMBDA value : ~Contains(target, value))

(* The references of several documents, files before sediments. *)
AllReferences(documents) ==
    LET files[i \in 0 .. Len(documents)] ==
          IF i = 0 THEN <<>>
          ELSE append_unique(files[i - 1], References(documents[i]).files)
        sediments[i \in 0 .. Len(documents)] ==
          IF i = 0 THEN <<>>
          ELSE append_unique(sediments[i - 1], References(documents[i]).sediments)
    IN files[Len(documents)] \o sediments[Len(documents)]

(* The loop over the events, and what follows from it.  An image in the     *)
(* events themselves may still fail to decode.                              *)
Collect ==
    LET id     == \E i \in DOMAIN events : HasConversationId(events[i])
        direct == \E i \in DOMAIN events : References(events[i]).direct
        named  == AllReferences(events)
    IN
    /\ phase = "collect"
    /\ known' = id
    /\ wanted' = named
    /\ IF direct THEN Leave("image", "nobody") \/ Crash("account")
       ELSE IF ~id THEN Leave("refused", "account")
       ELSE IF named # <<>> THEN Goto("locate")
       ELSE TimedOut \/ (~expired /\ Goto("poll"))
    /\ Forget
    /\ UNCHANGED <<pos, inputs, expired, urls, conversation>>

(* Mutant: a temporary failure is waited out whatever the control says. *)
PollOn ==
    /\ phase = "poll"
    /\ \/ Goto("poll") /\ UNCHANGED wanted
       \/ /\ ~expired
          /\ \E document \in Document :
               /\ ~IsTokenError(document)
               /\ wanted' = AllReferences(<<document>>)
               /\ Goto(IF wanted' = <<>> THEN "poll" ELSE "locate")
    /\ UNCHANGED <<pos, inputs, expired, reading, known, urls, conversation>>

(* poll_image_references: wait, ask again after a temporary failure (429 is *)
(* one here) or a document without a reference, until there is one or the   *)
(* time is up.                                                              *)
Poll ==
    /\ phase = "poll"
    /\ \/ TimedOut /\ UNCHANGED wanted
       \/ /\ ~expired /\ UNCHANGED wanted
          /\ \E failure \in Failures \ {"limited"} : Leave(failure, "account")
       \/ ~expired /\ Goto("poll") /\ UNCHANGED wanted
       \/ /\ ~expired
          /\ \E document \in Document :
               IF IsTokenError(document)
               THEN Leave("rejected", "account") /\ UNCHANGED wanted
               ELSE /\ wanted' = AllReferences(<<document>>)
                    /\ Goto(IF wanted' = <<>> THEN "poll" ELSE "locate")
    /\ UNCHANGED <<pos, inputs, expired, reading, known, urls, conversation>>

(* Mutant: asking for the next image does not look at the control. *)
LocateOn ==
    /\ phase = "locate"
    /\ IF pos > Len(wanted)
       THEN pos' = 1 /\ Goto("download") /\ UNCHANGED urls
       ELSE \/ (TimedOut \/ Failed("account")) /\ UNCHANGED <<pos, urls>>
            \/ /\ Goto("locate")
               /\ pos' = pos + 1
               /\ urls' \in {urls, Append(urls, wanted[pos])}
    /\ UNCHANGED <<inputs, expired, reading, known, wanted, conversation>>

(* download_images: the account says where each image is, or nothing, *)
Locate ==
    /\ phase = "locate"
    /\ IF pos > Len(wanted)
       THEN pos' = 1 /\ Goto("download") /\ UNCHANGED urls
       ELSE \/ (TimedOut \/ Failed("account")) /\ UNCHANGED <<pos, urls>>
            \/ /\ ~expired /\ Goto("locate")
               /\ pos' = pos + 1
               /\ urls' \in {urls, Append(urls, wanted[pos])}
    /\ UNCHANGED <<inputs, expired, reading, known, wanted, conversation>>

(* and the server it names hands it out.  The first one is the result, when *)
(* all have come.                                                           *)
Download ==
    /\ phase = "download"
    /\ IF pos > Len(urls)
       THEN /\ IF urls = <<>> THEN Leave("refused", "account") ELSE Leave("image", "nobody")
            /\ UNCHANGED pos
       ELSE \/ (TimedOut \/ Failed("other")) /\ UNCHANGED pos
            \/ ~expired /\ Goto("download") /\ pos' = pos + 1
    /\ UNCHANGED <<inputs, expired, reading, found, conversation>>

-----------------------------------------------------------------------------
(* The finally clause: ask the account to hide the conversation (which it   *)
(* may fail to do), whatever became of the generation,                      *)
Hide ==
    /\ phase = "cleanup"
    /\ phase' = "close"
    /\ IF Cleanup /\ known /\ ~expired
       THEN conversation' \in {"hidden", "kept"}
       ELSE UNCHANGED conversation
    /\ UNCHANGED <<pos, inputs, expired, reading, found, outcome, blamed>>

(* then close the session. *)
Close ==
    /\ phase = "close"
    /\ phase' = "closed"
    /\ UNCHANGED <<pos, inputs, expired, reading, found, conversation, outcome, blamed>>

(* The deadline passes, or the plugin cancels. *)
Expire ==
    /\ ~expired
    /\ expired' = TRUE
    /\ UNCHANGED <<phase, pos, inputs, reading, found, conversation, outcome, blamed>>

-----------------------------------------------------------------------------
Step ==
    \/ Normalize
    \/ NormalizeEnds
    \/ Composite
    \/ Upload
    \/ Put
    \/ Confirm
    \/ SetUp
    \/ Start
    \/ ReadBlank
    \/ ReadLine
    \/ StreamBreaks
    \/ StreamEnds
    \/ Collect
    \/ Poll
    \/ Locate
    \/ Download
    \/ Hide
    \/ Close

Next == Step \/ Expire

Spec == Init /\ [][Next]_vars

(* The thread is scheduled and every network call returns: it has a         *)
(* timeout, and cancel closes the session under it.                         *)
FairSpec == Spec /\ WF_vars(Step)

-----------------------------------------------------------------------------
(* The conversation starts with every image the client sent, in its order,  *)
(* each uploaded once and under its own mask, or the last one; an input     *)
(* that is no image never gets that far.                                    *)
EveryInputUploaded ==
    phase \in {"start", "stream"} =>
      /\ Len(uploaded) = Len(request.images)
      /\ \A i \in DOMAIN uploaded :
           /\ uploaded[i].input = i /\ uploaded[i].ok
           /\ uploaded[i].mask =
                Cardinality({m \in DOMAIN request.masks : m <= i})

(* The lines from a on to the empty one at b, or to the end if there is     *)
(* none yet, are all the data lines of one frame.                           *)
Spans(a, b) ==
    /\ a \in 1 .. b
    /\ a = 1 \/ stream[a - 1] = Blank
    /\ \A e \in a .. b - 1 : stream[e] # Blank

(* The empty lines that end a frame which spells an event, *)
Yielding ==
    {b \in DOMAIN stream :
       /\ stream[b] = Blank
       /\ \E a \in 1 .. b : Spans(a, b) /\ IsEvent(SubSeq(stream, a, b - 1))}

(* and which event of the stream that is. *)
Rank(b) == Cardinality({c \in Yielding : c <= b})

(* When the stream has ended, the events are the objects its frames spell,  *)
(* however many lines each is spread over, in order, each once; only what   *)
(* no empty line followed is lost, nothing of one frame gets into the next  *)
(* one, and no event that was read said that the token is invalid.          *)
FramesAreComplete ==
    phase = "collect" =>
      /\ Len(events) = Cardinality(Yielding)
      /\ \A b \in Yielding : \A a \in 1 .. b :
           Spans(a, b) => events[Rank(b)] = Decode(SubSeq(stream, a, b - 1)).value
      /\ \A i \in DOMAIN events : ~IsTokenError(events[i])

(* The steps a generation whose time is up has left at most: the inputs     *)
(* that need no call, and the way to the finally clause.                    *)
StepsLeft ==
    CASE phase = "normalize"                      -> 7 + Len(Sources) - pos
      [] phase = "stream"                         -> 6
      [] phase \in {"composite", "collect"}       -> 5
      [] phase \in {"upload", "proof", "locate"}  -> 4
      [] phase = "cleanup"                        -> 2
      [] phase = "close"                          -> 1
      [] phase = "closed"                         -> 0
      [] OTHER                                    -> 3

(* Once the time is up every step brings the generation nearer to its end,  *)
(* whatever the servers answer: no loop over lines, polls, references or    *)
(* inputs goes round for another call (control.timeout refuses it).         *)
TimeUpCountsDown == [][expired => StepsLeft' \in 0 .. StepsLeft - 1]_vars

(* A generation whose time is up ends, and closes its session, wherever the *)
(* time ran out; a conversation that never shows an image is not polled     *)
(* for ever.                                                                *)
GenerationEnds == expired ~> phase = "closed"

(* backend.py:108 says of a 401 that the CPA credential has expired, and    *)
(* README.md:191 has a credential that returns 401 released and another one *)
(* taken.  So such a status is the account's: a server that keeps the       *)
(* client's input image to itself does not put the credential in a cooldown *)
(* of 300 seconds.                                                          *)
OnlyTheAccountRejects == outcome = "rejected" => blamed = "account"
=============================================================================
