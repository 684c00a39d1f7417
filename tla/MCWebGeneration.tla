-------------------------- MODULE MCWebGeneration --------------------------
(* Requests, documents and lines for WebGeneration: the requests are what   *)
(* ImageRequest makes of bodies, and the documents are searched by WebEvent.*)
EXTENDS WebGeneration

E == INSTANCE WebEvent

-----------------------------------------------------------------------------
Edit(list, mask) ==
    [form |-> "object", edit |-> TRUE, prompt |-> TRUE, n |-> [is |-> "word"],
     stream |-> "absent", format |-> "word", list |-> list, single |-> <<>>,
     mask |-> mask]

Generation == [Edit(<<>>, <<>>) EXCEPT !.edit = FALSE]

Form(body) == [body EXCEPT !.form = "multipart"]

(* A generation; edits of two images with two masks or one, of something    *)
(* that is no image, and of a file that is not declared to be one.          *)
Bodies ==
    {Generation,
     Edit(<<"url", "nothing", "inline">>, <<"inline">>),
     Edit(<<"broken">>, <<>>),
     Form(Edit(<<"octets">>, <<>>)),
     Form(Edit(<<"inline", "inline">>, <<"inline", "inline">>))}

Requests ==
    {[images |-> parse_image_request(body).images,
      masks  |-> parse_image_request(body).masks] : body \in Bodies}

-----------------------------------------------------------------------------
Message(says) ==
    E!Field("message", E!Object(<<E!Field("parts", E!List(<<E!Text(says)>>))>>))

Documents == {
    E!Object(<<E!Field("conversation_id", E!Text("id"))>>),
    E!Object(<<E!Field("v", E!Object(<<E!Field("conversation_id", E!Text("id"))>>)),
               Message("file")>>),
    E!Object(<<Message("input"), Message("sediment")>>),
    E!Object(<<E!Field("type", E!Text("image_generation_call")),
               E!Field("result", E!Text("plain"))>>),
    (* A prompt that quotes the words of an error, *)
    E!Object(<<Message("token")>>),
    (* and two errors. *)
    E!Object(<<E!Field("error", E!List(<<E!Text("token")>>))>>),
    E!Object(<<E!Field("type", E!Text("error")), Message("token")>>)}

Events == Documents \ {E!Object(<<E!Field("error", E!List(<<E!Text("token")>>))>>)}

(* An event on one line, or the two halves of one on two, of which only the *)
(* second quotes what it says; and what is no event.                        *)
Lines ==
    {[is |-> "document", value |-> document] : document \in Events} \cup
    [is : {"head", "tail"},
     value : {E!Object(<<E!Field("conversation_id", E!Text("id"))>>),
              E!Object(<<E!Field("type", E!Text("error")), Message("token")>>)}] \cup
    {[is |-> "empty", value |-> E!Text("plain")],
     [is |-> "done", value |-> E!Text("plain")],
     [is |-> "array", value |-> E!List(<<E!Text("token")>>)],
     [is |-> "words", value |-> E!Text("plain")],
     [is |-> "words", value |-> E!Text("token")]}

(* The searches, tabulated. *)
Values == Documents \cup {line.value : line \in Lines}
Ids         == [document \in Values |-> E!extract_conversation_id(document)]
Referred    == [document \in Values |-> E!extract_references(document)]
TokenTexts  == [document \in Values |-> E!contains_invalid_token_text(document)]
TokenErrors == [document \in Values |-> E!contains_invalid_token_error(document)]

conversation_id(document) == Ids[document]
references(document)      == Referred[document]
token_text(document)      == TokenTexts[document]
token_error(document)     == TokenErrors[document]

(* The JSON of a frame: a document, whole or of two halves, between lines   *)
(* that are empty.                                                          *)
decode(frame) ==
    LET parts == SelectSeq(frame, LAMBDA line : line.is # "empty")
        whole == \/ Len(parts) = 1 /\ parts[1].is = "document"
                 \/ /\ Len(parts) = 2 /\ parts[1].is = "head" /\ parts[2].is = "tail"
                    /\ parts[1].value = parts[2].value
        other == parts = <<>> \/ (Len(parts) = 1 /\ parts[1].is \in {"done", "array"})
        token == \E i \in DOMAIN parts : parts[i].is # "head" /\ token_text(parts[i].value)
    IN  IF whole THEN [is |-> "event", value |-> parts[1].value]
        ELSE IF other THEN [is |-> "nothing"]
        ELSE [is |-> "junk", value |-> E!Text(IF token THEN "token" ELSE "plain")]
=============================================================================
