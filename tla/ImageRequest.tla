---------------------------- MODULE ImageRequest ----------------------------
(***************************************************************************)
(* parse_image_request in helper/protocol.py: what the helper makes of the  *)
(* body of an Images API request, by what the parser tells apart.           *)
(*                                                                          *)
(* Texts are abstracted to the distinctions of the code: a prompt is blank  *)
(* or not, a number is an integer, infinite, or something int() refuses,    *)
(* and an image is one of the sources below.                                *)
(***************************************************************************)
EXTENDS Naturals, Sequences

(* An image as the client sent it: a data URL of an image, a URL, bare or   *)
(* otherwise wrapped Base64, whose contents may or may not be an image, a   *)
(* multipart file that is not declared to be an image ("octets"), or, in a  *)
(* JSON list, something that names no image.                                *)
Source == {"inline", "url", "broken", "octets", "nothing"}

Number == [is : {"word", "infinite"}] \cup [is : {"integer"}, value : Nat]

Body == [form   : {"multipart", "object", "array", "malformed"},
         edit   : BOOLEAN,        \* request_path is /v1/images/edits
         prompt : BOOLEAN,        \* whether there is more than white space
         n      : Number,         \* an absent n is a word
         stream : {"absent", "false", "true", "word"},
         format : {"b64_json", "url", "word"},
         list   : Seq(Source),    \* images, or the files named image[]
         single : Seq(Source),    \* image_url, or the files named image
         mask   : Seq(Source)]

(* int() of an infinite number raises OverflowError, which parse_int does   *)
(* not catch; no number of a form is infinite.                              *)
Overflows(body) == body.form = "object" /\ body.n.is = "infinite"

parse_int(n) == IF n.is = "integer" THEN n.value ELSE 1

(* A form has the text "false"; in JSON any text is true. *)
Streams(body) ==
    \/ body.stream = "true"
    \/ body.stream = "word" /\ body.form = "object"

Images(body) ==
    LET named(source) == source # "nothing" IN
    IF body.form = "object" THEN SelectSeq(body.list, named) \o body.single
    ELSE IF body.list # <<>> THEN body.list
    ELSE body.single

Refusal(why) == [error |-> why]

Parsed(body) ==
    [error |-> "none", n |-> parse_int(body.n), stream |-> Streams(body),
     format |-> IF body.format = "url" THEN "url" ELSE "b64_json",
     images |-> Images(body), masks |-> body.mask]

(* The request, or the error of the client ("invalid", 400) or of the       *)
(* parser ("crash", 502) that ends it.                                      *)
parse_image_request(body) ==
    IF body.form = "malformed" THEN Refusal("invalid")
    ELSE IF body.form = "array" \/ Overflows(body) THEN Refusal("crash")
    ELSE IF ~body.prompt THEN Refusal("invalid")
    ELSE IF parse_int(body.n) \notin 1 .. 4 THEN Refusal("invalid")
    ELSE IF body.edit /\ Images(body) = <<>> THEN Refusal("invalid")
    ELSE Parsed(body)
=============================================================================
