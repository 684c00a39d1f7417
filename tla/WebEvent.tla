------------------------------ MODULE WebEvent ------------------------------
(***************************************************************************)
(* What helper/backend.py looks for in the JSON documents of the upstream:  *)
(* the events of a conversation's stream, and the conversation itself.      *)
(*                                                                          *)
(* A document is a tree.  A text is abstracted to what the code recognises  *)
(* in it: a file or sediment reference, the words of an invalid token, a    *)
(* conversation's id, or nothing ("plain").                                 *)
(***************************************************************************)
EXTENDS Naturals, Sequences, SequencesExt

Text(says)         == [is |-> "text", says |-> says]
List(items)        == [is |-> "list", items |-> items]
Field(key, value)  == [key |-> key, value |-> value]
Object(fields)     == [is |-> "object", fields |-> fields]

IsText(value)   == value.is = "text"
IsObject(value) == value.is = "object"

HasField(value, key, says) ==
    /\ IsObject(value)
    /\ \E i \in DOMAIN value.fields :
         /\ value.fields[i].key = key
         /\ IsText(value.fields[i].value) /\ value.fields[i].value.says \in says

ERROR_FIELD_NAMES == {"error", "errors", "code", "detail", "status_message"}

(* The values that a recursive search comes by, in order, each with whether *)
(* it is, or is part of, an error.                                          *)
RECURSIVE Visits(_, _)
Visits(value, error_context) ==
    LET event_error == HasField(value, "type", {"error"})
        child(i) ==
          IF IsObject(value)
          THEN Visits(value.fields[i].value,
                      \/ error_context \/ event_error
                      \/ value.fields[i].key \in ERROR_FIELD_NAMES)
          ELSE Visits(value.items[i], error_context)
        children == IF IsText(value) THEN {}
                    ELSE IF IsObject(value) THEN DOMAIN value.fields
                    ELSE DOMAIN value.items
    IN <<[value |-> value, error |-> error_context]>>
       \o FlattenSeq([i \in children |-> child(i)])

Texts(value, says) ==
    SelectSeq(Visits(value, FALSE),
              LAMBDA visit : IsText(visit.value) /\ visit.value.says \in says)

contains_invalid_token_text(value) == Texts(value, {"token"}) # <<>>

(* Only in an error: a prompt may quote the words. *)
contains_invalid_token_error(value) ==
    \E i \in DOMAIN Texts(value, {"token"}) : Texts(value, {"token"})[i].error

(* The first conversation_id, if there is one. *)
extract_conversation_id(value) ==
    LET visits == Visits(value, FALSE) IN
    \E i \in DOMAIN visits : HasField(visits[i].value, "conversation_id", {"id"})

append_unique(target, values) ==
    FoldLeft(LAMBDA list, one : IF Contains(list, one) THEN list ELSE Append(list, one),
             target, values)

(* Every file and sediment a text of the document refers to, the client's   *)
(* own input included, and the images that are in the document themselves.  *)
extract_references(value) ==
    LET found(says) ==
          append_unique(<<>>, [i \in DOMAIN Texts(value, says) |->
                                 Texts(value, says)[i].value.says])
        visits == Visits(value, FALSE)
    IN [files     |-> found({"file", "input"}),
        sediments |-> found({"sediment"}),
        direct    |-> \E i \in DOMAIN visits :
                        /\ HasField(visits[i].value, "type", {"image_generation_call"})
                        /\ HasField(visits[i].value, "result", {"plain"})]
=============================================================================
