------------------------ MODULE MCCredentialScheduler ------------------------
(* Model values for CredentialScheduler. *)
EXTENDS CredentialScheduler

CONSTANTS k1, k2, r1, r2

(* Every request was given the same snapshot of the credentials. *)
OneCredential  == [r \in Requests |-> <<k1>>]
TwoCredentials == [r \in Requests |-> <<k1, k2>>]

Asking(n) ==
    [form |-> "object", edit |-> FALSE, prompt |-> TRUE,
     n |-> [is |-> "integer", value |-> n], stream |-> "absent",
     format |-> "word", list |-> <<>>, single |-> <<>>, mask |-> <<>>]

EachOneImage == {[r \in Requests |-> Asking(1)]}

(* Two requests of one image, or one of two images and one that is refused. *)
TwoImages ==
    EachOneImage \cup {[r \in Requests |-> Asking(IF r = r1 THEN 2 ELSE 0)]}
=============================================================================
