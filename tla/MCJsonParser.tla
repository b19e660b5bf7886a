---------------------------- MODULE MCJsonParser ----------------------------
(* The parser over every text of at most three events.                     *)
EXTENDS JsonParser

CONSTANTS e1, e2, e3

ThreeEvents == <<e1, e2, e3>>
=============================================================================
