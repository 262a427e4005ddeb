------------------------------ MODULE MCServing ------------------------------
(* Instances of Serving for TLC. *)
EXTENDS Serving
CONSTANTS d1, d2
MCNames == {<<d1, "lane">>, <<d1, "error">>, <<d2, "recovery">>}
=============================================================================
