---------------------------- MODULE MCWebConsole ----------------------------
(* Instance of WebConsole for TLC: a draft of one field.                   *)
EXTENDS WebConsole

MCFields == {"text"}
=============================================================================
