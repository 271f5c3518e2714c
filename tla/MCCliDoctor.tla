---------------------------- MODULE MCCliDoctor ----------------------------
(* Model checking module CliDoctor. *)
EXTENDS CliDoctor
=============================================================================
