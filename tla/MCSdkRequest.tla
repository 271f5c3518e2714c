---------------------------- MODULE MCSdkRequest ----------------------------
(* Modules SdkRequest and CliCommands with the operations of module SdkApi. *)
EXTENDS CliCommands, SdkApi

\* One operation meets every answer of the catalogue, the others a definite
\* refusal and one the transport retries.
MCRefusals ==
  [o \in DOMAIN Operations |->
     IF o = "getMessage" THEN Catalog
     ELSE {[status |-> 400, code |-> "invalid_request"], [status |-> 503, code |-> "limits_unavailable"]}]

\* The operation whose calls share a key: it has both ways of completing it.
MCCrowded == {"sendMessage"}

\* What becomes of the target is explored for single calls.
MCFleeting == Addressed \ MCCrowded

Symmetric == Permutations(Calls) \union Permutations(Bodies)
=============================================================================
