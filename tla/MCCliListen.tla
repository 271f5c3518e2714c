----------------------------- MODULE MCCliListen -----------------------------
(* Model checking module CliListen on a small instance. *)
EXTENDS CliListen

Opts(waits, reconnects) ==
  [once |-> waits, until |-> waits, forward |-> TRUE, conversation |-> waits, reconnect |-> reconnects]

\* A wait for one message of a conversation, and a listener that runs on.
MCOptions == [s \in Streams |-> {Opts(TRUE, TRUE), Opts(FALSE, FALSE), Opts(FALSE, TRUE)}]

\* The wait finds one message, of its conversation or not; the listener that
\* runs on finds more than the drain lists; or one arrives at an empty inbox.
Coming == {m \in Messages : push[m].pc = "none"}

MCStart(o) ==
  \/ o.once /\ Cardinality(unread) = 1 /\ Coming = {}
  \/ ~o.once /\ o.reconnect /\ unread = Messages
  \/ ~o.once /\ unread = {} /\ Coming = Matching

MCInit == ListenInit /\ \A s \in Streams : MCStart(cli[s].opts)

MCSpec == MCInit /\ [][ListenNext]_cliVars
=============================================================================
