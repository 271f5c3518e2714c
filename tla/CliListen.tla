------------------------------ MODULE CliListen ------------------------------
(***************************************************************************)
(* e2a listen (cli/src/commands/listen.ts): the for-await loop of one      *)
(* process per stream of EventStream, its filters, its forward side        *)
(* channel, its deadline and its exit codes.                               *)
(***************************************************************************)
EXTENDS EventStream

CONSTANTS
  Options,   \* the flags each process may be started with, and whether its
             \* stream reconnects (always for the CLI itself)
  Matching   \* messages of the conversation that is listened for

\* --until without --once is refused with EXIT.USAGE before a stream is opened.
ASSUME OptionsAssumption ==
  \A s \in Streams : \A o \in Options[s] :
                     /\ o \in [once : BOOLEAN, until : BOOLEAN, forward : BOOLEAN, conversation : BOOLEAN, reconnect : BOOLEAN]
                     /\ o.until => o.once

VARIABLE cli   \* each process: options, next step, flags of the loop, exit code

cliVars == <<vars, cli>>

NoExit == 99
\* Exit 0 by SIGINT, told apart from the exit 0 of a match.
INTERRUPTED == 100
EXIT == [OK |-> 0, ERROR |-> 1, AUTH |-> 4, REQUEST |-> 5, TIMEOUT |-> 6]

Subject(s) == pull[s].msg
Set(s, r) == cli' = [cli EXCEPT ![s] = r]
Keep == UNCHANGED <<reconnect, wire, srvVars, announced, ending, faults>>

\* Back to the top of the loop: the next pull.
Continue(s) == pull' = [pull EXCEPT ![s] = Idle] /\ UNCHANGED <<lis, str, conn>>

\* break: the iterator's return() closes the stream.
Break(s) == Close(s, Done)

Pull(s) ==
  /\ cli[s].pc = "loop"
  /\ Next_(s)
  /\ UNCHANGED cli

\* The conversation filter lists without fetching; an API error is caught and
\* the loop goes on.
InConversation(s) ==
  /\ cli[s].pc = "loop"
  /\ pull[s].kind = "event"
  /\ cli[s].opts.conversation
  /\ \/ Subject(s) \in Matching /\ Set(s, [cli[s] EXCEPT !.pc = "handle"]) /\ UNCHANGED <<pull, lis, str, conn>>
     \/ Continue(s) /\ UNCHANGED cli
  /\ Keep /\ UNCHANGED unread

Selected(s) ==
  \/ cli[s].pc = "handle"
  \/ cli[s].pc = "loop" /\ pull[s].kind = "event" /\ ~cli[s].opts.conversation

\* forwardMessage fetches the message, which marks it read, and posts it.  The
\* fetch may throw (caught: the loop goes on); a failed post is reported by
\* --once in its exit code and by the long-running loop in process.exitCode.
ForwardMessage(s) ==
  /\ Selected(s)
  /\ cli[s].opts.forward
  /\ \/ Continue(s) /\ Set(s, [cli[s] EXCEPT !.pc = "loop"]) /\ UNCHANGED unread
     \/ /\ unread' = unread \ {Subject(s)}
        /\ \E ok \in BOOLEAN :
             Set(s, [cli[s] EXCEPT !.pc = "print", !.forwardFailed = @ \/ ~ok,
                                   !.forwarded = IF ok THEN @ \union {Subject(s)} ELSE @])
        /\ UNCHANGED <<pull, lis, str, conn>>
  /\ Keep

\* Render the message: from the notification, or from a fetch that may throw.
\* --once then leaves the loop.
Render(s) ==
  /\ cli[s].pc = "print" \/ (Selected(s) /\ ~cli[s].opts.forward)
  /\ \/ Continue(s) /\ Set(s, [cli[s] EXCEPT !.pc = "loop"]) /\ UNCHANGED unread
     \/ /\ unread' \in {unread, unread \ {Subject(s)}}
        /\ IF cli[s].opts.once
           THEN Break(s) /\ Set(s, [cli[s] EXCEPT !.pc = "loop", !.matched = Subject(s)])
           ELSE Continue(s) /\ Set(s, [cli[s] EXCEPT !.pc = "loop"])
  /\ Keep

\* The process closes the stream and ends; its memory goes with it.
Exit(s, code) ==
  LET c == Current(s) IN
  /\ cli' = [cli EXCEPT ![s].pc = "exit", ![s].exit = code]
  /\ lis' = [lis EXCEPT ![s].closed = TRUE, ![s].timer = FALSE]
  /\ str' = [str EXCEPT ![s] = [closed |-> TRUE, buffer |-> <<>>, error |-> NoError]]
  /\ pull' = [pull EXCEPT ![s] = Idle]
  /\ conn' = [conn EXCEPT ![c] = IF hnd[c].pc = "none" /\ @ = "dialing" THEN "leaving" ELSE "over"]
  /\ wire' = [wire EXCEPT ![c] = <<>>]
  /\ UNCHANGED <<reconnect, srvVars, unread, announced, ending, faults>>

\* Mutant: a failed forward does not count.
ExitOnMatch(r) ==
  IF r.opts.once
  THEN IF r.matched = NoMsg THEN IF r.timedOut THEN EXIT.TIMEOUT ELSE EXIT.ERROR ELSE EXIT.OK
  ELSE EXIT.ERROR

\* After the loop: close the stream and report.
ExitAfterLoop(r) ==
  IF r.opts.once
  THEN IF r.matched = NoMsg THEN IF r.timedOut THEN EXIT.TIMEOUT ELSE EXIT.ERROR
       ELSE IF r.forwardFailed THEN EXIT.ERROR ELSE EXIT.OK
  ELSE EXIT.ERROR

LoopEnds(s) ==
  /\ cli[s].pc = "loop"
  /\ pull[s].kind = "done"
  /\ Exit(s, ExitAfterLoop(cli[s]))

\* Mutant: a takeover exits like any failure.
ExitErrorAlways(code) == EXIT.ERROR

\* A typed error of the stream: a takeover has its own exit, the rest go
\* through exitCodeForAPIError.
exitCodeForAPIError(code) == IF code \in {401, 403} THEN EXIT.AUTH ELSE EXIT.REQUEST

ExitAfterError(code) == IF code = WS_CLOSE_REPLACED THEN EXIT.REQUEST ELSE exitCodeForAPIError(code)

LoopThrows(s) ==
  /\ cli[s].pc = "loop"
  /\ pull[s].kind = "error"
  /\ Exit(s, ExitAfterError(pull[s].code))

\* The deadline closes the stream, wherever the loop is.
Deadline(s) ==
  /\ cli[s].opts.until
  /\ ~cli[s].timedOut
  /\ cli[s].pc \in {"loop", "handle", "print"}
  /\ Set(s, [cli[s] EXCEPT !.timedOut = TRUE])
  /\ Closed(s)
  /\ Keep /\ UNCHANGED unread

\* SIGINT closes the stream and exits 0, wherever the loop is.
Interrupt(s) ==
  /\ cli[s].pc \in {"loop", "handle", "print"}
  /\ Exit(s, INTERRUPTED)
-----------------------------------------------------------------------------
ListenInit ==
  /\ Init
  /\ \E o \in [Streams -> UNION {Options[s] : s \in Streams}] :
       /\ \A s \in Streams : o[s] \in Options[s]
       /\ reconnect = [s \in Streams |-> o[s].reconnect]
       /\ cli = [s \in Streams |-> [opts |-> o[s], pc |-> "loop", matched |-> NoMsg, timedOut |-> FALSE,
                                    forwardFailed |-> FALSE, forwarded |-> {}, exit |-> NoExit]]

CliNext(s) ==
  \/ Pull(s) \/ InConversation(s) \/ ForwardMessage(s)
  \/ Render(s) \/ LoopEnds(s) \/ LoopThrows(s) \/ Deadline(s) \/ Interrupt(s)

\* The SDK's callbacks run in the CLI's process, until it exits.
SdkStep(s) ==
  /\ cli[s].pc # "exit"
  /\ SdkNext(s)
  /\ UNCHANGED cli

ListenNext ==
  \/ ServerNext /\ UNCHANGED cli
  \/ \E s \in Streams : CliNext(s) \/ SdkStep(s)

ListenSpec == ListenInit /\ [][ListenNext]_cliVars
-----------------------------------------------------------------------------
(* Properties                                                              *)

\* Type invariant of the streams, the connections, the hub and the processes.
ListenTypeOK ==
  /\ \A s \in Streams : /\ lis[s].dials \in 1..MaxDials
                         /\ str[s].buffer \in BoundedSeq(Messages, MaxBuffered)
                         /\ pull[s].kind \in {"idle", "waiting", "event", "done", "error"}
                         /\ cli[s].exit \in {NoExit, INTERRUPTED} \union {EXIT[k] : k \in DOMAIN EXIT}
  /\ \A c \in Conns : /\ conn[c] \in {"none", "dialing", "open", "leaving", "closed", "over"}
                       /\ hnd[c].pc \in {"none", "evict", "drain", "send", "write", "read", "gone"}
  /\ hub \in Conns \union {NoConn}
  /\ unread \subseteq Messages
  /\ faults \in 0..MaxFaults

Serving(c) ==
  /\ conn[c] = "open" /\ hnd[c].pc = "read" /\ hnd[c].drained
  /\ \A d \in Conns : hnd[d].pc = "evict" => hnd[d].old # c

Announcing(m, c) ==
  \/ push[m].pc \in {"stored", "missed"}
  \/ push[m].pc = "taken" /\ push[m].to = c

\* A connection that serves its agent (its handler is in the read loop and no
\* takeover of it is under way) is the one in the hub, and every unread
\* message has been written to it or is about to be, unless it was in the inbox
\* before and beyond a full page of DrainLimit messages that have been written:
\* neither a takeover nor the gap between storing, registering, draining and
\* pushing loses one.  Only a failed listing or a failed load of an envelope
\* does.  (What the client's buffer then drops is ListenTypeOK's cap.)
NothingUnannounced ==
  \A c \in Conns : Serving(c) =>
    /\ hub = c
    /\ \A m \in unread \ hnd[c].left : m \in announced[c] \/ Announcing(m, c)
    /\ hnd[c].left # {} => \E page \in SUBSET announced[c] : Cardinality(page) = DrainLimit

\* A pull that waits has something that will answer it: the stream is not
\* closed, nothing is buffered, and a connection or a reconnect timer is
\* alive, with reconnect enabled or not.
NoOrphanPull ==
  \A s \in Streams :
    pull[s] = Waiting /\ cli[s].pc # "exit" =>
      /\ ~str[s].closed
      /\ str[s].buffer = <<>>
      /\ lis[s].timer \/ conn[Current(s)] \in {"dialing", "open", "closed"}

\* A typed error is never swallowed: a loop whose own process did not close
\* the stream ends cleanly only if the listener was not stopped by an error.
ErrorsSurface ==
  \A s \in Streams :
    pull[s] = Done /\ ~cli[s].timedOut /\ cli[s].matched = NoMsg
      => ending[s] = NoError

\* Two listeners on one agent do not fight over the connection: unless the
\* network or the server fails, nobody dials a second time.
NoStealBack == faults = 0 => \A s \in Streams : lis[s].dials = 1 /\ ~lis[s].timer

\* Exit 1 invites a wrapper to run the command again: a listener that a newer
\* one replaced never exits so.
RetryOnOneIsSafe == \A s \in Streams : cli[s].exit = EXIT.ERROR => cli[s].matched # NoMsg \/ ending[s] # WS_CLOSE_REPLACED

\* Exit 0 of --once, other than by SIGINT, is a claim: a message was rendered,
\* of the conversation that was asked for, and handed to the forward URL if
\* there is one.
ExitZeroIsHandOff ==
  \A s \in Streams :
    cli[s].exit = EXIT.OK =>
      /\ cli[s].opts.once
      /\ cli[s].matched # NoMsg
      /\ cli[s].opts.conversation => cli[s].matched \in Matching
      /\ cli[s].opts.forward => cli[s].matched \in cli[s].forwarded
=============================================================================
