----------------------------- MODULE EventStream -----------------------------
(***************************************************************************)
(* Live inbound mail: the WebSocket hub and handler of the server          *)
(* (internal/ws), the push of the relay, and the TypeScript SDK's          *)
(* WSListener and WSStream (sdks/typescript/src/v1/ws.ts), for one agent   *)
(* with several streams open on it.  Connection <<s, n>> is the n-th dial  *)
(* of stream s.  The hub lives in one server process.                      *)
(***************************************************************************)
EXTENDS Naturals, Sequences, FiniteSets, SequencesExt

CONSTANTS
  Streams,      \* WSStream objects, each with its WSListener
  Rivals,       \* clients of the same agent whose own end is not modelled
  Messages,     \* inbound messages, each the subject of one notification
  DrainLimit,   \* the limit of drainUnread's listing
  MaxBuffered,  \* WS_MAX_BUFFERED_EVENTS
  MaxDials,     \* bound: connections each stream opens
  MaxFaults,    \* bound: dropped or refused connections and server restarts
  NoMsg

ASSUME DrainAssumption == DrainLimit \in Nat \ {0}
ASSUME BufferAssumption == MaxBuffered \in Nat \ {0}
ASSUME DialsAssumption == MaxDials \in Nat \ {0}
ASSUME StreamFaultsAssumption == MaxFaults \in Nat

ASSUME RivalsAssumption == Rivals \intersect Streams = {}
ASSUME NoMsgAssumption == NoMsg \notin Messages

Conns == (Streams \X (1..MaxDials)) \union (Rivals \X {1})
NoConn == <<>>

VARIABLES
  reconnect,  \* WSListenerOptions.reconnect of each stream
  lis,        \* each WSListener: closed, number of dials, timer armed
  str,        \* each WSStream: closed, buffer, pendingError
  pull,       \* each consumer's last next(): what became of it
  conn,       \* each connection as its two ends last left it
  wire,       \* frames and close notices on their way to the client
  hub,        \* Hub.conns of the agent
  hnd,        \* each connection's handler: next step, notifications to write,
              \* and (history) what its drain has listed and left
  unread,     \* stored messages not yet fetched
  push,       \* the relay's Send of each message: progress and connection
  announced,  \* history: the messages written to each connection that is up
  ending,     \* history: why each stream's listener stopped
  faults      \* how many of the MaxFaults faults have happened

srvVars == <<hub, hnd, push>>
sdkVars == <<lis, str, pull>>
vars == <<reconnect, sdkVars, conn, wire, srvVars, unread, announced, ending, faults>>

Frame(m) == [kind |-> "event", msg |-> m, code |-> 0]
CloseFrame(code) == [kind |-> "close", msg |-> NoMsg, code |-> code]
Rejection(status) == [kind |-> "reject", msg |-> NoMsg, code |-> status]

Idle == [kind |-> "idle", msg |-> NoMsg, code |-> 0]
Waiting == [Idle EXCEPT !.kind = "waiting"]
Done == [Idle EXCEPT !.kind = "done"]
Event(m) == [kind |-> "event", msg |-> m, code |-> 0]
Failure(code) == [kind |-> "error", msg |-> NoMsg, code |-> code]

NoError == 0
WS_CLOSE_REPLACED == 4000

Fault == faults < MaxFaults /\ faults' = faults + 1
-----------------------------------------------------------------------------
(* WSStream                                                                *)

\* Mutant: the buffer has no cap.
BufferedUncapped(b, m) == Append(b, m)

\* deliver: to the waiting pull, else to the buffer, which drops its oldest
\* event beyond the cap.
Buffered(b, m) == IF Len(b) < MaxBuffered THEN Append(b, m) ELSE Append(Tail(b), m)

Deliver(s, m) ==
  IF pull[s] = Waiting
  THEN pull' = [pull EXCEPT ![s] = Event(m)] /\ UNCHANGED str
  ELSE str' = [str EXCEPT ![s].buffer = Buffered(@, m)] /\ UNCHANGED pull

\* Mutant: an error with nobody waiting is forgotten.
FinishedSilently(t, code, waiting) == [t EXCEPT !.closed = TRUE]

\* finish and finishWithError end the iteration once: the waiting pull hears
\* of it, or the error is parked for the next pull.
Finished(t) == [t EXCEPT !.closed = TRUE]
FinishedWithError(t, code, waiting) ==
  IF t.closed THEN t ELSE [t EXCEPT !.closed = TRUE, !.error = IF waiting THEN NoError ELSE code]

\* next(): buffered events first, then a parked error once, then the end.
Next_(s) ==
  LET t == str[s] IN
  /\ pull[s].kind = "idle"
  /\ \/ /\ t.buffer # <<>>
        /\ pull' = [pull EXCEPT ![s] = Event(Head(t.buffer))]
        /\ str' = [str EXCEPT ![s].buffer = Tail(@)]
     \/ /\ t.buffer = <<>> /\ t.error # NoError
        /\ pull' = [pull EXCEPT ![s] = Failure(t.error)]
        /\ str' = [str EXCEPT ![s].error = NoError]
     \/ /\ t.buffer = <<>> /\ t.error = NoError
        /\ pull' = [pull EXCEPT ![s] = IF t.closed THEN Done ELSE Waiting]
        /\ UNCHANGED str
  /\ UNCHANGED <<reconnect, lis, conn, wire, srvVars, unread, announced, ending, faults>>
-----------------------------------------------------------------------------
(* WSListener                                                              *)

Current(s) == <<s, lis[s].dials>>

\* Mutant: a takeover is reconnected like a network failure.
FatalPolicyOnly(code) == code = 1008 \/ code \in 4001..4999

\* Closes that end the stream with a typed error instead of a reconnect.
fatalErrorForClose(code) == code = WS_CLOSE_REPLACED \/ code = 1008 \/ code \in 4000..4999

\* dial: a new socket, unless the listener has been closed meanwhile.
Redial(s) ==
  /\ lis[s].timer
  /\ lis[s].dials < MaxDials
  /\ lis' = [lis EXCEPT ![s].timer = FALSE, ![s].dials = @ + 1]
  /\ conn' = [conn EXCEPT ![<<s, lis[s].dials + 1>>] = "dialing"]
  /\ UNCHANGED <<reconnect, str, pull, wire, srvVars, unread, announced, ending, faults>>

\* The message handler, for a well-formed envelope; a malformed frame emits an
\* untyped error, which changes nothing.
Receive(s) ==
  LET c == Current(s) IN
  /\ wire[c] # <<>>
  /\ Head(wire[c]).kind = "event"
  /\ Deliver(s, Head(wire[c]).msg)
  /\ wire' = [wire EXCEPT ![c] = Tail(@)]
  /\ UNCHANGED <<reconnect, lis, conn, srvVars, unread, announced, ending, faults>>

\* Mutant: a stream that does not reconnect waits on.
CleanEndOn1000(s, f) == f.kind = "close" /\ f.code = 1000

\* The close handler: a rejected handshake or a terminal code stops the
\* listener with a typed error, 1000 stops it cleanly, and any other code arms
\* the reconnect timer.  The stream ends with the error, and otherwise ends
\* cleanly if no redial is coming (a microtask, so that the error goes first).
FatalClose(s, f) == f.kind = "reject" \/ (~lis[s].closed /\ fatalErrorForClose(f.code))
CleanEnd(s, f) == ~FatalClose(s, f) /\ (f.code = 1000 \/ ~reconnect[s])

StreamEnds(s, f) ==
  /\ str' = [str EXCEPT ![s] = CASE FatalClose(s, f) -> FinishedWithError(@, f.code, pull[s] = Waiting)
                                 [] CleanEnd(s, f) -> Finished(@)
                                 [] OTHER -> @]
  /\ pull' = IF pull[s] # Waiting THEN pull
             ELSE [pull EXCEPT ![s] = CASE FatalClose(s, f) -> Failure(f.code)
                                        [] CleanEnd(s, f) -> Done
                                        [] OTHER -> @]

ListenerEnds(s, f) ==
  LET stops == FatalClose(s, f) \/ f.code = 1000 IN
  /\ lis' = [lis EXCEPT ![s].closed = @ \/ stops, ![s].timer = ~lis[s].closed /\ ~stops /\ reconnect[s]]
  /\ conn' = [conn EXCEPT ![Current(s)] = "over"]
  /\ ending' = IF FatalClose(s, f) /\ ending[s] = NoError THEN [ending EXCEPT ![s] = f.code] ELSE ending

CloseEvent(s) ==
  LET c == Current(s) IN
  /\ wire[c] # <<>>
  /\ Head(wire[c]).kind \in {"close", "reject"}
  /\ ListenerEnds(s, Head(wire[c]))
  /\ StreamEnds(s, Head(wire[c]))
  /\ wire' = [wire EXCEPT ![c] = <<>>]
  /\ UNCHANGED <<reconnect, srvVars, unread, announced, faults>>

\* close() of the stream: forget a parked error, cancel the timer, send 1000,
\* resolve the waiting pull.  Frames already on the wire still arrive.
Close(s, answer) ==
  /\ str' = [str EXCEPT ![s].closed = TRUE, ![s].error = NoError]
  /\ lis' = [lis EXCEPT ![s].closed = TRUE, ![s].timer = FALSE]
  /\ pull' = [pull EXCEPT ![s] = answer]
  /\ conn' = [conn EXCEPT ![Current(s)] = IF @ \in {"dialing", "open"} THEN "leaving" ELSE @]

Closed(s) == Close(s, IF pull[s] = Waiting THEN Done ELSE pull[s])
-----------------------------------------------------------------------------
(* The server: Handler.serve, Hub and the relay's push.                    *)

Up(c) == conn[c] \in {"open", "leaving"} /\ hnd[c].pc # "none"

OnWire(c, f) == IF c[1] \in Streams THEN [wire EXCEPT ![c] = Append(@, f)] ELSE wire

\* A close frame; nothing is written to the connection after it.
Shut(c, code) ==
  /\ conn' = [conn EXCEPT ![c] = IF @ \in {"open", "leaving"} THEN "closed" ELSE @]
  /\ wire' = IF conn[c] \in {"open", "leaving"} THEN OnWire(c, CloseFrame(code)) ELSE wire

\* The handshake is refused (401 for the credential, 404 for the agent, 403 for
\* the key of another agent), or never completes.
Refuse(c) ==
  /\ conn[c] \in {"dialing", "leaving"} /\ hnd[c].pc = "none"
  /\ Fault
  /\ conn' = [conn EXCEPT ![c] = "closed"]
  /\ \E f \in {Rejection(401), Rejection(403), Rejection(404), CloseFrame(1006)} :
       wire' = OnWire(c, f)
  /\ UNCHANGED <<reconnect, sdkVars, srvVars, unread, announced, ending>>

\* Accept and Register: the new connection is current, the old one has yet to
\* be closed.
Register(c) ==
  /\ conn[c] \in {"dialing", "leaving"} /\ hnd[c].pc = "none"
  /\ conn' = [conn EXCEPT ![c] = IF @ = "dialing" THEN "open" ELSE @]
  /\ hub' = c
  /\ hnd' = [hnd EXCEPT ![c] = [@ EXCEPT !.pc = "evict", !.old = hub]]
  /\ UNCHANGED <<reconnect, sdkVars, wire, unread, push, announced, ending, faults>>

Evict(c) ==
  /\ hnd[c].pc = "evict"
  /\ hnd' = [hnd EXCEPT ![c] = [@ EXCEPT !.pc = "drain", !.old = NoConn]]
  /\ IF hnd[c].old = NoConn THEN UNCHANGED <<conn, wire>> ELSE Shut(hnd[c].old, WS_CLOSE_REPLACED)
  /\ UNCHANGED <<reconnect, sdkVars, hub, unread, push, announced, ending, faults>>

\* The pages drainUnread may list: all of the unread messages, or as many of
\* them as the limit allows (the newest, an order the model leaves out).
Pages == {p \in SUBSET unread : Cardinality(p) = DrainLimit \/ (p = unread /\ Cardinality(p) < DrainLimit)}

\* drainUnread lists a page of the unread messages (a failed listing is only
\* logged), and sends each to whichever connection is current by then.
Drain(c) ==
  /\ hnd[c].pc = "drain"
  /\ \/ /\ \E p \in Pages :
             hnd' = [hnd EXCEPT ![c] = [@ EXCEPT !.pc = "send", !.todo = p, !.page = p, !.left = unread \ p]]
        /\ UNCHANGED faults
     \/ hnd' = [hnd EXCEPT ![c] = [@ EXCEPT !.pc = "read", !.drained = FALSE]] /\ Fault
  /\ UNCHANGED <<reconnect, sdkVars, conn, wire, hub, unread, push, announced, ending>>

\* Hub.Send takes the connection under the lock and writes to it afterwards;
\* a write to a connection that is gone by then is lost.
Written(c, m) ==
  IF Up(c)
  THEN /\ wire' = OnWire(c, Frame(m))
       /\ announced' = [announced EXCEPT ![c] = @ \union {m}]
  ELSE UNCHANGED <<wire, announced>>

\* The next message of the page; the load of its envelope may fail, and
\* drainUnread goes on without it.
DrainTake(c) ==
  /\ hnd[c].pc = "send"
  /\ \/ hnd[c].todo = {} /\ hnd' = [hnd EXCEPT ![c].pc = "read"] /\ UNCHANGED faults
     \/ /\ \E m \in hnd[c].todo :
             hnd' = [hnd EXCEPT ![c] = [@ EXCEPT !.pc = IF hub = NoConn THEN "send" ELSE "write",
                                                 !.todo = hnd[c].todo \ {m}, !.msg = m, !.old = hub]]
        /\ UNCHANGED faults
     \/ /\ \E m \in hnd[c].todo :
             hnd' = [hnd EXCEPT ![c] = [@ EXCEPT !.todo = hnd[c].todo \ {m}, !.drained = FALSE]]
        /\ Fault
  /\ UNCHANGED <<reconnect, sdkVars, conn, wire, hub, unread, push, announced, ending>>

DrainWrite(c) ==
  /\ hnd[c].pc = "write"
  /\ Written(hnd[c].old, hnd[c].msg)
  /\ hnd' = [hnd EXCEPT ![c] = [@ EXCEPT !.pc = "send", !.msg = NoMsg, !.old = NoConn]]
  /\ UNCHANGED <<reconnect, sdkVars, conn, hub, unread, push, ending, faults>>

\* The relay stores a message, then pushes its notification.
Store(m) ==
  /\ push[m].pc = "none"
  /\ unread' = unread \union {m}
  /\ push' = [push EXCEPT ![m].pc = "stored"]
  /\ UNCHANGED <<reconnect, sdkVars, conn, wire, hub, hnd, announced, ending, faults>>

\* IsConnected, the load of the committed envelope, which may fail, and the
\* locked half of Hub.Send.
Take(m) ==
  /\ push[m].pc = "stored"
  /\ \/ /\ push' = [push EXCEPT ![m] = [pc |-> IF hub = NoConn THEN "done" ELSE "taken", to |-> hub]]
        /\ UNCHANGED faults
     \/ hub # NoConn /\ push' = [push EXCEPT ![m].pc = "missed"] /\ Fault
  /\ UNCHANGED <<reconnect, sdkVars, conn, wire, hub, hnd, unread, announced, ending>>

Write(m) ==
  /\ push[m].pc = "taken"
  /\ Written(push[m].to, m)
  /\ push' = [push EXCEPT ![m] = [pc |-> "done", to |-> NoConn]]
  /\ UNCHANGED <<reconnect, sdkVars, conn, hub, hnd, unread, ending, faults>>

\* Mutant: the newer connection is unregistered with the old one.
UnregisterAny(c) ==
  /\ hnd[c].pc = "read"
  /\ conn[c] \in {"leaving", "closed", "over"}
  /\ Shut(c, 1000)
  /\ hub' = NoConn
  /\ hnd' = [hnd EXCEPT ![c] = [@ EXCEPT !.pc = "gone", !.drained = TRUE, !.page = {}, !.left = {}]]
  /\ announced' = [announced EXCEPT ![c] = {}]
  /\ UNCHANGED <<reconnect, sdkVars, unread, push, ending, faults>>

\* The read loop ends when the client has closed or the connection is down:
\* Unregister removes the connection only while it is the current one.
Unregister(c) ==
  /\ hnd[c].pc = "read"
  /\ conn[c] \in {"leaving", "closed", "over"}
  /\ Shut(c, 1000)
  /\ hub' = IF hub = c THEN NoConn ELSE hub
  /\ hnd' = [hnd EXCEPT ![c] = [@ EXCEPT !.pc = "gone", !.drained = TRUE, !.page = {}, !.left = {}]]
  /\ announced' = [announced EXCEPT ![c] = {}]
  /\ UNCHANGED <<reconnect, sdkVars, unread, push, ending, faults>>

\* A rival closes its connection, or gives up dialing.
RivalLeaves(c) ==
  /\ c[1] \in Rivals
  /\ conn[c] \in {"dialing", "open"}
  /\ conn' = [conn EXCEPT ![c] = "leaving"]
  /\ UNCHANGED <<reconnect, sdkVars, wire, srvVars, unread, announced, ending, faults>>

\* The network drops a connection with whatever was on it; the client sees
\* 1006, the server a failed read or ping.
Drop(c) ==
  /\ conn[c] \in {"open", "leaving"}
  /\ hnd[c].pc # "none"
  /\ Fault
  /\ conn' = [conn EXCEPT ![c] = "closed"]
  /\ wire' = IF c[1] \in Streams THEN [wire EXCEPT ![c] = <<CloseFrame(1006)>>] ELSE wire
  /\ UNCHANGED <<reconnect, sdkVars, srvVars, unread, announced, ending>>

\* Hub.Close on shutdown, or the ping goroutine: 1001 to a connection that is
\* up; only a shutdown takes it out of the hub.
GoingAway(c) ==
  /\ conn[c] = "open"
  /\ hnd[c].pc = "read"
  /\ Fault
  /\ Shut(c, 1001)
  /\ hub' \in {hub, IF hub = c THEN NoConn ELSE hub}
  /\ UNCHANGED <<reconnect, sdkVars, hnd, unread, push, announced, ending>>
-----------------------------------------------------------------------------
Init ==
  /\ reconnect \in [Streams -> BOOLEAN]
  /\ lis = [s \in Streams |-> [closed |-> FALSE, dials |-> 1, timer |-> FALSE]]
  /\ str = [s \in Streams |-> [closed |-> FALSE, buffer |-> <<>>, error |-> NoError]]
  /\ pull = [s \in Streams |-> Idle]
  /\ conn = [c \in Conns |-> IF c[2] = 1 THEN "dialing" ELSE "none"]
  /\ wire = [c \in Conns |-> <<>>]
  /\ hub = NoConn
  /\ hnd = [c \in Conns |-> [pc |-> "none", todo |-> {}, msg |-> NoMsg, old |-> NoConn,
                             drained |-> TRUE, page |-> {}, left |-> {}]]
  /\ unread \in SUBSET Messages
  /\ \E coming \in SUBSET (Messages \ unread) :
       push = [m \in Messages |-> [pc |-> IF m \in coming THEN "none" ELSE "done", to |-> NoConn]]
  /\ announced = [c \in Conns |-> {}]
  /\ ending = [s \in Streams |-> NoError]
  /\ faults = 0

ServerNext ==
  \/ \E c \in Conns : \/ Refuse(c) \/ Register(c) \/ Evict(c) \/ Drain(c) \/ DrainTake(c) \/ DrainWrite(c)
                      \/ Unregister(c) \/ RivalLeaves(c) \/ Drop(c) \/ GoingAway(c)
  \/ \E m \in Messages : Store(m) \/ Take(m) \/ Write(m)

SdkNext(s) == Redial(s) \/ Receive(s) \/ CloseEvent(s)
=============================================================================
