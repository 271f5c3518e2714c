--------------------------- MODULE CliListenProofs ---------------------------
(***************************************************************************)
(* Theorems about CliListen, for any number of streams, rivals, messages,  *)
(* dials and faults and any flags: no takeover, drain or push loses a      *)
(* message, no pull is orphaned, no typed error is swallowed, and the exit *)
(* codes mean what a wrapper reads in them.                                *)
(***************************************************************************)
EXTENDS CliListen, TLAPS

(* Types.                                                                  *)

Buffers == {b \in Seq(Messages) : Len(b) <= MaxBuffered}
Pulls == [kind : {"idle", "waiting", "event", "done", "error"}, msg : Messages \union {NoMsg}, code : Nat]
ConnStates == {"none", "dialing", "open", "leaving", "closed", "over"}
HandlerPcs == {"none", "evict", "drain", "send", "write", "read", "gone"}
ExitCodes == {99, 100, 0, 1, 4, 5, 6}
Flags == [once : BOOLEAN, until : BOOLEAN, forward : BOOLEAN, conversation : BOOLEAN, reconnect : BOOLEAN]
Processes == [opts : {o \in Flags : o.until => o.once}, pc : {"loop", "handle", "print", "exit"},
              matched : Messages \union {NoMsg}, timedOut : BOOLEAN, forwardFailed : BOOLEAN,
              forwarded : SUBSET Messages, exit : ExitCodes]

\* What is on a wire: until something fails, no close but a takeover and 1000.
Calm == {Frame(m) : m \in Messages} \union {CloseFrame(WS_CLOSE_REPLACED), CloseFrame(1000)}
Frames == Calm \union IF faults = 0 THEN {} ELSE {CloseFrame(1001), CloseFrame(1006), Rejection(401), Rejection(403), Rejection(404)}

ServerTypes ==
  /\ conn \in [Conns -> ConnStates]
  /\ wire \in [Conns -> Seq(Frames)]
  /\ hub \in Conns \union {NoConn}
  /\ hnd \in [Conns -> [pc : HandlerPcs, todo : SUBSET Messages, msg : Messages \union {NoMsg},
                        old : Conns \union {NoConn}, drained : BOOLEAN, page : SUBSET Messages, left : SUBSET Messages]]
  /\ unread \subseteq Messages
  /\ push \in [Messages -> [pc : {"none", "stored", "taken", "missed", "done"}, to : Conns \union {NoConn}]]
  /\ announced \in [Conns -> SUBSET Messages]
  /\ faults \in 0..MaxFaults

StreamTypes ==
  /\ reconnect \in [Streams -> BOOLEAN]
  /\ lis \in [Streams -> [closed : BOOLEAN, dials : 1..MaxDials, timer : BOOLEAN]]
  /\ str \in [Streams -> [closed : BOOLEAN, buffer : Buffers, error : Nat]]
  /\ pull \in [Streams -> Pulls]
  /\ ending \in [Streams -> Nat]
  /\ cli \in [Streams -> Processes]

-----------------------------------------------------------------------------
(* The server: takeovers, drains and pushes.                               *)

\* A connection is registered only once it has been dialed.
Dialed == \A c \in Conns : conn[c] \in {"none", "dialing"} => hnd[c].pc = "none"

\* A connection that is up is the current one, or is being evicted.
Superseded(c) == \E d \in Conns : hnd[d].pc = "evict" /\ hnd[d].old = c
Registered == \A c \in Conns : Up(c) => hub = c \/ Superseded(c)

\* What the current connection c still owes of an unread message m.
Owed(c, m) ==
  \/ m \in announced[c]
  \/ Announcing(m, c)
  \/ hnd[c].pc \in {"evict", "drain"}
  \/ hnd[c].pc \in {"send", "write"} /\ m \in hnd[c].todo
  \/ hnd[c].pc = "write" /\ hnd[c].msg = m /\ hnd[c].old = c
  \/ ~hnd[c].drained
  \/ m \in hnd[c].left
Announced == \A c \in Conns : hub = c /\ Up(c) => \A m \in unread : Owed(c, m)

\* The page that the current connection's drain has listed is written to it,
\* or will be; and it is a full one if it left anything out.
Delivering(c, m) ==
  \/ m \in announced[c]
  \/ hnd[c].pc \in {"send", "write"} /\ m \in hnd[c].todo
  \/ hnd[c].pc = "write" /\ hnd[c].msg = m /\ hnd[c].old = c
Page(c) ==
  \/ hnd[c].pc \in {"evict", "drain"}
  \/ ~hnd[c].drained
  \/ /\ \A m \in hnd[c].page : Delivering(c, m)
     /\ hnd[c].left = {} \/ Cardinality(hnd[c].page) = DrainLimit
Paged == \A c \in Conns : hub = c /\ Up(c) => Page(c)

\* A write under way has a connection and a message.
Aimed ==
  /\ \A c \in Conns : hnd[c].pc = "write" => hnd[c].old \in Conns /\ hnd[c].msg \in Messages
  /\ \A m \in Messages : push[m].pc = "taken" => push[m].to \in Conns
-----------------------------------------------------------------------------
(* One stream and its process.                                             *)

\* The socket of a stream: later ones are not dialed, one that is over is silent.
Socket(s) ==
  /\ \A n \in 1..MaxDials : n > lis[s].dials => conn[<<s, n>>] = "none"
  /\ conn[Current(s)] = "over" => wire[Current(s)] = <<>>

\* Listener and stream close together, except that a stream without reconnect
\* ends with its socket.
Closing(s) ==
  /\ lis[s].closed => str[s].closed
  /\ lis[s].timer => ~str[s].closed
  /\ cli[s].pc # "exit" /\ str[s].closed => lis[s].closed \/ conn[Current(s)] = "over"
  /\ cli[s].pc # "exit" /\ ~str[s].closed => lis[s].timer \/ conn[Current(s)] \in {"dialing", "open", "closed"}

\* The consumer's pull.
Pulling(s) ==
  /\ pull[s] = Waiting => ~str[s].closed /\ str[s].buffer = <<>>
  /\ pull[s].kind = "waiting" => pull[s] = Waiting
  /\ pull[s].kind = "event" => pull[s].msg \in Messages
  /\ pull[s].kind = "done" => str[s].closed
  /\ cli[s].pc \in {"handle", "print"} => pull[s].kind = "event"
  /\ cli[s].pc = "exit" => pull[s] = Idle

\* The process has not closed the stream itself.
Untouched(s) == ~cli[s].timedOut /\ cli[s].matched = NoMsg /\ cli[s].pc # "exit"

\* An error that stopped the listener is parked or has been thrown.
Surfacing(s) ==
  Untouched(s) =>
    /\ str[s].closed => conn[Current(s)] = "over"
    /\ ending[s] # NoError => /\ str[s].closed
                              /\ \/ str[s].error # NoError /\ pull[s].kind \in {"idle", "event"}
                                 \/ pull[s].kind = "error"

\* The loop's progress with a message.
Handling(s) ==
  /\ cli[s].pc = "handle" => pull[s].msg \in Matching
  /\ cli[s].pc = "print" => /\ cli[s].opts.conversation => pull[s].msg \in Matching
                            /\ pull[s].msg \in cli[s].forwarded \/ cli[s].forwardFailed
  /\ cli[s].timedOut => cli[s].opts.until
  /\ cli[s].matched # NoMsg =>
       /\ cli[s].opts.once
       /\ cli[s].opts.conversation => cli[s].matched \in Matching
       /\ cli[s].opts.forward => cli[s].matched \in cli[s].forwarded \/ cli[s].forwardFailed

\* What an exit code claims.
Exiting(s) ==
  /\ cli[s].pc = "exit" <=> cli[s].exit # NoExit
  /\ cli[s].exit = EXIT.ERROR => cli[s].matched # NoMsg \/ ending[s] # WS_CLOSE_REPLACED
  /\ cli[s].exit = EXIT.OK => cli[s].matched # NoMsg /\ ~cli[s].forwardFailed

Quiet(s) == faults = 0 => lis[s].dials = 1 /\ ~lis[s].timer

StreamInv(s) == Socket(s) /\ Closing(s) /\ Pulling(s) /\ Surfacing(s) /\ Handling(s) /\ Exiting(s) /\ Quiet(s)
ServerInv == Dialed /\ Registered /\ Announced /\ Paged /\ Aimed
Inv == ServerTypes /\ StreamTypes /\ ServerInv /\ \A s \in Streams : StreamInv(s)
-----------------------------------------------------------------------------
(* Connections and wires.                                                  *)

\* A connection is a dial of a stream, or of a rival client.
LEMMA ConnFacts ==
  /\ MaxDials \in Nat \ {0} /\ MaxFaults \in Nat /\ MaxBuffered \in Nat \ {0}
  /\ \A c \in Conns : c # NoConn
  /\ \A s \in Streams : \A n \in 1..MaxDials : <<s, n>> \in Conns
  /\ \A c \in Conns : c[1] \in Rivals => c[1] \notin Streams
  BY BufferAssumption, DialsAssumption, StreamFaultsAssumption, RivalsAssumption DEF Conns, NoConn

\* A stream's current connection is its own.
LEMMA CurrentFact ==
  ASSUME StreamTypes, NEW s \in Streams
  PROVE  Current(s) \in Conns /\ lis[s].dials \in 1..MaxDials /\ Current(s)[1] = s
<1>1. lis[s].dials \in 1..MaxDials
  BY DEF StreamTypes
<1> QED
  BY <1>1, ConnFacts DEF Current

\* A longer history of faults allows more frames.
LEMMA FramesGrow ==
  ASSUME faults \in Nat, faults' \in Nat, faults' >= faults
  PROVE  Frames \subseteq Frames' /\ \A w \in Seq(Frames) : w \in Seq(Frames')
<1>1. Frames \subseteq Frames'
  BY DEF Frames, Calm
<1> HIDE DEF Frames
<1>2. ASSUME NEW w \in Seq(Frames) PROVE w \in Seq(Frames')
  <2>1. w \in [1..Len(w) -> Frames] /\ Len(w) \in Nat
    BY <1>2
  <2>2. w \in [1..Len(w) -> Frames']
    BY <1>1, <2>1
  <2> QED
    BY <2>1, <2>2
<1> QED
  BY <1>1, <1>2

\* What may travel on a connection.
LEMMA FrameKinds ==
  /\ \A m \in Messages : Frame(m) \in Frames
  /\ CloseFrame(WS_CLOSE_REPLACED) \in Frames /\ CloseFrame(1000) \in Frames
  /\ faults # 0 => /\ CloseFrame(1001) \in Frames /\ CloseFrame(1006) \in Frames
                   /\ Rejection(401) \in Frames /\ Rejection(403) \in Frames /\ Rejection(404) \in Frames
  BY DEF Frames, Calm

\* The same of the next state.
LEMMA FrameKindsLater ==
  /\ \A m \in Messages : Frame(m) \in Frames'
  /\ CloseFrame(WS_CLOSE_REPLACED) \in Frames' /\ CloseFrame(1000) \in Frames'
  /\ faults' # 0 => /\ CloseFrame(1001) \in Frames' /\ CloseFrame(1006) \in Frames'
                    /\ Rejection(401) \in Frames' /\ Rejection(403) \in Frames' /\ Rejection(404) \in Frames'
  BY DEF Frames, Calm

\* A fault is counted.
LEMMA FaultFact ==
  ASSUME ServerTypes, Fault
  PROVE  faults \in Nat /\ faults' \in 0..MaxFaults /\ faults' # 0 /\ faults' >= faults
  BY ConnFacts DEF ServerTypes, Fault

\* What the server can do to a stream's connection.
ConnStep(c) ==
  /\ \/ conn'[c] = conn[c]
     \/ conn[c] \in {"dialing", "open", "leaving"} /\ conn'[c] = "closed"
     \/ conn[c] = "dialing" /\ conn'[c] = "open"
  /\ conn[c] \in {"none", "over"} => wire'[c] = wire[c]

\* A frame appended to a wire, or nothing.
LEMMA OnWireFact ==
  ASSUME ServerTypes, NEW c \in Conns, NEW f \in Frames', \A w \in Seq(Frames) : w \in Seq(Frames')
  PROVE  /\ OnWire(c, f) \in [Conns -> Seq(Frames')]
         /\ \A d \in Conns \ {c} : OnWire(c, f)[d] = wire[d]
<1>1. wire \in [Conns -> Seq(Frames)] /\ wire \in [Conns -> Seq(Frames')]
  BY DEF ServerTypes
<1>2. Append(wire[c], f) \in Seq(Frames')
  BY <1>1
<1> HIDE DEF Frames
<1> QED
  BY <1>1, <1>2 DEF OnWire

\* Shut closes one connection, and once.
LEMMA ShutFact ==
  ASSUME ServerTypes, NEW c \in Conns, NEW code, CloseFrame(code) \in Frames', Shut(c, code),
         \A w \in Seq(Frames) : w \in Seq(Frames')
  PROVE  /\ conn' \in [Conns -> ConnStates] /\ wire' \in [Conns -> Seq(Frames')]
         /\ \A d \in Conns \ {c} : conn'[d] = conn[d] /\ wire'[d] = wire[d]
         /\ conn'[c] = IF conn[c] \in {"open", "leaving"} THEN "closed" ELSE conn[c]
         /\ conn[c] \notin {"open", "leaving"} => wire' = wire
<1>1. /\ conn' = [conn EXCEPT ![c] = IF conn[c] \in {"open", "leaving"} THEN "closed" ELSE conn[c]]
      /\ wire' = IF conn[c] \in {"open", "leaving"} THEN OnWire(c, CloseFrame(code)) ELSE wire
  BY DEF Shut
<1>2. conn \in [Conns -> ConnStates] /\ wire \in [Conns -> Seq(Frames')] /\ "closed" \in ConnStates
  BY DEF ServerTypes, ConnStates
<1>3. /\ conn' \in [Conns -> ConnStates]
      /\ \A d \in Conns \ {c} : conn'[d] = conn[d]
      /\ conn'[c] = IF conn[c] \in {"open", "leaving"} THEN "closed" ELSE conn[c]
  BY <1>1, <1>2
<1>4. CASE conn[c] \in {"open", "leaving"}
  BY <1>1, <1>3, <1>4, OnWireFact
<1>5. CASE conn[c] \notin {"open", "leaving"}
  BY <1>1, <1>2, <1>3, <1>5
<1> QED
  BY <1>4, <1>5

\* Written sends on one connection, if it is up.
LEMMA WrittenFact ==
  ASSUME ServerTypes, NEW c \in Conns, NEW m \in Messages, Written(c, m), faults' = faults
  PROVE  /\ wire' \in [Conns -> Seq(Frames')] /\ announced' \in [Conns -> SUBSET Messages]
         /\ \A d \in Conns \ {c} : wire'[d] = wire[d] /\ announced'[d] = announced[d]
         /\ announced[c] \subseteq announced'[c]
         /\ Up(c) => m \in announced'[c]
         /\ ~Up(c) => wire' = wire
<1>1. Frames' = Frames
  BY DEF Frames, Calm
<1>2. \A w \in Seq(Frames) : w \in Seq(Frames')
  BY <1>1
<1>3. Frame(m) \in Frames'
  BY FrameKindsLater
<1>4. announced \in [Conns -> SUBSET Messages] /\ wire \in [Conns -> Seq(Frames')]
  BY <1>2 DEF ServerTypes
<1>5. CASE Up(c)
  <2>1. wire' = OnWire(c, Frame(m)) /\ announced' = [announced EXCEPT ![c] = @ \union {m}]
    BY <1>5 DEF Written
  <2> QED
    BY <1>2, <1>3, <1>4, <1>5, <2>1, OnWireFact
<1>6. CASE ~Up(c)
  BY <1>4, <1>6 DEF Written
<1> QED
  BY <1>5, <1>6
-----------------------------------------------------------------------------
(* The server's steps.                                                     *)

\* The streams see a server step only in their connections.
ServerView ==
  /\ UNCHANGED <<reconnect, sdkVars, ending>> /\ faults \in Nat /\ faults' \in Nat /\ faults' >= faults
  /\ \A c \in Conns : c[1] \in Streams => ConnStep(c)

Handlers == [pc : HandlerPcs, todo : SUBSET Messages, msg : Messages \union {NoMsg},
             old : Conns \union {NoConn}, drained : BOOLEAN, page : SUBSET Messages, left : SUBSET Messages]

\* A page is written on as long as its handler is the same.
LEMMA PagedStays ==
  ASSUME Paged,
         \A d \in Conns : hub' = d /\ Up(d)' =>
           \/ hnd'[d].pc \in {"evict", "drain"}
           \/ hub = d /\ Up(d) /\ hnd'[d] = hnd[d] /\ announced[d] \subseteq announced'[d]
  PROVE  Paged'
<1> SUFFICES ASSUME NEW d \in Conns, hub' = d, Up(d)' PROVE Page(d)'
  BY DEF Paged
<1>1. CASE hnd'[d].pc \in {"evict", "drain"}
  BY <1>1 DEF Page
<1>2. CASE hub = d /\ Up(d) /\ hnd'[d] = hnd[d] /\ announced[d] \subseteq announced'[d]
  BY <1>2 DEF Paged, Page, Delivering
<1> QED
  BY <1>1, <1>2

\* Nothing new is owed when connections only go down.
LEMMA Fewer ==
  ASSUME Registered, Announced, Paged, Aimed, UNCHANGED <<hub, hnd, push, announced>>, unread' \subseteq unread,
         \A c \in Conns : Up(c)' => Up(c)
  PROVE  Registered' /\ Announced' /\ Paged' /\ Aimed'
<1>1. \A c \in Conns : Superseded(c)' = Superseded(c)
  BY DEF Superseded
<1>2. \A c \in Conns : \A m : Owed(c, m)' = Owed(c, m)
  BY DEF Owed, Announcing
<1>3. Paged'
  BY PagedStays
<1> QED
  BY <1>1, <1>2, <1>3 DEF Registered, Announced, Aimed

\* A message that is owed stays owed until its own handler moves.
LEMMA OwedStays ==
  ASSUME NEW c \in Conns, NEW m \in Messages, Owed(c, m), hnd'[c] = hnd[c], announced[c] \subseteq announced'[c],
         push'[m] = push[m]
  PROVE  Owed(c, m)'
  BY DEF Owed, Announcing

\* A step without a fault allows the same frames.
LEMMA SameFrames ==
  ASSUME ServerTypes, faults' = faults
  PROVE  /\ Frames' = Frames /\ \A w \in Seq(Frames) : w \in Seq(Frames')
         /\ faults' \in 0..MaxFaults /\ faults \in Nat /\ faults' \in Nat /\ faults' >= faults
<1>1. Frames' = Frames
  BY DEF Frames, Calm
<1>2. faults \in 0..MaxFaults /\ MaxFaults \in Nat
  BY ConnFacts DEF ServerTypes
<1> QED
  BY <1>1, <1>2

\* A dial is refused (this and the next lemmas: one per step of the server, as every stream sees it).
LEMMA RefuseStep ==
  ASSUME ServerTypes, ServerInv, NEW c \in Conns, Refuse(c)
  PROVE  ServerTypes' /\ ServerInv' /\ ServerView
<1>1. /\ conn[c] \in {"dialing", "leaving"} /\ hnd[c].pc = "none" /\ Fault
      /\ conn' = [conn EXCEPT ![c] = "closed"]
      /\ UNCHANGED <<reconnect, sdkVars, srvVars, unread, announced, ending>>
  BY DEF Refuse
<1>2. PICK f \in {Rejection(401), Rejection(403), Rejection(404), CloseFrame(1006)} : wire' = OnWire(c, f)
  BY DEF Refuse
<1>3. faults \in Nat /\ faults' \in 0..MaxFaults /\ faults' # 0 /\ faults' >= faults /\ faults' \in Nat
  BY <1>1, FaultFact
<1>4. f \in Frames' /\ \A w \in Seq(Frames) : w \in Seq(Frames')
  BY <1>2, <1>3, FramesGrow, FrameKindsLater
<1>5. wire' \in [Conns -> Seq(Frames')] /\ \A d \in Conns \ {c} : wire'[d] = wire[d]
  BY <1>2, <1>4, OnWireFact
<1>6. conn' \in [Conns -> ConnStates] /\ conn'[c] = "closed" /\ \A d \in Conns \ {c} : conn'[d] = conn[d]
  BY <1>1 DEF ServerTypes, ConnStates
<1>7. ServerTypes'
  BY <1>1, <1>3, <1>5, <1>6 DEF ServerTypes, srvVars
<1>8. ServerView
  BY <1>1, <1>3, <1>5, <1>6 DEF ServerView, ConnStep
<1>9. Dialed'
  BY <1>1, <1>6 DEF ServerInv, Dialed, srvVars
<1>10. \A d \in Conns : Up(d)' => Up(d)
  BY <1>1, <1>6 DEF Up, srvVars
<1> QED
  BY <1>1, <1>7, <1>8, <1>9, <1>10, Fewer DEF ServerInv, srvVars

\* Hub.Register.
LEMMA RegisterStep ==
  ASSUME ServerTypes, ServerInv, NEW c \in Conns, Register(c)
  PROVE  ServerTypes' /\ ServerInv' /\ ServerView
<1>1. /\ conn[c] \in {"dialing", "leaving"} /\ hnd[c].pc = "none"
      /\ conn' = [conn EXCEPT ![c] = IF conn[c] = "dialing" THEN "open" ELSE conn[c]]
      /\ hub' = c
      /\ hnd' = [hnd EXCEPT ![c] = [hnd[c] EXCEPT !.pc = "evict", !.old = hub]]
      /\ UNCHANGED <<reconnect, sdkVars, wire, unread, push, announced, ending, faults>>
  BY DEF Register
<1>2. hnd \in [Conns -> Handlers] /\ hub \in Conns \union {NoConn} /\ conn \in [Conns -> ConnStates]
  BY DEF ServerTypes, Handlers
<1>3. /\ [hnd[c] EXCEPT !.pc = "evict", !.old = hub] \in Handlers
      /\ [hnd[c] EXCEPT !.pc = "evict", !.old = hub].pc = "evict"
      /\ [hnd[c] EXCEPT !.pc = "evict", !.old = hub].old = hub
  BY <1>2 DEF Handlers, HandlerPcs
<1>4. /\ hnd' \in [Conns -> Handlers] /\ hnd'[c].pc = "evict" /\ hnd'[c].old = hub
      /\ \A d \in Conns \ {c} : hnd'[d] = hnd[d]
  BY <1>1, <1>2, <1>3
<1>5. /\ conn' \in [Conns -> ConnStates] /\ conn'[c] \in {"open", "leaving"}
      /\ conn'[c] = conn[c] \/ (conn[c] = "dialing" /\ conn'[c] = "open")
      /\ \A d \in Conns \ {c} : conn'[d] = conn[d]
  BY <1>1, <1>2 DEF ConnStates
<1>6. ServerTypes'
  BY <1>1, <1>4, <1>5, SameFrames DEF ServerTypes, Handlers
<1>7. ServerView
  BY <1>1, <1>5, SameFrames DEF ServerView, ConnStep
<1>8. Dialed'
  BY <1>4, <1>5 DEF ServerInv, Dialed
<1>9. Registered'
  <2> SUFFICES ASSUME NEW d \in Conns, Up(d)', d # c PROVE Superseded(d)'
    BY <1>1 DEF Registered
  <2>1. Up(d)
    BY <1>4, <1>5 DEF Up
  <2>2. CASE hub = d
    BY <1>4, <2>2 DEF Superseded
  <2>3. CASE Superseded(d)
    <3>1. PICK x \in Conns : hnd[x].pc = "evict" /\ hnd[x].old = d
      BY <2>3 DEF Superseded
    <3>2. hnd'[x] = hnd[x]
      BY <1>1, <1>4, <3>1
    <3> QED
      BY <3>1, <3>2 DEF Superseded
  <2> QED
    BY <2>1, <2>2, <2>3 DEF ServerInv, Registered
<1>10. Announced'
  BY <1>1, <1>4 DEF Announced, Owed
<1>11. Aimed'
  BY <1>1, <1>4 DEF ServerInv, Aimed
<1>12. Paged'
  BY <1>1, <1>4, PagedStays DEF ServerInv
<1> QED
  BY <1>6, <1>7, <1>8, <1>9, <1>10, <1>11, <1>12 DEF ServerInv

\* The connection that is replaced is closed.
LEMMA EvictStep ==
  ASSUME ServerTypes, ServerInv, NEW c \in Conns, Evict(c)
  PROVE  ServerTypes' /\ ServerInv' /\ ServerView
<1> DEFINE o == hnd[c].old
<1>1. /\ hnd[c].pc = "evict"
      /\ hnd' = [hnd EXCEPT ![c] = [hnd[c] EXCEPT !.pc = "drain", !.old = NoConn]]
      /\ IF o = NoConn THEN UNCHANGED <<conn, wire>> ELSE Shut(o, WS_CLOSE_REPLACED)
      /\ UNCHANGED <<reconnect, sdkVars, hub, unread, push, announced, ending, faults>>
  BY DEF Evict
<1>2. hnd \in [Conns -> Handlers] /\ o \in Conns \union {NoConn} /\ conn \in [Conns -> ConnStates]
  BY DEF ServerTypes, Handlers
<1>3. /\ [hnd[c] EXCEPT !.pc = "drain", !.old = NoConn] \in Handlers
      /\ [hnd[c] EXCEPT !.pc = "drain", !.old = NoConn].pc = "drain"
  BY <1>2 DEF Handlers, HandlerPcs
<1>4. /\ hnd' \in [Conns -> Handlers] /\ hnd'[c].pc = "drain" /\ \A d \in Conns \ {c} : hnd'[d] = hnd[d]
  BY <1>1, <1>2, <1>3
<1>5. /\ conn' \in [Conns -> ConnStates] /\ wire' \in [Conns -> Seq(Frames')]
      /\ \A d \in Conns : d # o => conn'[d] = conn[d] /\ wire'[d] = wire[d]
      /\ o # NoConn => /\ conn'[o] = IF conn[o] \in {"open", "leaving"} THEN "closed" ELSE conn[o]
                       /\ conn[o] \notin {"open", "leaving"} => wire' = wire
  <2>1. CASE o = NoConn
    BY <1>1, <1>2, <2>1, SameFrames DEF ServerTypes
  <2>2. CASE o # NoConn
    BY <1>1, <1>2, <2>2, ShutFact, SameFrames, FrameKindsLater
  <2> QED
    BY <2>1, <2>2
<1> HIDE DEF o
<1>6. ServerTypes'
  BY <1>1, <1>4, <1>5, SameFrames DEF ServerTypes, Handlers
<1>7. ServerView
  <2>1. ASSUME NEW d \in Conns PROVE ConnStep(d)
    <3>1. CASE d # o
      BY <1>5, <3>1 DEF ConnStep
    <3>2. CASE d = o
      BY <1>5, <3>2, ConnFacts DEF ConnStep
    <3> QED
      BY <3>1, <3>2
  <2> QED
    BY <1>1, <2>1, SameFrames DEF ServerView
<1>8. \A d \in Conns : Up(d)' => Up(d) /\ d # o
  <2> SUFFICES ASSUME NEW d \in Conns, Up(d)' PROVE Up(d) /\ d # o
    OBVIOUS
  <2>1. d # o
    BY <1>5, ConnFacts DEF Up
  <2>2. conn'[d] = conn[d] /\ (hnd[d].pc = "none" => hnd'[d].pc = "none")
    BY <1>1, <1>4, <1>5, <2>1
  <2> QED
    BY <2>1, <2>2 DEF Up
<1>9. Dialed'
  <2> SUFFICES ASSUME NEW d \in Conns, conn'[d] \in {"none", "dialing"} PROVE hnd'[d].pc = "none"
    BY DEF Dialed
  <2>1. conn'[d] = conn[d]
    BY <1>5, ConnFacts
  <2> QED
    BY <1>1, <1>4, <2>1 DEF ServerInv, Dialed
<1>10. Registered'
  <2> SUFFICES ASSUME NEW d \in Conns, Up(d)', hub # d PROVE Superseded(d)'
    BY <1>1 DEF Registered
  <2>1. PICK x \in Conns : hnd[x].pc = "evict" /\ hnd[x].old = d
    BY <1>8 DEF ServerInv, Registered, Superseded
  <2>2. x # c
    BY <1>8, <2>1 DEF o
  <2> QED
    BY <1>4, <2>1, <2>2 DEF Superseded
<1>11. Announced'
  <2> SUFFICES ASSUME NEW d \in Conns, hub = d, Up(d)', NEW m \in unread PROVE Owed(d, m)'
    BY <1>1 DEF Announced
  <2>1. Owed(d, m) /\ m \in Messages
    BY <1>8 DEF ServerInv, Announced, ServerTypes
  <2>2. CASE d = c
    BY <1>4, <2>2 DEF Owed
  <2>3. CASE d # c
    BY <1>1, <1>4, <2>1, <2>3, OwedStays
  <2> QED
    BY <2>2, <2>3
<1>12. Aimed'
  BY <1>1, <1>4 DEF ServerInv, Aimed
<1>13. Paged'
  <2>1. \A d \in Conns : hub' = d /\ Up(d)' => hnd'[d].pc = "drain" \/ (hub = d /\ Up(d) /\ hnd'[d] = hnd[d])
    BY <1>1, <1>4, <1>8
  <2> QED
    BY <1>1, <2>1, PagedStays DEF ServerInv
<1> QED
  BY <1>6, <1>7, <1>9, <1>10, <1>11, <1>12, <1>13 DEF ServerInv

\* A handler moves on: its own state changes, and what it owes is accounted for.
LEMMA HandlerMoves ==
  ASSUME ServerTypes, ServerInv, NEW c \in Conns, NEW r \in Handlers,
         r.pc \notin {"none", "evict"}, hnd[c].pc \notin {"none", "evict"},
         r.pc = "write" => r.old \in Conns /\ r.msg \in Messages,
         hnd' = [hnd EXCEPT ![c] = r],
         UNCHANGED <<conn, hub, unread, push>>,
         \A d \in Conns : announced[d] \subseteq announced'[d],
         hub = c /\ Up(c) => Page(c)' /\ \A m \in unread : Owed(c, m)'
  PROVE  hnd' \in [Conns -> Handlers] /\ ServerInv'
<1>1. hnd \in [Conns -> Handlers]
  BY DEF ServerTypes, Handlers
<1>2. hnd' \in [Conns -> Handlers] /\ hnd'[c] = r /\ \A d \in Conns \ {c} : hnd'[d] = hnd[d]
  BY <1>1
<1>3. Dialed'
  BY <1>2 DEF ServerInv, Dialed
<1>4. \A d \in Conns : Up(d)' = Up(d)
  BY <1>2 DEF Up
<1>5. \A d \in Conns : Superseded(d) => Superseded(d)'
  BY <1>2 DEF Superseded
<1>6. Registered'
  BY <1>4, <1>5 DEF ServerInv, Registered
<1>7. Announced'
  <2> SUFFICES ASSUME NEW d \in Conns, hub = d, Up(d), NEW m \in unread PROVE Owed(d, m)'
    BY <1>4 DEF Announced
  <2>1. CASE d = c
    BY <2>1
  <2>2. CASE d # c
    BY <1>2, <2>2, OwedStays DEF ServerInv, Announced, ServerTypes
  <2> QED
    BY <2>1, <2>2
<1>8. Aimed'
  BY <1>2 DEF ServerInv, Aimed
<1>9. Paged'
  <2> SUFFICES ASSUME NEW d \in Conns, hub = d, Up(d) PROVE Page(d)'
    BY <1>4 DEF Paged
  <2>1. CASE d = c
    BY <2>1
  <2>2. CASE d # c
    <3>1. Page(d) /\ hnd'[d] = hnd[d] /\ announced[d] \subseteq announced'[d]
      BY <1>2, <2>2 DEF ServerInv, Paged
    <3> QED
      BY <3>1 DEF Page, Delivering
  <2> QED
    BY <2>1, <2>2
<1> QED
  BY <1>2, <1>3, <1>6, <1>7, <1>8, <1>9 DEF ServerInv

\* The backlog is listed.
LEMMA DrainStep ==
  ASSUME ServerTypes, ServerInv, NEW c \in Conns, Drain(c)
  PROVE  ServerTypes' /\ ServerInv' /\ ServerView
<1>1. /\ hnd[c].pc = "drain" /\ UNCHANGED <<reconnect, sdkVars, conn, wire, hub, unread, push, announced, ending>>
      /\ hnd[c] \in Handlers /\ unread \in SUBSET Messages
  BY DEF Drain, ServerTypes, Handlers
<1>2. ASSUME NEW p \in Pages, UNCHANGED faults,
             hnd' = [hnd EXCEPT ![c] = [hnd[c] EXCEPT !.pc = "send", !.todo = p, !.page = p, !.left = unread \ p]]
      PROVE  ServerTypes' /\ ServerInv' /\ ServerView
  <2> DEFINE l == unread \ p
             r == [hnd[c] EXCEPT !.pc = "send", !.todo = p, !.page = p, !.left = l]
  <2>0. /\ p \in SUBSET Messages /\ l \in SUBSET Messages /\ \A m \in unread : m \in p \/ m \in l
        /\ Cardinality(p) = DrainLimit \/ l = {}
    BY <1>1 DEF Pages
  <2>2. hnd' = [hnd EXCEPT ![c] = r]
    BY <1>2
  <2> HIDE DEF l
  <2>1. r \in Handlers /\ r.pc = "send" /\ r.todo = p /\ r.page = p /\ r.left = l
    BY <1>1, <2>0 DEF Handlers, HandlerPcs
  <2> HIDE DEF r
  <2>3. hnd'[c] = r
    BY <2>2 DEF ServerTypes
  <2>4. Page(c)' /\ \A m \in unread : Owed(c, m)'
    BY <2>0, <2>1, <2>3 DEF Owed, Page, Delivering
  <2>5. hnd' \in [Conns -> Handlers] /\ ServerInv'
    BY <1>1, <2>1, <2>2, <2>4, HandlerMoves
  <2> QED
    BY <1>1, <1>2, <2>5, SameFrames DEF ServerTypes, Handlers, ServerView, ConnStep
<1>3. CASE hnd' = [hnd EXCEPT ![c] = [hnd[c] EXCEPT !.pc = "read", !.drained = FALSE]] /\ Fault
  <2> DEFINE r == [hnd[c] EXCEPT !.pc = "read", !.drained = FALSE]
  <2>1. r \in Handlers /\ r.pc = "read" /\ r.drained = FALSE
    BY <1>1 DEF Handlers, HandlerPcs
  <2>2. hnd' = [hnd EXCEPT ![c] = r]
    BY <1>3
  <2> HIDE DEF r
  <2>3. hnd'[c] = r
    BY <2>2 DEF ServerTypes
  <2>4. Page(c)' /\ \A m \in unread : Owed(c, m)'
    BY <2>1, <2>3 DEF Owed, Page
  <2>5. hnd' \in [Conns -> Handlers] /\ ServerInv'
    BY <1>1, <2>1, <2>2, <2>4, HandlerMoves
  <2>6. faults \in Nat /\ faults' \in 0..MaxFaults /\ faults' >= faults /\ faults' \in Nat
    BY <1>3, FaultFact
  <2>7. \A w \in Seq(Frames) : w \in Seq(Frames')
    BY <2>6, FramesGrow
  <2>8. wire' \in [Conns -> Seq(Frames')]
    BY <1>1, <2>7 DEF ServerTypes
  <2> QED
    BY <1>1, <2>5, <2>6, <2>8 DEF ServerTypes, Handlers, ServerView, ConnStep
<1> QED
  BY <1>2, <1>3 DEF Drain

\* One message of the backlog is taken.
LEMMA DrainTakeStep ==
  ASSUME ServerTypes, ServerInv, NEW c \in Conns, DrainTake(c)
  PROVE  ServerTypes' /\ ServerInv' /\ ServerView
<1>1. /\ hnd[c].pc = "send" /\ UNCHANGED <<reconnect, sdkVars, conn, wire, hub, unread, push, announced, ending>>
      /\ hnd[c] \in Handlers /\ unread \in SUBSET Messages /\ hub \in Conns \union {NoConn}
  BY DEF DrainTake, ServerTypes, Handlers
<1>2. ASSUME NEW r \in Handlers, hnd' = [hnd EXCEPT ![c] = r], r.pc \notin {"none", "evict"}, UNCHANGED faults \/ Fault,
             r.pc = "write" => r.old \in Conns /\ r.msg \in Messages,
             hub = c /\ Up(c) => Page(c)' /\ \A m \in unread : Owed(c, m)'
      PROVE  ServerTypes' /\ ServerInv' /\ ServerView
  <2>1. hnd' \in [Conns -> Handlers] /\ ServerInv'
    BY <1>1, <1>2, HandlerMoves
  <2>2. faults \in Nat /\ faults' \in 0..MaxFaults /\ faults' >= faults /\ faults' \in Nat
    BY <1>2, FaultFact, SameFrames
  <2>3. \A w \in Seq(Frames) : w \in Seq(Frames')
    BY <2>2, FramesGrow
  <2>4. wire' \in [Conns -> Seq(Frames')]
    BY <1>1, <2>3 DEF ServerTypes
  <2> QED
    BY <1>1, <2>1, <2>2, <2>4 DEF ServerTypes, Handlers, ServerView, ConnStep
<1>3. hub = c /\ Up(c) => Page(c) /\ \A m \in unread : Owed(c, m)
  BY DEF ServerInv, Announced, Paged
<1>4. CASE hnd[c].todo = {} /\ hnd' = [hnd EXCEPT ![c].pc = "read"] /\ UNCHANGED faults
  <2> DEFINE r == [hnd[c] EXCEPT !.pc = "read"]
  <2>1. r \in Handlers /\ r.pc = "read" /\ r.drained = hnd[c].drained /\ r.page = hnd[c].page /\ r.left = hnd[c].left
    BY <1>1 DEF Handlers, HandlerPcs
  <2>2. hnd' = [hnd EXCEPT ![c] = r]
    BY <1>4
  <2> HIDE DEF r
  <2>3. hnd'[c] = r
    BY <2>2 DEF ServerTypes
  <2>4. \A m \in unread : Owed(c, m) => Owed(c, m)'
    BY <1>1, <1>4, <2>1, <2>3 DEF Owed, Announcing
  <2>5. Page(c) => Page(c)'
    BY <1>1, <1>4, <2>1, <2>3 DEF Page, Delivering
  <2> QED
    BY <1>2, <1>3, <1>4, <2>1, <2>2, <2>4, <2>5
<1>5. CASE /\ \E m \in hnd[c].todo :
                hnd' = [hnd EXCEPT ![c] = [@ EXCEPT !.pc = IF hub = NoConn THEN "send" ELSE "write",
                                                    !.todo = hnd[c].todo \ {m}, !.msg = m, !.old = hub]]
           /\ UNCHANGED faults
  <2>0. PICK m \in hnd[c].todo :
          hnd' = [hnd EXCEPT ![c] = [@ EXCEPT !.pc = IF hub = NoConn THEN "send" ELSE "write",
                                              !.todo = hnd[c].todo \ {m}, !.msg = m, !.old = hub]]
    BY <1>5
  <2> DEFINE p == IF hub = NoConn THEN "send" ELSE "write"
             t == hnd[c].todo \ {m}
             r == [hnd[c] EXCEPT !.pc = p, !.todo = t, !.msg = m, !.old = hub]
  <2>1. p \in {"send", "write"} /\ (hub = c => p = "write") /\ (p = "write" => hub \in Conns) /\ t \in SUBSET Messages /\ m \in Messages
    BY <1>1, ConnFacts DEF Handlers
  <2>2. hnd' = [hnd EXCEPT ![c] = r]
    BY <2>0
  <2>3. \A x \in hnd[c].todo : x = m \/ x \in t
    OBVIOUS
  <2> HIDE DEF p, t
  <2>4. /\ r \in Handlers /\ r.pc = p /\ r.todo = t /\ r.msg = m /\ r.old = hub /\ r.drained = hnd[c].drained
        /\ r.page = hnd[c].page /\ r.left = hnd[c].left
    BY <1>1, <2>1 DEF Handlers, HandlerPcs
  <2> HIDE DEF r
  <2>5. hnd'[c] = r
    BY <2>2 DEF ServerTypes
  <2>6. ASSUME hub = c, NEW x \in unread, Owed(c, x) PROVE Owed(c, x)'
    BY <1>1, <2>1, <2>3, <2>4, <2>5, <2>6 DEF Owed, Announcing
  <2>7. ASSUME hub = c, Page(c) PROVE Page(c)'
    BY <1>1, <2>1, <2>3, <2>4, <2>5, <2>7 DEF Page, Delivering
  <2> QED
    BY <1>2, <1>3, <1>5, <2>1, <2>2, <2>4, <2>6, <2>7
<1>6. CASE /\ \E m \in hnd[c].todo :
                hnd' = [hnd EXCEPT ![c] = [@ EXCEPT !.todo = hnd[c].todo \ {m}, !.drained = FALSE]]
           /\ Fault
  <2>0. PICK m \in hnd[c].todo :
          hnd' = [hnd EXCEPT ![c] = [@ EXCEPT !.todo = hnd[c].todo \ {m}, !.drained = FALSE]]
    BY <1>6
  <2> DEFINE t == hnd[c].todo \ {m}
             r == [hnd[c] EXCEPT !.todo = t, !.drained = FALSE]
  <2>1. t \in SUBSET Messages
    BY <1>1 DEF Handlers
  <2>2. hnd' = [hnd EXCEPT ![c] = r]
    BY <2>0
  <2> HIDE DEF t
  <2>3. r \in Handlers /\ r.pc = "send" /\ r.drained = FALSE
    BY <1>1, <2>1 DEF Handlers
  <2> HIDE DEF r
  <2>4. hnd'[c] = r
    BY <2>2 DEF ServerTypes
  <2>5. Page(c)' /\ \A x \in unread : Owed(c, x)'
    BY <2>3, <2>4 DEF Page, Owed
  <2> QED
    BY <1>2, <1>6, <2>2, <2>3, <2>5
<1> QED
  BY <1>4, <1>5, <1>6 DEF DrainTake

\* It is written.
LEMMA DrainWriteStep ==
  ASSUME ServerTypes, ServerInv, NEW c \in Conns, DrainWrite(c)
  PROVE  ServerTypes' /\ ServerInv' /\ ServerView
<1> DEFINE o == hnd[c].old
           x == hnd[c].msg
           r == [hnd[c] EXCEPT !.pc = "send", !.msg = NoMsg, !.old = NoConn]
<1>1. /\ hnd[c].pc = "write" /\ Written(o, x) /\ hnd' = [hnd EXCEPT ![c] = r]
      /\ UNCHANGED <<reconnect, sdkVars, conn, hub, unread, push, ending, faults>>
      /\ hnd[c] \in Handlers /\ o \in Conns /\ x \in Messages
  BY DEF DrainWrite, ServerTypes, Handlers, ServerInv, Aimed
<1>2. /\ r \in Handlers /\ r.pc = "send" /\ r.todo = hnd[c].todo /\ r.drained = hnd[c].drained
      /\ r.page = hnd[c].page /\ r.left = hnd[c].left
  BY <1>1 DEF Handlers, HandlerPcs
<1> HIDE DEF r
<1>3. hnd'[c] = r
  BY <1>1 DEF ServerTypes
<1>4. /\ wire' \in [Conns -> Seq(Frames')] /\ announced' \in [Conns -> SUBSET Messages]
      /\ \A d \in Conns \ {o} : wire'[d] = wire[d] /\ announced'[d] = announced[d]
      /\ announced[o] \subseteq announced'[o]
      /\ Up(o) => x \in announced'[o]
      /\ ~Up(o) => wire' = wire
  BY <1>1, WrittenFact
<1>5. \A d \in Conns : announced[d] \subseteq announced'[d]
  BY <1>4
<1>6. ASSUME Up(c), NEW m \in unread, Owed(c, m) PROVE Owed(c, m)'
  BY <1>1, <1>2, <1>3, <1>4, <1>5, <1>6 DEF Owed, Announcing
<1>6a. ASSUME Up(c), Page(c) PROVE Page(c)'
  BY <1>1, <1>2, <1>3, <1>4, <1>5, <1>6a DEF Page, Delivering
<1>6b. hub = c /\ Up(c) => Page(c)' /\ \A m \in unread : Owed(c, m)'
  BY <1>6, <1>6a DEF ServerInv, Announced, Paged
<1>7. hnd' \in [Conns -> Handlers] /\ ServerInv'
  BY <1>1, <1>2, <1>5, <1>6b, HandlerMoves
<1>8. ServerTypes'
  BY <1>1, <1>4, <1>7, SameFrames DEF ServerTypes, Handlers
<1>9. ASSUME NEW d \in Conns PROVE ConnStep(d)
  BY <1>1, <1>4 DEF ConnStep, Up
<1> QED
  BY <1>1, <1>7, <1>8, <1>9, SameFrames DEF ServerView

\* A message is stored.
LEMMA StoreStep ==
  ASSUME ServerTypes, ServerInv, NEW x \in Messages, Store(x)
  PROVE  ServerTypes' /\ ServerInv' /\ ServerView
<1>1. /\ unread' = unread \union {x} /\ push' = [push EXCEPT ![x].pc = "stored"]
      /\ UNCHANGED <<reconnect, sdkVars, conn, wire, hub, hnd, announced, ending, faults>>
      /\ push \in [Messages -> [pc : {"none", "stored", "taken", "missed", "done"}, to : Conns \union {NoConn}]]
  BY DEF Store, ServerTypes
<1>2. /\ push' \in [Messages -> [pc : {"none", "stored", "taken", "missed", "done"}, to : Conns \union {NoConn}]]
      /\ push'[x].pc = "stored" /\ \A m \in Messages \ {x} : push'[m] = push[m]
  BY <1>1
<1>3. ServerTypes' /\ ServerView
  BY <1>1, <1>2, SameFrames DEF ServerTypes, ServerView, ConnStep
<1>4. Dialed' /\ Registered' /\ Aimed'
  BY <1>1, <1>2 DEF ServerInv, Dialed, Registered, Superseded, Up, Aimed
<1>5. ASSUME NEW c \in Conns, hub = c, Up(c), NEW m \in unread' PROVE Owed(c, m)'
  <2>1. CASE m = x
    BY <1>2, <2>1 DEF Owed, Announcing
  <2>2. CASE m # x
    <3>1. m \in Messages /\ Owed(c, m)
      BY <1>1, <1>5, <2>2 DEF ServerInv, Announced, ServerTypes
    <3> QED
      BY <1>1, <1>2, <2>2, <3>1, OwedStays
  <2> QED
    BY <2>1, <2>2
<1>6. Announced'
  BY <1>1, <1>5 DEF Announced, Up
<1>7. Paged'
  BY <1>1, PagedStays DEF ServerInv, Up
<1> QED
  BY <1>3, <1>4, <1>6, <1>7 DEF ServerInv

\* The notifier looks the inbox's connection up.
LEMMA TakeStep ==
  ASSUME ServerTypes, ServerInv, NEW x \in Messages, Take(x)
  PROVE  ServerTypes' /\ ServerInv' /\ ServerView
<1> DEFINE P == [pc : {"none", "stored", "taken", "missed", "done"}, to : Conns \union {NoConn}]
<1>1. /\ UNCHANGED <<reconnect, sdkVars, conn, wire, hub, hnd, unread, announced, ending>>
      /\ push \in [Messages -> P] /\ hub \in Conns \union {NoConn}
  BY DEF Take, ServerTypes
<1>2. /\ faults \in Nat /\ faults' \in 0..MaxFaults /\ faults' >= faults /\ faults' \in Nat
      /\ push' \in [Messages -> P] /\ \A m \in Messages \ {x} : push'[m] = push[m]
      /\ push'[x].pc = "taken" => push'[x].to \in Conns
      /\ \A c \in Conns : hub = c => Announcing(x, c)'
  <2>1. CASE /\ push' = [push EXCEPT ![x] = [pc |-> IF hub = NoConn THEN "done" ELSE "taken", to |-> hub]]
             /\ UNCHANGED faults
    <3>1. CASE hub = NoConn
      BY <1>1, <2>1, <3>1, SameFrames, ConnFacts
    <3>2. CASE hub # NoConn
      <4>1. push' = [push EXCEPT ![x] = [pc |-> "taken", to |-> hub]] /\ hub \in Conns
        BY <1>1, <2>1, <3>2
      <4> QED
        BY <1>1, <2>1, <4>1, SameFrames DEF Announcing
    <3> QED
      BY <3>1, <3>2
  <2>2. CASE push' = [push EXCEPT ![x].pc = "missed"] /\ Fault
    BY <1>1, <2>2, FaultFact DEF Announcing
  <2> QED
    BY <2>1, <2>2 DEF Take
<1>3. \A w \in Seq(Frames) : w \in Seq(Frames')
  BY <1>2, FramesGrow
<1>4. wire' \in [Conns -> Seq(Frames')]
  BY <1>1, <1>3 DEF ServerTypes
<1>5. ServerTypes' /\ ServerView
  BY <1>1, <1>2, <1>4 DEF ServerTypes, ServerView, ConnStep
<1>6. Dialed' /\ Registered' /\ Aimed'
  BY <1>1, <1>2 DEF ServerInv, Dialed, Registered, Superseded, Up, Aimed
<1>7. ASSUME NEW c \in Conns, hub = c, Up(c), NEW m \in unread PROVE Owed(c, m)'
  <2>1. CASE m = x
    BY <1>2, <1>7, <2>1 DEF Owed
  <2>2. CASE m # x
    <3>1. m \in Messages /\ Owed(c, m)
      BY <1>7 DEF ServerInv, Announced, ServerTypes
    <3> QED
      BY <1>1, <1>2, <2>2, <3>1, OwedStays
  <2> QED
    BY <2>1, <2>2
<1>8. Announced'
  BY <1>1, <1>7 DEF Announced, Up
<1>9. Paged'
  BY <1>1, PagedStays DEF ServerInv, Up
<1> QED
  BY <1>5, <1>6, <1>8, <1>9 DEF ServerInv

\* It writes to that connection.
LEMMA WriteStep ==
  ASSUME ServerTypes, ServerInv, NEW x \in Messages, Write(x)
  PROVE  ServerTypes' /\ ServerInv' /\ ServerView
<1> DEFINE o == push[x].to
<1>1. /\ push[x].pc = "taken" /\ Written(o, x) /\ push' = [push EXCEPT ![x] = [pc |-> "done", to |-> NoConn]]
      /\ UNCHANGED <<reconnect, sdkVars, conn, hub, hnd, unread, ending, faults>>
      /\ push \in [Messages -> [pc : {"none", "stored", "taken", "missed", "done"}, to : Conns \union {NoConn}]]
      /\ o \in Conns
  BY DEF Write, ServerTypes, ServerInv, Aimed
<1>2. /\ push' \in [Messages -> [pc : {"none", "stored", "taken", "missed", "done"}, to : Conns \union {NoConn}]]
      /\ push'[x].pc = "done" /\ \A m \in Messages \ {x} : push'[m] = push[m]
  BY <1>1
<1>3. /\ wire' \in [Conns -> Seq(Frames')] /\ announced' \in [Conns -> SUBSET Messages]
      /\ \A d \in Conns \ {o} : wire'[d] = wire[d] /\ announced'[d] = announced[d]
      /\ announced[o] \subseteq announced'[o]
      /\ Up(o) => x \in announced'[o]
      /\ ~Up(o) => wire' = wire
  BY <1>1, WrittenFact
<1>4. ServerTypes'
  BY <1>1, <1>2, <1>3, SameFrames DEF ServerTypes
<1>5. ASSUME NEW d \in Conns PROVE ConnStep(d)
  BY <1>1, <1>3 DEF ConnStep, Up
<1>6. ServerView
  BY <1>1, <1>5, SameFrames DEF ServerView
<1>7. Dialed' /\ Registered' /\ Aimed'
  BY <1>1, <1>2 DEF ServerInv, Dialed, Registered, Superseded, Up, Aimed
<1>8. ASSUME NEW c \in Conns, hub = c, Up(c), NEW m \in unread PROVE Owed(c, m)'
  <2>1. m \in Messages /\ Owed(c, m) /\ announced[c] \subseteq announced'[c]
    BY <1>3, <1>8 DEF ServerInv, Announced, ServerTypes
  <2>2. CASE m = x
    <3>1. CASE o = c
      BY <1>3, <1>8, <2>2, <3>1 DEF Owed
    <3>2. CASE o # c
      BY <1>1, <2>1, <2>2, <3>2 DEF Owed, Announcing
    <3> QED
      BY <3>1, <3>2
  <2>3. CASE m # x
    BY <1>1, <1>2, <2>1, <2>3, OwedStays
  <2> QED
    BY <2>2, <2>3
<1>9. Announced'
  BY <1>1, <1>8 DEF Announced, Up
<1>10. Paged'
  BY <1>1, <1>3, PagedStays DEF ServerInv, Up
<1> QED
  BY <1>4, <1>6, <1>7, <1>9, <1>10 DEF ServerInv

\* A connection goes down, and with it what its handler owes.
LEMMA GoesDown ==
  ASSUME ServerTypes, ServerInv, NEW c \in Conns, ~Up(c)', UNCHANGED <<unread, push>>,
         conn'[c] \notin {"none", "dialing"}, hub' = hub \/ (hub = c /\ hub' = NoConn),
         hnd'[c] = hnd[c] \/ (hnd[c].pc = "read" /\ hnd'[c].pc = "gone"),
         \A d \in Conns \ {c} : conn'[d] = conn[d] /\ hnd'[d] = hnd[d] /\ announced'[d] = announced[d]
  PROVE  ServerInv'
<1>1. \A d \in Conns : Up(d)' => d # c /\ Up(d)
  BY DEF Up
<1>2. \A d \in Conns : Superseded(d) => Superseded(d)'
  BY DEF Superseded
<1>3. Registered'
  BY <1>1, <1>2 DEF ServerInv, Registered
<1>4. Dialed' /\ Aimed'
  BY DEF ServerInv, Dialed, Aimed
<1>5. Announced'
  <2> SUFFICES ASSUME NEW d \in Conns, hub' = d, Up(d)', NEW m \in unread PROVE Owed(d, m)'
    BY DEF Announced
  <2>1. hub = d /\ Up(d) /\ d # c
    BY <1>1, ConnFacts
  <2>2. Owed(d, m) /\ m \in Messages
    BY <2>1 DEF ServerInv, Announced, ServerTypes
  <2> QED
    BY <2>1, <2>2, OwedStays
<1>6. Paged'
  <2>1. \A d \in Conns : hub' = d /\ Up(d)' => hub = d /\ Up(d) /\ hnd'[d] = hnd[d] /\ announced'[d] = announced[d]
    BY <1>1, ConnFacts
  <2> QED
    BY <2>1, PagedStays DEF ServerInv
<1> QED
  BY <1>3, <1>4, <1>5, <1>6 DEF ServerInv

\* Hub.Unregister.
LEMMA UnregisterStep ==
  ASSUME ServerTypes, ServerInv, NEW c \in Conns, Unregister(c)
  PROVE  ServerTypes' /\ ServerInv' /\ ServerView
<1> DEFINE r == [hnd[c] EXCEPT !.pc = "gone", !.drained = TRUE, !.page = {}, !.left = {}]
<1>1. /\ hnd[c].pc = "read" /\ conn[c] \in {"leaving", "closed", "over"} /\ Shut(c, 1000)
      /\ hub' = IF hub = c THEN NoConn ELSE hub
      /\ hnd' = [hnd EXCEPT ![c] = r]
      /\ announced' = [announced EXCEPT ![c] = {}]
      /\ UNCHANGED <<reconnect, sdkVars, unread, push, ending, faults>>
      /\ hnd \in [Conns -> Handlers] /\ announced \in [Conns -> SUBSET Messages]
  BY DEF Unregister, ServerTypes, Handlers
<1>2. r \in Handlers /\ r.pc = "gone"
  BY <1>1 DEF Handlers, HandlerPcs
<1> HIDE DEF r
<1>3. hnd' \in [Conns -> Handlers] /\ hnd'[c].pc = "gone" /\ \A d \in Conns \ {c} : hnd'[d] = hnd[d]
  BY <1>1, <1>2
<1>4. announced' \in [Conns -> SUBSET Messages] /\ \A d \in Conns \ {c} : announced'[d] = announced[d]
  BY <1>1
<1>5. /\ conn' \in [Conns -> ConnStates] /\ wire' \in [Conns -> Seq(Frames')]
      /\ \A d \in Conns \ {c} : conn'[d] = conn[d] /\ wire'[d] = wire[d]
      /\ conn'[c] = IF conn[c] \in {"open", "leaving"} THEN "closed" ELSE conn[c]
      /\ conn[c] \notin {"open", "leaving"} => wire' = wire
  BY <1>1, ShutFact, SameFrames, FrameKindsLater
<1>6. conn'[c] \in {"closed", "over"}
  BY <1>1, <1>5
<1>7. ServerTypes'
  BY <1>1, <1>3, <1>4, <1>5, SameFrames DEF ServerTypes, Handlers
<1>8. ASSUME NEW d \in Conns PROVE ConnStep(d)
  BY <1>1, <1>5 DEF ConnStep
<1>9. ServerView
  BY <1>1, <1>8, SameFrames DEF ServerView
<1>10. ~Up(c)'
  BY <1>6 DEF Up
<1> QED
  BY <1>1, <1>3, <1>4, <1>5, <1>6, <1>7, <1>9, <1>10, GoesDown

\* A rival client leaves.
LEMMA RivalLeavesStep ==
  ASSUME ServerTypes, ServerInv, NEW c \in Conns, RivalLeaves(c)
  PROVE  ServerTypes' /\ ServerInv' /\ ServerView
<1>1. /\ c[1] \notin Streams /\ conn[c] \in {"dialing", "open"} /\ conn' = [conn EXCEPT ![c] = "leaving"]
      /\ UNCHANGED <<reconnect, sdkVars, wire, srvVars, unread, announced, ending, faults>>
  BY ConnFacts DEF RivalLeaves
<1>2. conn' \in [Conns -> ConnStates] /\ conn'[c] = "leaving" /\ \A d \in Conns \ {c} : conn'[d] = conn[d]
  BY <1>1 DEF ServerTypes, ConnStates
<1>3. ServerTypes'
  BY <1>1, <1>2, SameFrames DEF ServerTypes, srvVars
<1>4. ServerView
  BY <1>1, <1>2, SameFrames DEF ServerView, ConnStep
<1>5. Dialed'
  BY <1>1, <1>2 DEF ServerInv, Dialed, srvVars
<1>6. \A d \in Conns : Up(d)' => Up(d)
  BY <1>1, <1>2 DEF Up, srvVars, ServerInv, Dialed
<1> QED
  BY <1>1, <1>3, <1>4, <1>5, <1>6, Fewer DEF ServerInv, srvVars

\* The network drops a connection.
LEMMA DropStep ==
  ASSUME ServerTypes, ServerInv, NEW c \in Conns, Drop(c)
  PROVE  ServerTypes' /\ ServerInv' /\ ServerView
<1>1. /\ conn[c] \in {"open", "leaving"} /\ Fault /\ conn' = [conn EXCEPT ![c] = "closed"]
      /\ wire' = IF c[1] \in Streams THEN [wire EXCEPT ![c] = <<CloseFrame(1006)>>] ELSE wire
      /\ UNCHANGED <<reconnect, sdkVars, srvVars, unread, announced, ending>>
  BY DEF Drop
<1>2. faults \in Nat /\ faults' \in 0..MaxFaults /\ faults' # 0 /\ faults' >= faults /\ faults' \in Nat
  BY <1>1, FaultFact
<1>3. CloseFrame(1006) \in Frames' /\ \A w \in Seq(Frames) : w \in Seq(Frames')
  BY <1>2, FramesGrow, FrameKindsLater
<1>4. wire \in [Conns -> Seq(Frames')] /\ <<CloseFrame(1006)>> \in Seq(Frames')
  BY <1>3 DEF ServerTypes
<1>5. wire' \in [Conns -> Seq(Frames')] /\ \A d \in Conns \ {c} : wire'[d] = wire[d]
  BY <1>1, <1>4
<1>6. conn' \in [Conns -> ConnStates] /\ conn'[c] = "closed" /\ \A d \in Conns \ {c} : conn'[d] = conn[d]
  BY <1>1 DEF ServerTypes, ConnStates
<1>7. ServerTypes'
  BY <1>1, <1>2, <1>5, <1>6 DEF ServerTypes, srvVars
<1>8. ServerView
  BY <1>1, <1>2, <1>5, <1>6 DEF ServerView, ConnStep
<1>9. ~Up(c)'
  BY <1>6 DEF Up
<1> QED
  BY <1>1, <1>6, <1>7, <1>8, <1>9, GoesDown DEF srvVars

\* The server goes away.
LEMMA GoingAwayStep ==
  ASSUME ServerTypes, ServerInv, NEW c \in Conns, GoingAway(c)
  PROVE  ServerTypes' /\ ServerInv' /\ ServerView
<1>1. /\ conn[c] = "open" /\ Fault /\ Shut(c, 1001) /\ hub' \in {hub, IF hub = c THEN NoConn ELSE hub}
      /\ UNCHANGED <<reconnect, sdkVars, hnd, unread, push, announced, ending>>
  BY DEF GoingAway
<1>2. faults \in Nat /\ faults' \in 0..MaxFaults /\ faults' # 0 /\ faults' >= faults /\ faults' \in Nat
  BY <1>1, FaultFact
<1>3. CloseFrame(1001) \in Frames' /\ \A w \in Seq(Frames) : w \in Seq(Frames')
  BY <1>2, FramesGrow, FrameKindsLater
<1>4. /\ conn' \in [Conns -> ConnStates] /\ wire' \in [Conns -> Seq(Frames')]
      /\ \A d \in Conns \ {c} : conn'[d] = conn[d] /\ wire'[d] = wire[d]
      /\ conn'[c] = "closed"
  BY <1>1, <1>3, ShutFact
<1>5. ServerTypes'
  BY <1>1, <1>2, <1>4 DEF ServerTypes
<1>6. ServerView
  BY <1>1, <1>2, <1>4 DEF ServerView, ConnStep
<1>7. ~Up(c)'
  BY <1>4 DEF Up
<1> QED
  BY <1>1, <1>4, <1>5, <1>6, <1>7, GoesDown

\* Every step of the server.
LEMMA ServerStep ==
  ASSUME ServerTypes, ServerInv, ServerNext
  PROVE  ServerTypes' /\ ServerInv' /\ ServerView
  BY RefuseStep, RegisterStep, EvictStep, DrainStep, DrainTakeStep, DrainWriteStep, UnregisterStep,
     RivalLeavesStep, DropStep, GoingAwayStep, StoreStep, TakeStep, WriteStep DEF ServerNext
-----------------------------------------------------------------------------
(* The streams under a step of the server.                                 *)

\* A step of the server keeps the invariant of every stream.
LEMMA StreamsUnderServer ==
  ASSUME StreamTypes, ServerTypes, ServerView, UNCHANGED cli, NEW s \in Streams, StreamInv(s)
  PROVE  StreamInv(s)'
<1> DEFINE c == Current(s)
<1>1. /\ UNCHANGED <<reconnect, lis, str, pull, ending, cli>> /\ faults \in Nat /\ faults' >= faults /\ faults' \in Nat
      /\ \A d \in Conns : d[1] \in Streams => ConnStep(d)
  BY DEF ServerView, sdkVars
<1>2. c \in Conns /\ c[1] = s /\ lis[s].dials \in 1..MaxDials /\ Current(s)' = c
  BY <1>1, CurrentFact DEF Current
<1>3. /\ conn'[c] = conn[c] \/ (conn[c] \in {"dialing", "open", "leaving"} /\ conn'[c] \in {"closed", "open"})
      /\ conn[c] = "leaving" => conn'[c] \in {"leaving", "closed"}
      /\ conn[c] \in {"none", "over"} => conn'[c] = conn[c] /\ wire'[c] = wire[c]
  BY <1>1, <1>2 DEF ConnStep
<1> HIDE DEF c
<1>4. Socket(s)'
  <2>1. \A n \in 1..MaxDials : n > lis[s].dials => conn'[<<s, n>>] = "none"
    <3> SUFFICES ASSUME NEW n \in 1..MaxDials, n > lis[s].dials PROVE conn'[<<s, n>>] = "none"
      OBVIOUS
    <3>1. <<s, n>> \in Conns /\ <<s, n>>[1] = s /\ conn[<<s, n>>] = "none"
      BY ConnFacts DEF StreamInv, Socket
    <3> QED
      BY <1>1, <3>1 DEF ConnStep
  <2>2. conn'[c] = "over" => wire'[c] = <<>>
    BY <1>3 DEF StreamInv, Socket, c
  <2> QED
    BY <1>1, <1>2, <2>1, <2>2 DEF Socket
<1>5. Closing(s)'
  BY <1>1, <1>2, <1>3 DEF StreamInv, Closing, c
<1>6. Pulling(s)' /\ Handling(s)' /\ Exiting(s)'
  BY <1>1 DEF StreamInv, Pulling, Handling, Exiting
<1>7. Surfacing(s)'
  BY <1>1, <1>2, <1>3 DEF StreamInv, Surfacing, Untouched, c
<1>8. Quiet(s)'
  BY <1>1 DEF StreamInv, Quiet
<1> QED
  BY <1>4, <1>5, <1>6, <1>7, <1>8 DEF StreamInv
-----------------------------------------------------------------------------
(* A step of one stream, its listener or its process.                      *)

Listeners == [closed : BOOLEAN, dials : 1..MaxDials, timer : BOOLEAN]
Iterators == [closed : BOOLEAN, buffer : Buffers, error : Nat]

\* It leaves the other streams alone.
Apart(s) ==
  \A t \in Streams \ {s} : lis'[t] = lis[t] /\ str'[t] = str[t] /\ pull'[t] = pull[t] /\ cli'[t] = cli[t] /\ ending'[t] = ending[t]

\* It takes its own connections down, or dials a new one, and takes frames off
\* its own wire.
OwnConns(s) ==
  /\ conn' \in [Conns -> ConnStates] /\ wire' \in [Conns -> Seq(Frames)]
  /\ \A c \in Conns : c[1] # s => conn'[c] = conn[c] /\ wire'[c] = wire[c]
  /\ \A c \in Conns : \/ conn'[c] = conn[c]
                      \/ conn'[c] = "over"
                      \/ conn[c] \in {"dialing", "open"} /\ conn'[c] = "leaving"
                      \/ conn[c] = "none" /\ conn'[c] = "dialing"

\* It may fetch messages, and changes nothing else at the server.
ServerStill == UNCHANGED <<reconnect, hub, hnd, push, announced, faults>> /\ unread' \subseteq unread

ClientView(s) == Apart(s) /\ OwnConns(s) /\ ServerStill

\* A step of a client keeps the invariant of the server.
LEMMA ServerUnderClient ==
  ASSUME ServerTypes, ServerInv, NEW s \in Streams, ClientView(s)
  PROVE  ServerTypes' /\ ServerInv'
<1>1. /\ UNCHANGED <<reconnect, hub, hnd, push, announced, faults>> /\ unread' \subseteq unread
      /\ conn' \in [Conns -> ConnStates] /\ wire' \in [Conns -> Seq(Frames)]
      /\ \A c \in Conns : \/ conn'[c] = conn[c]
                          \/ conn'[c] = "over"
                          \/ conn[c] \in {"dialing", "open"} /\ conn'[c] = "leaving"
                          \/ conn[c] = "none" /\ conn'[c] = "dialing"
  BY DEF ClientView, OwnConns, ServerStill
<1>2. Frames' = Frames
  BY <1>1, SameFrames
<1>3. wire' \in [Conns -> Seq(Frames')]
  BY <1>1, <1>2
<1>4. ServerTypes'
  BY <1>1, <1>3 DEF ServerTypes
<1>5. Dialed'
  BY <1>1 DEF ServerInv, Dialed
<1>6. \A c \in Conns : Up(c)' => Up(c)
  BY <1>1 DEF ServerInv, Dialed, Up
<1> QED
  BY <1>1, <1>4, <1>5, <1>6, Fewer DEF ServerInv

\* A step of a client keeps the invariant of the other streams.
LEMMA OthersUnderClient ==
  ASSUME StreamTypes, NEW s \in Streams, ClientView(s), NEW t \in Streams \ {s}, StreamInv(t)
  PROVE  StreamInv(t)'
<1>1. /\ lis'[t] = lis[t] /\ str'[t] = str[t] /\ pull'[t] = pull[t] /\ cli'[t] = cli[t] /\ ending'[t] = ending[t]
      /\ faults' = faults
      /\ \A c \in Conns : c[1] # s => conn'[c] = conn[c] /\ wire'[c] = wire[c]
  BY DEF ClientView, Apart, OwnConns, ServerStill
<1>2. Current(t) \in Conns /\ Current(t)[1] = t /\ Current(t)' = Current(t)
  BY <1>1, CurrentFact DEF Current
<1>3. conn'[Current(t)] = conn[Current(t)] /\ wire'[Current(t)] = wire[Current(t)]
  BY <1>1, <1>2
<1>4. Socket(t)'
  <2>1. \A n \in 1..MaxDials : conn'[<<t, n>>] = conn[<<t, n>>]
    BY <1>1, ConnFacts
  <2> QED
    BY <1>1, <1>2, <1>3, <2>1 DEF StreamInv, Socket
<1>5. Closing(t)'
  BY <1>1, <1>2, <1>3 DEF StreamInv, Closing
<1>6. Pulling(t)' /\ Handling(t)' /\ Exiting(t)' /\ Quiet(t)'
  BY <1>1 DEF StreamInv, Pulling, Handling, Exiting, Quiet
<1>7. Surfacing(t)'
  BY <1>1, <1>2, <1>3 DEF StreamInv, Surfacing, Untouched
<1> QED
  BY <1>4, <1>5, <1>6, <1>7 DEF StreamInv

\* So it preserves the invariant if it does for its own stream.
LEMMA ClientStep ==
  ASSUME Inv, NEW s \in Streams, StreamTypes', ClientView(s), StreamInv(s)'
  PROVE  Inv'
  BY ServerUnderClient, OthersUnderClient DEF Inv

\* What the invariant says of one stream.
LEMMA StreamFacts ==
  ASSUME Inv, NEW s \in Streams
  PROVE  /\ lis \in [Streams -> Listeners] /\ str \in [Streams -> Iterators] /\ pull \in [Streams -> Pulls]
         /\ cli \in [Streams -> Processes] /\ ending \in [Streams -> Nat] /\ reconnect \in [Streams -> BOOLEAN]
         /\ lis[s] \in Listeners /\ str[s] \in Iterators /\ pull[s] \in Pulls /\ cli[s] \in Processes /\ ending[s] \in Nat
         /\ Current(s) \in Conns /\ Current(s)[1] = s
         /\ conn \in [Conns -> ConnStates] /\ wire \in [Conns -> Seq(Frames)]
         /\ Socket(s) /\ Closing(s) /\ Pulling(s) /\ Surfacing(s) /\ Handling(s) /\ Exiting(s) /\ Quiet(s)
  BY CurrentFact DEF Inv, StreamInv, StreamTypes, ServerTypes, Listeners, Iterators

\* The answers of an iterator are told apart.
LEMMA PullFacts ==
  /\ Idle \in Pulls /\ Waiting \in Pulls /\ Done \in Pulls
  /\ \A m \in Messages : Event(m) \in Pulls
  /\ \A n \in Nat : Failure(n) \in Pulls
  /\ Idle.kind = "idle" /\ Waiting.kind = "waiting" /\ Done.kind = "done"
  /\ \A m : Event(m).kind = "event" /\ Event(m).msg = m
  /\ \A n : Failure(n).kind = "error" /\ Failure(n).code = n
  BY DEF Idle, Waiting, Done, Event, Failure, Pulls

\* The loop goes on to its next pull.
LEMMA LoopOn ==
  ASSUME Inv, NEW s \in Streams, Continue(s), UNCHANGED <<wire, ending>>, ServerStill,
         pull[s].kind = "event", cli[s].pc # "exit",
         NEW k \in Processes, cli' = [cli EXCEPT ![s] = k], k.pc = "loop",
         k.opts = cli[s].opts, k.matched = cli[s].matched, k.timedOut = cli[s].timedOut,
         k.forwardFailed = cli[s].forwardFailed, k.forwarded = cli[s].forwarded, k.exit = cli[s].exit
  PROVE  Inv'
<1>1. UNCHANGED <<lis, str, conn>> /\ pull' = [pull EXCEPT ![s] = Idle] /\ faults' = faults /\ reconnect' = reconnect
  BY DEF Continue, ServerStill
<1>2. pull' \in [Streams -> Pulls] /\ pull'[s] = Idle /\ \A t \in Streams \ {s} : pull'[t] = pull[t]
  BY <1>1, StreamFacts, PullFacts
<1>3. cli' \in [Streams -> Processes] /\ cli'[s] = k /\ \A t \in Streams \ {s} : cli'[t] = cli[t]
  BY StreamFacts
<1>4. StreamTypes'
  BY <1>1, <1>2, <1>3 DEF Inv, StreamTypes
<1>5. ClientView(s)
  BY <1>1, <1>2, <1>3, StreamFacts DEF ClientView, Apart, OwnConns
<1>6. Current(s)' = Current(s)
  BY <1>1 DEF Current
<1>7. Socket(s)' /\ Closing(s)'
  BY <1>1, <1>3, <1>6, StreamFacts DEF Socket, Closing
<1>8. Pulling(s)'
  BY <1>1, <1>2, <1>3, PullFacts DEF Pulling
<1>9. Surfacing(s)'
  <2>1. Surfacing(s) /\ (Untouched(s)' <=> Untouched(s))
    BY <1>3, StreamFacts DEF Untouched
  <2>2. pull'[s].kind = "idle" /\ ending' = ending /\ str' = str /\ conn' = conn
    BY <1>1, <1>2, PullFacts
  <2> QED
    BY <1>6, <2>1, <2>2 DEF Surfacing
<1>10. Handling(s)' /\ Exiting(s)' /\ Quiet(s)'
  BY <1>1, <1>3, StreamFacts DEF Handling, Exiting, Quiet
<1> QED
  BY <1>4, <1>5, <1>7, <1>8, <1>9, <1>10, ClientStep DEF StreamInv

\* The process goes on with the message of its pull.
LEMMA GoesOn ==
  ASSUME Inv, NEW s \in Streams, UNCHANGED <<pull, lis, str, conn, wire, ending>>, ServerStill,
         pull[s].kind = "event", cli[s].pc # "exit",
         NEW k \in Processes, cli' = [cli EXCEPT ![s] = k], k.pc \in {"handle", "print"},
         k.opts = cli[s].opts, k.matched = cli[s].matched, k.timedOut = cli[s].timedOut, k.exit = cli[s].exit,
         cli[s].forwardFailed => k.forwardFailed, cli[s].forwarded \subseteq k.forwarded,
         k.pc = "handle" => pull[s].msg \in Matching,
         k.pc = "print" => /\ k.opts.conversation => pull[s].msg \in Matching
                           /\ pull[s].msg \in k.forwarded \/ k.forwardFailed
  PROVE  Inv'
<1>1. faults' = faults /\ reconnect' = reconnect
  BY DEF ServerStill
<1>3. cli' \in [Streams -> Processes] /\ cli'[s] = k /\ \A t \in Streams \ {s} : cli'[t] = cli[t]
  BY StreamFacts
<1>4. StreamTypes'
  BY <1>1, <1>3 DEF Inv, StreamTypes
<1>5. ClientView(s)
  BY <1>1, <1>3, StreamFacts DEF ClientView, Apart, OwnConns
<1>6. Current(s)' = Current(s)
  BY DEF Current
<1>7. Socket(s)' /\ Closing(s)'
  BY <1>3, <1>6, StreamFacts DEF Socket, Closing
<1>8. Pulling(s)'
  BY <1>3, StreamFacts DEF Pulling
<1>9. Surfacing(s)'
  BY <1>3, <1>6, StreamFacts DEF Surfacing, Untouched
<1>10. Handling(s)'
  BY <1>3, StreamFacts DEF Handling
<1>11. Quiet(s)'
  BY <1>1, StreamFacts DEF Quiet
<1>12. Exiting(s)'
  <2>1. Exiting(s) /\ k.pc # "exit" /\ cli[s].exit = NoExit
    BY StreamFacts DEF Exiting
  <2> QED
    BY <1>3, <2>1 DEF Exiting, EXIT, NoExit
<1> QED
  BY <1>4, <1>5, <1>7, <1>8, <1>9, <1>10, <1>11, <1>12, ClientStep DEF StreamInv

\* The process closes its stream, at a match or at its deadline.
LEMMA CloseStep ==
  ASSUME Inv, NEW s \in Streams, NEW a \in Pulls, Close(s, a), a.kind \in {"idle", "event", "done", "error"},
         a.kind = "event" => a.msg \in Messages,
         UNCHANGED <<wire, ending>>, ServerStill, cli[s].pc # "exit",
         NEW k \in Processes, cli' = [cli EXCEPT ![s] = k], k.pc # "exit",
         k.pc \in {"handle", "print"} => a = pull[s] /\ k.pc = cli[s].pc,
         k.opts = cli[s].opts, k.exit = cli[s].exit,
         k.forwardFailed = cli[s].forwardFailed, k.forwarded = cli[s].forwarded,
         k.timedOut \/ k.matched # NoMsg,
         k.timedOut => k.opts.until,
         k.matched # NoMsg =>
           /\ k.opts.once
           /\ k.opts.conversation => k.matched \in Matching
           /\ k.opts.forward => k.matched \in k.forwarded \/ k.forwardFailed
  PROVE  Inv'
<1> DEFINE c == Current(s)
<1>1. /\ str' = [str EXCEPT ![s].closed = TRUE, ![s].error = NoError]
      /\ lis' = [lis EXCEPT ![s].closed = TRUE, ![s].timer = FALSE]
      /\ pull' = [pull EXCEPT ![s] = a]
      /\ conn' = [conn EXCEPT ![c] = IF conn[c] \in {"dialing", "open"} THEN "leaving" ELSE conn[c]]
      /\ faults' = faults /\ reconnect' = reconnect
  BY DEF Close, ServerStill
<1>2. c \in Conns /\ c[1] = s /\ conn \in [Conns -> ConnStates]
  BY StreamFacts
<1>3. /\ str' \in [Streams -> Iterators] /\ str'[s].closed /\ str'[s].error = 0 /\ str'[s].buffer = str[s].buffer
      /\ \A t \in Streams \ {s} : str'[t] = str[t]
  <2>1. str \in [Streams -> Iterators]
    BY StreamFacts
  <2> QED
    BY <1>1, <2>1 DEF Iterators, NoError
<1>4. /\ lis' \in [Streams -> Listeners] /\ lis'[s].closed /\ ~lis'[s].timer /\ lis'[s].dials = lis[s].dials
      /\ \A t \in Streams \ {s} : lis'[t] = lis[t]
  <2>1. lis \in [Streams -> Listeners]
    BY StreamFacts
  <2> QED
    BY <1>1, <2>1 DEF Listeners
<1>5. pull' \in [Streams -> Pulls] /\ pull'[s] = a /\ \A t \in Streams \ {s} : pull'[t] = pull[t]
  BY <1>1, StreamFacts
<1>6. cli' \in [Streams -> Processes] /\ cli'[s] = k /\ \A t \in Streams \ {s} : cli'[t] = cli[t]
  BY StreamFacts
<1> HIDE DEF c
<1>7. /\ conn' \in [Conns -> ConnStates] /\ \A d \in Conns \ {c} : conn'[d] = conn[d]
      /\ conn'[c] = IF conn[c] \in {"dialing", "open"} THEN "leaving" ELSE conn[c]
  BY <1>1, <1>2 DEF ConnStates
<1>8. StreamTypes'
  BY <1>1, <1>3, <1>4, <1>5, <1>6 DEF Inv, StreamTypes, Listeners, Iterators
<1>9. OwnConns(s)
  BY <1>2, <1>7, StreamFacts DEF OwnConns
<1>10. ClientView(s)
  BY <1>3, <1>4, <1>5, <1>6, <1>9 DEF ClientView, Apart
<1>11. Current(s)' = c
  BY <1>4 DEF Current, c
<1>12. Socket(s)'
  <2>1. Socket(s)
    BY StreamFacts
  <2>2. \A n \in 1..MaxDials : conn[<<s, n>>] = "none" => conn'[<<s, n>>] = "none"
    BY <1>7, ConnFacts
  <2>3. conn'[c] = "over" => conn[c] = "over"
    BY <1>7
  <2> QED
    BY <1>4, <1>11, <2>1, <2>2, <2>3 DEF Socket, c
<1>13. Closing(s)'
  BY <1>3, <1>4 DEF Closing
<1>14. Pulling(s)'
  <2>1. Pulling(s)
    BY StreamFacts
  <2> QED
    BY <1>3, <1>5, <1>6, <2>1, PullFacts DEF Pulling
<1>15. Surfacing(s)'
  BY <1>6 DEF Surfacing, Untouched
<1>16. Handling(s)'
  <2>1. Handling(s)
    BY StreamFacts
  <2> QED
    BY <1>5, <1>6, <2>1 DEF Handling
<1>17. Exiting(s)'
  <2>1. Exiting(s) /\ cli[s].exit = NoExit
    BY StreamFacts DEF Exiting
  <2> QED
    BY <1>6, <2>1 DEF Exiting, EXIT, NoExit
<1>18. Quiet(s)'
  BY <1>1, <1>4, StreamFacts DEF Quiet
<1> QED
  BY <1>8, <1>10, <1>12, <1>13, <1>14, <1>15, <1>16, <1>17, <1>18, ClientStep DEF StreamInv

\* The process ends.
LEMMA ExitStep ==
  ASSUME Inv, NEW s \in Streams, NEW code \in ExitCodes \ {99}, Exit(s, code), cli[s].pc # "exit",
         code = EXIT.ERROR => cli[s].matched # NoMsg \/ ending[s] # WS_CLOSE_REPLACED,
         code = EXIT.OK => cli[s].matched # NoMsg /\ ~cli[s].forwardFailed
  PROVE  Inv'
<1> DEFINE c == Current(s)
<1>1. /\ cli' = [cli EXCEPT ![s].pc = "exit", ![s].exit = code]
      /\ lis' = [lis EXCEPT ![s].closed = TRUE, ![s].timer = FALSE]
      /\ str' = [str EXCEPT ![s] = [closed |-> TRUE, buffer |-> <<>>, error |-> NoError]]
      /\ pull' = [pull EXCEPT ![s] = Idle]
      /\ conn' = [conn EXCEPT ![c] = IF hnd[c].pc = "none" /\ conn[c] = "dialing" THEN "leaving" ELSE "over"]
      /\ wire' = [wire EXCEPT ![c] = <<>>]
      /\ UNCHANGED <<reconnect, hub, hnd, push, unread, announced, ending, faults>>
  BY DEF Exit, srvVars
<1>2. c \in Conns /\ c[1] = s /\ conn \in [Conns -> ConnStates] /\ wire \in [Conns -> Seq(Frames)]
  BY StreamFacts
<1>3. /\ str' \in [Streams -> Iterators] /\ str'[s].closed /\ str'[s].buffer = <<>>
      /\ \A t \in Streams \ {s} : str'[t] = str[t]
  <2>1. str \in [Streams -> Iterators] /\ <<>> \in Buffers
    BY StreamFacts, ConnFacts DEF Buffers
  <2> QED
    BY <1>1, <2>1 DEF Iterators, NoError
<1>4. /\ lis' \in [Streams -> Listeners] /\ lis'[s].closed /\ ~lis'[s].timer /\ lis'[s].dials = lis[s].dials
      /\ \A t \in Streams \ {s} : lis'[t] = lis[t]
  <2>1. lis \in [Streams -> Listeners]
    BY StreamFacts
  <2> QED
    BY <1>1, <2>1 DEF Listeners
<1>5. pull' \in [Streams -> Pulls] /\ pull'[s] = Idle /\ \A t \in Streams \ {s} : pull'[t] = pull[t]
  BY <1>1, StreamFacts, PullFacts
<1>6. /\ cli' \in [Streams -> Processes] /\ \A t \in Streams \ {s} : cli'[t] = cli[t]
      /\ cli'[s].pc = "exit" /\ cli'[s].exit = code /\ cli'[s].opts = cli[s].opts /\ cli'[s].matched = cli[s].matched
      /\ cli'[s].timedOut = cli[s].timedOut /\ cli'[s].forwardFailed = cli[s].forwardFailed
      /\ cli'[s].forwarded = cli[s].forwarded
  <2>1. cli \in [Streams -> Processes] /\ cli[s] \in Processes
    BY StreamFacts
  <2> DEFINE q == [cli[s] EXCEPT !.pc = "exit", !.exit = code]
  <2>2. cli' = [cli EXCEPT ![s] = q]
    BY <1>1, <2>1
  <2>3. q \in Processes
    BY <2>1 DEF Processes
  <2>4. /\ q.pc = "exit" /\ q.exit = code /\ q.opts = cli[s].opts /\ q.matched = cli[s].matched
        /\ q.timedOut = cli[s].timedOut /\ q.forwardFailed = cli[s].forwardFailed /\ q.forwarded = cli[s].forwarded
    BY <2>1 DEF Processes
  <2> HIDE DEF q
  <2>5. cli' \in [Streams -> Processes] /\ cli'[s] = q /\ \A t \in Streams \ {s} : cli'[t] = cli[t]
    BY <2>1, <2>2, <2>3
  <2> QED
    BY <2>4, <2>5
<1> HIDE DEF c
<1>7. /\ conn' \in [Conns -> ConnStates] /\ \A d \in Conns \ {c} : conn'[d] = conn[d]
      /\ conn'[c] = IF hnd[c].pc = "none" /\ conn[c] = "dialing" THEN "leaving" ELSE "over"
  BY <1>1, <1>2 DEF ConnStates
<1>8. wire' \in [Conns -> Seq(Frames)] /\ wire'[c] = <<>> /\ \A d \in Conns \ {c} : wire'[d] = wire[d]
  BY <1>1, <1>2
<1>9. StreamTypes'
  BY <1>1, <1>3, <1>4, <1>5, <1>6 DEF Inv, StreamTypes, Listeners, Iterators
<1>10. OwnConns(s)
  BY <1>2, <1>7, <1>8 DEF OwnConns
<1>11. ClientView(s)
  BY <1>1, <1>3, <1>4, <1>5, <1>6, <1>10 DEF ClientView, Apart, ServerStill
<1>12. Current(s)' = c
  BY <1>4 DEF Current, c
<1>13. Socket(s)'
  <2>1. \A n \in 1..MaxDials : n > lis[s].dials => conn[<<s, n>>] = "none" /\ <<s, n>> # c /\ <<s, n>> \in Conns
    <3>1. lis[s].dials \in Nat /\ Socket(s)
      BY StreamFacts, ConnFacts DEF Listeners
    <3>2. ASSUME NEW n \in 1..MaxDials, n > lis[s].dials PROVE <<s, n>> # <<s, lis[s].dials>>
      BY <3>1, <3>2
    <3> QED
      BY <3>1, <3>2, ConnFacts DEF Socket, c, Current
  <2> QED
    BY <1>4, <1>7, <1>8, <1>12, <2>1 DEF Socket
<1>14. Closing(s)'
  BY <1>3, <1>4 DEF Closing
<1>15. Pulling(s)'
  BY <1>3, <1>5, <1>6, PullFacts DEF Pulling
<1>16. Surfacing(s)'
  BY <1>6 DEF Surfacing, Untouched
<1>17. Handling(s)'
  <2>1. Handling(s)
    BY StreamFacts
  <2> QED
    BY <1>6, <2>1 DEF Handling
<1>18. Exiting(s)'
  BY <1>1, <1>6 DEF Exiting, NoExit
<1>19. Quiet(s)'
  BY <1>1, <1>4, StreamFacts DEF Quiet
<1> QED
  BY <1>9, <1>11, <1>13, <1>14, <1>15, <1>16, <1>17, <1>18, <1>19, ClientStep DEF StreamInv

\* A message is on hand wherever the loop works on one.
LEMMA OnHand ==
  ASSUME Inv, NEW s \in Streams, Selected(s) \/ cli[s].pc = "print"
  PROVE  /\ pull[s].kind = "event" /\ pull[s].msg \in Messages /\ cli[s].pc # "exit"
         /\ cli[s].opts.conversation => pull[s].msg \in Matching
<1>1. Pulling(s) /\ Handling(s)
  BY StreamFacts
<1> QED
  BY <1>1 DEF Selected, Pulling, Handling

\* A message outside the conversation is skipped.
LEMMA InConversationStep ==
  ASSUME Inv, NEW s \in Streams, InConversation(s)
  PROVE  Inv'
<1>1. /\ cli[s].pc = "loop" /\ pull[s].kind = "event" /\ UNCHANGED <<wire, ending>> /\ ServerStill
      /\ cli[s] \in Processes /\ cli \in [Streams -> Processes]
  BY StreamFacts DEF InConversation, Keep, ServerStill, srvVars
<1>2. CASE Subject(s) \in Matching /\ Set(s, [cli[s] EXCEPT !.pc = "handle"]) /\ UNCHANGED <<pull, lis, str, conn>>
  <2> DEFINE k == [cli[s] EXCEPT !.pc = "handle"]
  <2>1. /\ k \in Processes /\ k.pc = "handle" /\ k.opts = cli[s].opts /\ k.matched = cli[s].matched
        /\ k.timedOut = cli[s].timedOut /\ k.exit = cli[s].exit
        /\ k.forwardFailed = cli[s].forwardFailed /\ k.forwarded = cli[s].forwarded
    BY <1>1 DEF Processes
  <2>2. cli' = [cli EXCEPT ![s] = k]
    BY <1>2 DEF Set
  <2> HIDE DEF k
  <2> QED
    BY <1>1, <1>2, <2>1, <2>2, GoesOn DEF Subject
<1>3. CASE Continue(s) /\ UNCHANGED cli
  <2>1. cli' = [cli EXCEPT ![s] = cli[s]]
    BY <1>1, <1>3
  <2> QED
    BY <1>1, <1>3, <2>1, LoopOn
<1> QED
  BY <1>2, <1>3 DEF InConversation

\* A handled event returns to the loop.
LEMMA BackToLoop ==
  ASSUME Inv, NEW s \in Streams, Continue(s), UNCHANGED <<wire, ending>>, ServerStill,
         pull[s].kind = "event", cli[s].pc # "exit", Set(s, [cli[s] EXCEPT !.pc = "loop"])
  PROVE  Inv'
<1> DEFINE k == [cli[s] EXCEPT !.pc = "loop"]
<1>1. /\ k \in Processes /\ k.pc = "loop" /\ k.opts = cli[s].opts /\ k.matched = cli[s].matched
      /\ k.timedOut = cli[s].timedOut /\ k.exit = cli[s].exit
      /\ k.forwardFailed = cli[s].forwardFailed /\ k.forwarded = cli[s].forwarded
  <2>1. cli[s] \in Processes
    BY StreamFacts
  <2> QED
    BY <2>1 DEF Processes
<1>2. cli' = [cli EXCEPT ![s] = k]
  BY DEF Set
<1> HIDE DEF k
<1> QED
  BY <1>1, <1>2, LoopOn

\* forwardMessage.
LEMMA ForwardMessageStep ==
  ASSUME Inv, NEW s \in Streams, ForwardMessage(s)
  PROVE  Inv'
<1>1. /\ pull[s].kind = "event" /\ pull[s].msg \in Messages /\ cli[s].pc # "exit"
      /\ cli[s].opts.conversation => pull[s].msg \in Matching
      /\ UNCHANGED <<wire, ending, reconnect, hub, hnd, push, announced, faults>>
      /\ cli[s] \in Processes /\ cli \in [Streams -> Processes]
  BY OnHand, StreamFacts DEF ForwardMessage, Keep, srvVars
<1>2. CASE Continue(s) /\ Set(s, [cli[s] EXCEPT !.pc = "loop"]) /\ UNCHANGED unread
  BY <1>1, <1>2, BackToLoop DEF ServerStill
<1>3. CASE /\ unread' = unread \ {Subject(s)}
           /\ \E ok \in BOOLEAN :
                Set(s, [cli[s] EXCEPT !.pc = "print", !.forwardFailed = @ \/ ~ok,
                                      !.forwarded = IF ok THEN @ \union {Subject(s)} ELSE @])
           /\ UNCHANGED <<pull, lis, str, conn>>
  <2>1. PICK ok \in BOOLEAN :
          Set(s, [cli[s] EXCEPT !.pc = "print", !.forwardFailed = @ \/ ~ok,
                                !.forwarded = IF ok THEN @ \union {Subject(s)} ELSE @])
    BY <1>3
  <2> DEFINE k == [cli[s] EXCEPT !.pc = "print", !.forwardFailed = @ \/ ~ok,
                                 !.forwarded = IF ok THEN @ \union {Subject(s)} ELSE @]
  <2>2. /\ k \in Processes /\ k.pc = "print" /\ k.opts = cli[s].opts /\ k.matched = cli[s].matched
        /\ k.timedOut = cli[s].timedOut /\ k.exit = cli[s].exit
        /\ k.forwardFailed = (cli[s].forwardFailed \/ ~ok)
        /\ k.forwarded = IF ok THEN cli[s].forwarded \union {pull[s].msg} ELSE cli[s].forwarded
    BY <1>1, <2>1 DEF Processes, Subject
  <2>3. cli' = [cli EXCEPT ![s] = k]
    BY <2>1 DEF Set
  <2> HIDE DEF k
  <2>4. /\ cli[s].forwardFailed => k.forwardFailed
        /\ cli[s].forwarded \subseteq k.forwarded
        /\ pull[s].msg \in k.forwarded \/ k.forwardFailed
    BY <2>1, <2>2
  <2>5. ServerStill
    BY <1>1, <1>3 DEF ServerStill
  <2> QED
    BY <1>1, <1>3, <2>2, <2>3, <2>4, <2>5, GoesOn
<1> QED
  BY <1>2, <1>3 DEF ForwardMessage

\* A message is rendered.
LEMMA RenderStep ==
  ASSUME Inv, NEW s \in Streams, Render(s)
  PROVE  Inv'
<1>1. /\ pull[s].kind = "event" /\ pull[s].msg \in Messages /\ cli[s].pc # "exit"
      /\ cli[s].opts.conversation => pull[s].msg \in Matching
      /\ UNCHANGED <<wire, ending, reconnect, hub, hnd, push, announced, faults>>
      /\ cli[s] \in Processes /\ cli \in [Streams -> Processes]
  BY OnHand, StreamFacts DEF Render, Keep, srvVars
<1>2. CASE Continue(s) /\ Set(s, [cli[s] EXCEPT !.pc = "loop"]) /\ unread' \subseteq unread
  BY <1>1, <1>2, BackToLoop DEF ServerStill
<1>3. CASE /\ unread' \subseteq unread /\ cli[s].opts.once /\ Break(s)
           /\ Set(s, [cli[s] EXCEPT !.pc = "loop", !.matched = Subject(s)])
  <2> DEFINE x == Subject(s)
             k == [cli[s] EXCEPT !.pc = "loop", !.matched = x]
  <2>1. x \in Messages /\ x = pull[s].msg /\ x # NoMsg
    BY <1>1, NoMsgAssumption DEF Subject
  <2>2. cli' = [cli EXCEPT ![s] = k]
    BY <1>3 DEF Set
  <2> HIDE DEF x
  <2>3. /\ k \in Processes /\ k.pc = "loop" /\ k.opts = cli[s].opts /\ k.matched = x
        /\ k.timedOut = cli[s].timedOut /\ k.exit = cli[s].exit
        /\ k.forwardFailed = cli[s].forwardFailed /\ k.forwarded = cli[s].forwarded
    BY <1>1, <2>1 DEF Processes
  <2> HIDE DEF k
  <2>4. /\ cli[s].opts.forward => x \in cli[s].forwarded \/ cli[s].forwardFailed
        /\ cli[s].timedOut => cli[s].opts.until
    <3>1. Handling(s) /\ (cli[s].pc = "print" \/ ~cli[s].opts.forward)
      BY StreamFacts DEF Render
    <3> QED
      BY <2>1, <3>1 DEF Handling
  <2>5. Close(s, Done) /\ ServerStill
    BY <1>1, <1>3 DEF Break, ServerStill
  <2> QED
    BY <1>1, <1>3, <2>1, <2>2, <2>3, <2>4, <2>5, CloseStep, PullFacts
<1>4. \/ Continue(s) /\ Set(s, [cli[s] EXCEPT !.pc = "loop"]) /\ unread' \subseteq unread
      \/ /\ unread' \subseteq unread /\ cli[s].opts.once /\ Break(s)
         /\ Set(s, [cli[s] EXCEPT !.pc = "loop", !.matched = Subject(s)])
  <2>1. \/ Continue(s) /\ Set(s, [cli[s] EXCEPT !.pc = "loop"]) /\ UNCHANGED unread
        \/ /\ unread' \in {unread, unread \ {Subject(s)}}
           /\ IF cli[s].opts.once
              THEN Break(s) /\ Set(s, [cli[s] EXCEPT !.pc = "loop", !.matched = Subject(s)])
              ELSE Continue(s) /\ Set(s, [cli[s] EXCEPT !.pc = "loop"])
    BY DEF Render
  <2> QED
    BY <2>1
<1> QED
  BY <1>2, <1>3, <1>4

\* The deadline of --timeout.
LEMMA DeadlineStep ==
  ASSUME Inv, NEW s \in Streams, Deadline(s)
  PROVE  Inv'
<1> DEFINE k == [cli[s] EXCEPT !.timedOut = TRUE]
           a == IF pull[s] = Waiting THEN Done ELSE pull[s]
<1>1. /\ cli[s].opts.until /\ cli[s].pc \in {"loop", "handle", "print"} /\ cli' = [cli EXCEPT ![s] = k]
      /\ Close(s, a) /\ UNCHANGED <<wire, ending>> /\ ServerStill
      /\ cli[s] \in Processes /\ pull[s] \in Pulls
  BY StreamFacts DEF Deadline, Closed, Set, Keep, ServerStill, srvVars
<1>2. /\ k \in Processes /\ k.pc = cli[s].pc /\ k.opts = cli[s].opts /\ k.matched = cli[s].matched
      /\ k.timedOut /\ k.exit = cli[s].exit
      /\ k.forwardFailed = cli[s].forwardFailed /\ k.forwarded = cli[s].forwarded
  BY <1>1 DEF Processes
<1>3. Pulling(s) /\ Handling(s)
  BY StreamFacts
<1>4. /\ a \in Pulls /\ a.kind \in {"idle", "event", "done", "error"}
      /\ a.kind = "event" => a.msg \in Messages
      /\ cli[s].pc \in {"handle", "print"} => a = pull[s]
  <2>1. CASE pull[s] = Waiting
    BY <1>3, <2>1, PullFacts DEF Pulling
  <2>2. CASE pull[s] # Waiting
    <3>1. pull[s].kind \in {"idle", "waiting", "event", "done", "error"}
      BY <1>1 DEF Pulls
    <3> QED
      BY <1>1, <1>3, <2>2, <3>1 DEF Pulling
  <2> QED
    BY <2>1, <2>2
<1> HIDE DEF k, a
<1>5. k.matched # NoMsg =>
           /\ k.opts.once
           /\ k.opts.conversation => k.matched \in Matching
           /\ k.opts.forward => k.matched \in k.forwarded \/ k.forwardFailed
  BY <1>2, <1>3 DEF Handling
<1> QED
  BY <1>1, <1>2, <1>4, <1>5, CloseStep

\* The stream ends.
LEMMA LoopEndsStep ==
  ASSUME Inv, NEW s \in Streams, LoopEnds(s)
  PROVE  Inv'
<1> DEFINE code == ExitAfterLoop(cli[s])
<1>1. cli[s].pc = "loop" /\ pull[s].kind = "done" /\ Exit(s, code) /\ cli[s] \in Processes /\ ending[s] \in Nat
  BY StreamFacts DEF LoopEnds
<1>2. Handling(s) /\ Surfacing(s)
  BY StreamFacts
<1>3. /\ code \in ExitCodes \ {99}
      /\ code = EXIT.ERROR => cli[s].matched # NoMsg \/ ~cli[s].timedOut
      /\ code = EXIT.OK => cli[s].matched # NoMsg /\ ~cli[s].forwardFailed
  <2>1. /\ code \in {0, 1, 6}
        /\ code = 0 => cli[s].matched # NoMsg /\ ~cli[s].forwardFailed
    BY DEF ExitAfterLoop, EXIT
  <2>2. code = 1 => cli[s].matched # NoMsg \/ ~cli[s].timedOut \/ ~cli[s].opts.once
    BY DEF ExitAfterLoop, EXIT
  <2>3. cli[s].timedOut => cli[s].opts.once
    BY <1>1, <1>2 DEF Handling, Processes
  <2> QED
    BY <2>1, <2>2, <2>3 DEF ExitCodes, EXIT
<1>4. cli[s].matched = NoMsg /\ ~cli[s].timedOut => ending[s] # WS_CLOSE_REPLACED
  BY <1>1, <1>2 DEF Surfacing, Untouched, NoError, WS_CLOSE_REPLACED
<1> HIDE DEF code
<1> QED
  BY <1>1, <1>3, <1>4, ExitStep

\* The stream throws.
LEMMA LoopThrowsStep ==
  ASSUME Inv, NEW s \in Streams, LoopThrows(s)
  PROVE  Inv'
<1> DEFINE code == ExitAfterError(pull[s].code)
<1>1. cli[s].pc = "loop" /\ Exit(s, code)
  BY DEF LoopThrows
<1>2. code \in ExitCodes \ {99} /\ code # EXIT.OK /\ code # EXIT.ERROR
  BY DEF ExitAfterError, exitCodeForAPIError, EXIT, ExitCodes
<1> HIDE DEF code
<1> QED
  BY <1>1, <1>2, ExitStep

\* SIGINT.
LEMMA InterruptStep ==
  ASSUME Inv, NEW s \in Streams, Interrupt(s)
  PROVE  Inv'
<1>1. cli[s].pc # "exit" /\ Exit(s, INTERRUPTED)
  BY DEF Interrupt
<1>2. INTERRUPTED \in ExitCodes \ {99} /\ INTERRUPTED # EXIT.OK /\ INTERRUPTED # EXIT.ERROR
  BY DEF INTERRUPTED, EXIT, ExitCodes
<1> QED
  BY <1>1, <1>2, ExitStep

\* A step that changes the pull and the iterator, and may take a frame.
LEMMA PullStep ==
  ASSUME Inv, NEW s \in Streams, UNCHANGED <<lis, conn, cli, ending>>, ServerStill, cli[s].pc # "exit",
         wire' \in [Conns -> Seq(Frames)], \A c \in Conns : c # Current(s) \/ conn[c] = "over" => wire'[c] = wire[c],
         NEW p \in Pulls, pull' = [pull EXCEPT ![s] = p],
         NEW t \in Iterators, str' = [str EXCEPT ![s] = t], t.closed = str[s].closed,
         p = Waiting => ~t.closed /\ t.buffer = <<>>, p.kind = "waiting" => p = Waiting,
         p.kind = "event" => p.msg \in Messages, p.kind = "done" => t.closed,
         cli[s].pc \in {"handle", "print"} => p = pull[s],
         Untouched(s) /\ ending[s] # NoError => \/ t.error # NoError /\ p.kind \in {"idle", "event"}
                                                \/ p.kind = "error"
  PROVE  Inv'
<1>1. faults' = faults /\ reconnect' = reconnect
  BY DEF ServerStill
<1>2. pull' \in [Streams -> Pulls] /\ pull'[s] = p /\ \A x \in Streams \ {s} : pull'[x] = pull[x]
  BY StreamFacts
<1>3. str' \in [Streams -> Iterators] /\ str'[s] = t /\ \A x \in Streams \ {s} : str'[x] = str[x]
  BY StreamFacts
<1>4. StreamTypes'
  BY <1>1, <1>2, <1>3 DEF Inv, StreamTypes, Iterators
<1>5. Current(s) \in Conns /\ Current(s)[1] = s /\ Current(s)' = Current(s) /\ conn \in [Conns -> ConnStates]
  BY StreamFacts DEF Current
<1>6. ClientView(s)
  BY <1>2, <1>3, <1>5 DEF ClientView, Apart, OwnConns
<1>7. Socket(s)'
  <2>1. Socket(s)
    BY StreamFacts
  <2> QED
    BY <1>5, <2>1 DEF Socket
<1>8. Closing(s)'
  <2>1. Closing(s)
    BY StreamFacts
  <2> QED
    BY <1>3, <1>5, <2>1 DEF Closing
<1>9. Pulling(s)'
  <2>1. Pulling(s)
    BY StreamFacts
  <2> QED
    BY <1>2, <1>3, <2>1 DEF Pulling
<1>10. Surfacing(s)'
  <2>1. Surfacing(s)
    BY StreamFacts
  <2> QED
    BY <1>2, <1>3, <1>5, <2>1 DEF Surfacing, Untouched
<1>11. Handling(s)'
  <2>1. Handling(s)
    BY StreamFacts
  <2> QED
    BY <1>2, <2>1 DEF Handling
<1>12. Exiting(s)' /\ Quiet(s)'
  BY <1>1, StreamFacts DEF Exiting, Quiet
<1> QED
  BY <1>4, <1>6, <1>7, <1>8, <1>9, <1>10, <1>11, <1>12, ClientStep DEF StreamInv

\* The loop asks for the next event.
LEMMA PullAction ==
  ASSUME Inv, NEW s \in Streams, Pull(s)
  PROVE  Inv'
<1> DEFINE t == str[s]
<1>1. /\ cli[s].pc = "loop" /\ pull[s].kind = "idle" /\ UNCHANGED <<lis, conn, cli, ending, wire>> /\ ServerStill
      /\ str \in [Streams -> Iterators] /\ t \in Iterators /\ pull \in [Streams -> Pulls]
      /\ wire \in [Conns -> Seq(Frames)]
  BY StreamFacts DEF Pull, Next_, ServerStill, srvVars
<1>2. Surfacing(s)
  BY StreamFacts
<1>3. Untouched(s) /\ ending[s] # NoError => t.closed /\ t.error # NoError
  BY <1>1, <1>2 DEF Surfacing
<1>4. CASE /\ t.buffer # <<>>
           /\ pull' = [pull EXCEPT ![s] = Event(Head(t.buffer))]
           /\ str' = [str EXCEPT ![s].buffer = Tail(@)]
  <2> DEFINE b == Tail(t.buffer)
             r == [t EXCEPT !.buffer = b]
             m == Head(t.buffer)
  <2>1. str' = [str EXCEPT ![s] = r]
    BY <1>1, <1>4
  <2>2. b \in Buffers /\ m \in Messages
    <3>1. t.buffer \in Seq(Messages) /\ Len(t.buffer) <= MaxBuffered /\ MaxBuffered \in Nat
      BY <1>1, ConnFacts DEF Iterators, Buffers
    <3> QED
      BY <1>4, <3>1 DEF Buffers
  <2> HIDE DEF b, m
  <2>3. r \in Iterators /\ r.closed = t.closed /\ r.error = t.error
    BY <1>1, <2>2 DEF Iterators
  <2>4. pull' = [pull EXCEPT ![s] = Event(m)]
    BY <1>4 DEF m
  <2>5. Event(m) \in Pulls /\ Event(m).kind = "event" /\ Event(m).msg = m /\ Event(m) # Waiting
    BY <2>2, PullFacts
  <2> HIDE DEF r
  <2> QED
    BY <1>1, <1>3, <2>1, <2>2, <2>3, <2>4, <2>5, PullStep
<1>5. CASE /\ t.buffer = <<>> /\ t.error # NoError
           /\ pull' = [pull EXCEPT ![s] = Failure(t.error)]
           /\ str' = [str EXCEPT ![s].error = NoError]
  <2> DEFINE r == [t EXCEPT !.error = NoError]
             n == t.error
  <2>1. str' = [str EXCEPT ![s] = r]
    BY <1>1, <1>5
  <2>2. r \in Iterators /\ r.closed = t.closed /\ n \in Nat
    BY <1>1 DEF Iterators, NoError
  <2>3. pull' = [pull EXCEPT ![s] = Failure(n)] /\ Failure(n) \in Pulls /\ Failure(n).kind = "error" /\ Failure(n) # Waiting
    BY <1>5, <2>2, PullFacts
  <2> HIDE DEF r
  <2> QED
    BY <1>1, <2>1, <2>2, <2>3, PullStep
<1>6. CASE /\ t.buffer = <<>> /\ t.error = NoError
           /\ pull' = [pull EXCEPT ![s] = IF t.closed THEN Done ELSE Waiting]
           /\ UNCHANGED str
  <2> DEFINE p == IF t.closed THEN Done ELSE Waiting
  <2>1. str' = [str EXCEPT ![s] = t]
    BY <1>1, <1>6
  <2>2. p \in Pulls /\ (t.closed => p = Done) /\ (~t.closed => p = Waiting)
    BY PullFacts
  <2>3. pull' = [pull EXCEPT ![s] = p]
    BY <1>6
  <2> HIDE DEF p
  <2>4. /\ p = Waiting => ~t.closed
        /\ p.kind = "waiting" => p = Waiting
        /\ p.kind # "event" /\ (p.kind = "done" => t.closed)
    BY <2>2, PullFacts
  <2>5. ~(Untouched(s) /\ ending[s] # NoError) /\ t.buffer = <<>> /\ t.closed = str[s].closed
    BY <1>3, <1>6
  <2>6. \A d \in Conns : d # Current(s) \/ conn[d] = "over" => wire'[d] = wire[d]
    BY <1>1
  <2>7. wire' \in [Conns -> Seq(Frames)] /\ cli[s].pc = "loop"
    BY <1>1
  <2> HIDE DEF t
  <2> QED
    BY <1>1, <2>1, <2>2, <2>3, <2>4, <2>5, <2>6, <2>7, PullStep
<1> QED
  BY <1>4, <1>5, <1>6 DEF Pull, Next_

\* What the frames on a wire say.
LEMMA FrameFacts ==
  ASSUME NEW f \in Frames
  PROVE  /\ f.kind = "event" => f.msg \in Messages
         /\ f.kind \in {"close", "reject"} => f.code \in Nat \ {0}
         /\ f.kind \in {"close", "reject"} /\ faults = 0 => f.kind = "close" /\ f.code \in {WS_CLOSE_REPLACED, 1000}
  BY DEF Frames, Calm, Frame, CloseFrame, Rejection, WS_CLOSE_REPLACED

\* The frame that is next on the stream's wire.
LEMMA HeadFacts ==
  ASSUME Inv, NEW s \in Streams, wire[Current(s)] # <<>>
  PROVE  /\ Head(wire[Current(s)]) \in Frames /\ Tail(wire[Current(s)]) \in Seq(Frames)
         /\ conn[Current(s)] # "over"
<1>1. wire[Current(s)] \in Seq(Frames) /\ Socket(s)
  BY StreamFacts
<1> HIDE DEF Frames
<1> QED
  BY <1>1 DEF Socket

\* A frame arrives.
LEMMA ReceiveStep ==
  ASSUME Inv, NEW s \in Streams, cli[s].pc # "exit", UNCHANGED cli, Receive(s)
  PROVE  Inv'
<1> DEFINE c == Current(s)
           m == Head(wire[c]).msg
           t == str[s]
<1>1. /\ wire[c] # <<>> /\ Head(wire[c]).kind = "event" /\ Deliver(s, m) /\ wire' = [wire EXCEPT ![c] = Tail(wire[c])]
      /\ UNCHANGED <<lis, conn, ending, cli>> /\ ServerStill
      /\ str \in [Streams -> Iterators] /\ t \in Iterators /\ pull \in [Streams -> Pulls] /\ pull[s] \in Pulls
      /\ wire \in [Conns -> Seq(Frames)] /\ c \in Conns
  BY StreamFacts DEF Receive, ServerStill, srvVars
<1>2. m \in Messages /\ Tail(wire[c]) \in Seq(Frames) /\ conn[c] # "over"
  BY <1>1, HeadFacts, FrameFacts
<1>3. wire' \in [Conns -> Seq(Frames)] /\ \A d \in Conns : d # c \/ conn[d] = "over" => wire'[d] = wire[d]
  BY <1>1, <1>2
<1>4. Surfacing(s) /\ Pulling(s)
  BY StreamFacts
<1>5. Untouched(s) /\ ending[s] # NoError => \/ t.error # NoError /\ pull[s].kind \in {"idle", "event"}
                                             \/ pull[s].kind = "error"
  BY <1>4 DEF Surfacing
<1> HIDE DEF m, c
<1>6. CASE pull[s] = Waiting
  <2>1. pull' = [pull EXCEPT ![s] = Event(m)] /\ str' = [str EXCEPT ![s] = t]
    BY <1>1, <1>6 DEF Deliver
  <2>2. Event(m) \in Pulls /\ Event(m).kind = "event" /\ Event(m).msg = m /\ Event(m) # Waiting
    BY <1>2, PullFacts
  <2>3. ~(Untouched(s) /\ ending[s] # NoError) /\ cli[s].pc \notin {"handle", "print"}
    BY <1>4, <1>5, <1>6, PullFacts DEF Pulling
  <2> QED
    BY <1>1, <1>2, <1>3, <2>1, <2>2, <2>3, PullStep DEF c
<1>7. CASE pull[s] # Waiting
  <2> DEFINE b == Buffered(t.buffer, m)
             r == [t EXCEPT !.buffer = b]
  <2>1. str' = [str EXCEPT ![s] = r]
    BY <1>1, <1>7 DEF Deliver
  <2>2. pull' = [pull EXCEPT ![s] = pull[s]]
    BY <1>1, <1>7 DEF Deliver
  <2>3. b \in Buffers
    <3>1. t.buffer \in Seq(Messages) /\ Len(t.buffer) \in Nat /\ Len(t.buffer) <= MaxBuffered /\ MaxBuffered \in Nat \ {0}
      BY <1>1, ConnFacts DEF Iterators, Buffers
    <3>2. CASE Len(t.buffer) < MaxBuffered
      BY <1>2, <3>1, <3>2 DEF Buffered, Buffers
    <3>3. CASE ~(Len(t.buffer) < MaxBuffered)
      <4>1. t.buffer # <<>> /\ Tail(t.buffer) \in Seq(Messages) /\ Len(Tail(t.buffer)) = Len(t.buffer) - 1
        BY <3>1, <3>3
      <4> QED
        BY <1>2, <3>1, <3>3, <4>1 DEF Buffered, Buffers
    <3> QED
      BY <3>2, <3>3
  <2> HIDE DEF b
  <2>4. r \in Iterators /\ r.closed = t.closed /\ r.error = t.error
    BY <1>1, <2>3 DEF Iterators
  <2> HIDE DEF r
  <2> QED
    BY <1>1, <1>3, <1>4, <1>5, <1>7, <2>1, <2>2, <2>4, PullStep DEF Pulling, c
<1> QED
  BY <1>6, <1>7

\* The listener dials again.
LEMMA RedialStep ==
  ASSUME Inv, NEW s \in Streams, cli[s].pc # "exit", UNCHANGED cli, Redial(s)
  PROVE  Inv'
<1> DEFINE n == lis[s].dials + 1
           c == <<s, n>>
<1>1. /\ lis[s].timer /\ lis[s].dials < MaxDials
      /\ lis' = [lis EXCEPT ![s].timer = FALSE, ![s].dials = @ + 1]
      /\ conn' = [conn EXCEPT ![c] = "dialing"]
      /\ UNCHANGED <<reconnect, str, pull, wire, hub, hnd, push, unread, announced, ending, faults, cli>>
      /\ lis \in [Streams -> Listeners] /\ conn \in [Conns -> ConnStates] /\ wire \in [Conns -> Seq(Frames)]
  BY StreamFacts DEF Redial, srvVars
<1>2. lis[s].dials \in 1..MaxDials /\ MaxDials \in Nat /\ n \in 1..MaxDials /\ n > lis[s].dials /\ c \in Conns
  BY <1>1, ConnFacts DEF Listeners
<1>3. /\ lis' \in [Streams -> Listeners] /\ lis'[s].closed = lis[s].closed /\ ~lis'[s].timer /\ lis'[s].dials = n
      /\ \A t \in Streams \ {s} : lis'[t] = lis[t]
  BY <1>1, <1>2 DEF Listeners
<1>4. Socket(s) /\ Closing(s) /\ Quiet(s) /\ Pulling(s) /\ Surfacing(s) /\ Handling(s) /\ Exiting(s)
  BY StreamFacts
<1>5. conn[c] = "none" /\ ~str[s].closed /\ ~lis[s].closed /\ faults # 0
  BY <1>1, <1>2, <1>4 DEF Socket, Closing, Quiet
<1>6. Current(s)' = c /\ c[1] = s
  BY <1>3 DEF Current
<1>7. /\ conn' \in [Conns -> ConnStates] /\ conn'[c] = "dialing" /\ \A d \in Conns \ {c} : conn'[d] = conn[d]
  BY <1>1, <1>2 DEF ConnStates
<1>8. StreamTypes'
  BY <1>1, <1>3 DEF Inv, StreamTypes, Listeners
<1>9. ClientView(s)
  BY <1>1, <1>3, <1>5, <1>6, <1>7 DEF ClientView, Apart, OwnConns, ServerStill
<1>10. Socket(s)'
  <2>1. ASSUME NEW k \in 1..MaxDials, k > n PROVE conn'[<<s, k>>] = "none"
    <3>1. k > lis[s].dials /\ <<s, k>> # c /\ <<s, k>> \in Conns
      BY <1>2, <2>1, ConnFacts
    <3> QED
      BY <1>4, <1>7, <3>1 DEF Socket
  <2> QED
    BY <1>3, <1>6, <1>7, <2>1 DEF Socket
<1> HIDE DEF c, n
<1>11. Closing(s)'
  BY <1>1, <1>3, <1>5, <1>6, <1>7 DEF Closing
<1>12. Pulling(s)' /\ Handling(s)' /\ Exiting(s)'
  BY <1>1, <1>4 DEF Pulling, Handling, Exiting
<1>13. Surfacing(s)' /\ Quiet(s)'
  BY <1>1, <1>4, <1>5 DEF Surfacing, Untouched, Quiet
<1> QED
  BY <1>8, <1>9, <1>10, <1>11, <1>12, <1>13, ClientStep DEF StreamInv

\* The close handler: how the stream and its pull end.
LEMMA StreamEndsFacts ==
  ASSUME Inv, NEW s \in Streams, NEW f, f.code \in Nat, StreamEnds(s, f)
  PROVE  /\ str' \in [Streams -> Iterators] /\ \A x \in Streams \ {s} : str'[x] = str[x]
         /\ pull' \in [Streams -> Pulls] /\ \A x \in Streams \ {s} : pull'[x] = pull[x]
         /\ str'[s].buffer = str[s].buffer
         /\ str'[s].closed = (str[s].closed \/ FatalClose(s, f) \/ CleanEnd(s, f))
         /\ FatalClose(s, f) /\ ~str[s].closed /\ pull[s] # Waiting => str'[s].error = f.code
         /\ pull[s] # Waiting => pull'[s] = pull[s]
         /\ pull[s] = Waiting => pull'[s] = IF FatalClose(s, f) THEN Failure(f.code)
                                            ELSE IF CleanEnd(s, f) THEN Done ELSE Waiting
<1> DEFINE t == str[s]
           F == FatalClose(s, f)
           C == CleanEnd(s, f)
           n == f.code
<1>0. ~(F /\ C)
  BY DEF CleanEnd
<1>1. /\ str' = [str EXCEPT ![s] = CASE F -> FinishedWithError(t, n, pull[s] = Waiting)
                                     [] C -> Finished(t)
                                     [] OTHER -> t]
      /\ pull' = IF pull[s] # Waiting THEN pull
                 ELSE [pull EXCEPT ![s] = CASE F -> Failure(n) [] C -> Done [] OTHER -> pull[s]]
  BY DEF StreamEnds
<1>2. str \in [Streams -> Iterators] /\ t \in Iterators /\ pull \in [Streams -> Pulls] /\ pull[s] \in Pulls
  BY StreamFacts
<1> HIDE DEF t, F, C, n
<1>3. n \in Nat
  BY DEF n
<1>4. CASE F
  <2>1. /\ str' = [str EXCEPT ![s] = FinishedWithError(t, n, pull[s] = Waiting)]
        /\ pull' = IF pull[s] # Waiting THEN pull ELSE [pull EXCEPT ![s] = Failure(n)]
    BY <1>0, <1>1, <1>4
  <2>2. /\ FinishedWithError(t, n, pull[s] = Waiting) \in Iterators
        /\ FinishedWithError(t, n, pull[s] = Waiting).closed = TRUE
        /\ FinishedWithError(t, n, pull[s] = Waiting).buffer = t.buffer
        /\ ~t.closed /\ pull[s] # Waiting => FinishedWithError(t, n, pull[s] = Waiting).error = n
    <3>1. CASE t.closed
      BY <1>2, <3>1 DEF FinishedWithError, Iterators
    <3>2. CASE ~t.closed
      <4> DEFINE e == IF pull[s] = Waiting THEN NoError ELSE n
      <4>1. e \in Nat /\ (pull[s] # Waiting => e = n)
        BY <1>3 DEF NoError
      <4>2. FinishedWithError(t, n, pull[s] = Waiting) = [t EXCEPT !.closed = TRUE, !.error = e]
        BY <3>2 DEF FinishedWithError
      <4> HIDE DEF e
      <4> QED
        BY <1>2, <4>1, <4>2 DEF Iterators
    <3> QED
      BY <3>1, <3>2
  <2>3. /\ str' \in [Streams -> Iterators] /\ \A x \in Streams \ {s} : str'[x] = str[x]
        /\ str'[s] = FinishedWithError(t, n, pull[s] = Waiting)
    BY <1>2, <2>1, <2>2
  <2>4. /\ pull' \in [Streams -> Pulls] /\ \A x \in Streams \ {s} : pull'[x] = pull[x]
        /\ pull'[s] = IF pull[s] # Waiting THEN pull[s] ELSE Failure(n)
    BY <1>2, <1>3, <2>1, PullFacts
  <2> QED
    BY <1>4, <2>2, <2>3, <2>4 DEF F, t, n
<1>5. CASE ~F /\ C
  <2>1. /\ str' = [str EXCEPT ![s] = Finished(t)]
        /\ pull' = IF pull[s] # Waiting THEN pull ELSE [pull EXCEPT ![s] = Done]
    BY <1>1, <1>5
  <2>2. Finished(t) \in Iterators /\ Finished(t).closed = TRUE /\ Finished(t).buffer = t.buffer
    BY <1>2 DEF Finished, Iterators
  <2>3. /\ str' \in [Streams -> Iterators] /\ \A x \in Streams \ {s} : str'[x] = str[x] /\ str'[s] = Finished(t)
    BY <1>2, <2>1, <2>2
  <2>4. /\ pull' \in [Streams -> Pulls] /\ \A x \in Streams \ {s} : pull'[x] = pull[x]
        /\ pull'[s] = IF pull[s] # Waiting THEN pull[s] ELSE Done
    BY <1>2, <2>1, PullFacts
  <2>5. str'[s] = Finished(t)
    BY <1>2, <2>1
  <2> QED
    BY <1>5, <2>2, <2>3, <2>4, <2>5 DEF F, C, t
<1>6. CASE ~F /\ ~C
  <2>1. str' = [str EXCEPT ![s] = t]
    BY <1>1, <1>6
  <2>2. pull' = pull
    BY <1>1, <1>2, <1>6
  <2>3. str' = str
    BY <1>2, <2>1 DEF t
  <2>4. (str[s].closed \/ F \/ C) = str[s].closed
    BY <1>2, <1>6 DEF t, Iterators
  <2> QED
    BY <1>2, <1>6, <2>2, <2>3, <2>4 DEF F, C
<1> QED
  BY <1>4, <1>5, <1>6

\* The socket closes: the code decides between reconnecting and ending.
LEMMA CloseEventStep ==
  ASSUME Inv, NEW s \in Streams, cli[s].pc # "exit", UNCHANGED cli, CloseEvent(s)
  PROVE  Inv'
<1> DEFINE c == Current(s)
           f == Head(wire[c])
           F == FatalClose(s, f)
           C == CleanEnd(s, f)
           n == f.code
<1>1. /\ wire[c] # <<>> /\ f.kind \in {"close", "reject"} /\ ListenerEnds(s, f) /\ StreamEnds(s, f)
      /\ wire' = [wire EXCEPT ![c] = <<>>]
      /\ UNCHANGED <<reconnect, hub, hnd, push, unread, announced, faults, cli>>
  BY DEF CloseEvent, srvVars
<1>2. /\ lis \in [Streams -> Listeners] /\ lis[s] \in Listeners /\ conn \in [Conns -> ConnStates] /\ c \in Conns /\ c[1] = s
      /\ wire \in [Conns -> Seq(Frames)] /\ ending \in [Streams -> Nat] /\ pull[s] \in Pulls /\ str[s] \in Iterators
      /\ reconnect \in [Streams -> BOOLEAN]
  BY StreamFacts
<1>3. /\ f \in Frames /\ conn[c] # "over" /\ n \in Nat \ {0}
      /\ faults = 0 => f.kind = "close" /\ n \in {WS_CLOSE_REPLACED, 1000}
  BY <1>1, HeadFacts, FrameFacts
<1>4. /\ str' \in [Streams -> Iterators] /\ \A x \in Streams \ {s} : str'[x] = str[x]
      /\ pull' \in [Streams -> Pulls] /\ \A x \in Streams \ {s} : pull'[x] = pull[x]
      /\ str'[s].buffer = str[s].buffer
      /\ str'[s].closed = (str[s].closed \/ F \/ C)
      /\ F /\ ~str[s].closed /\ pull[s] # Waiting => str'[s].error = n
      /\ pull[s] # Waiting => pull'[s] = pull[s]
      /\ pull[s] = Waiting => pull'[s] = IF F THEN Failure(n) ELSE IF C THEN Done ELSE Waiting
  BY <1>1, <1>3, StreamEndsFacts
<1>5. /\ F <=> f.kind = "reject" \/ (~lis[s].closed /\ fatalErrorForClose(n))
      /\ C <=> ~F /\ (n = 1000 \/ ~reconnect[s])
  BY DEF FatalClose, CleanEnd
<1>6. /\ lis' = [lis EXCEPT ![s].closed = @ \/ (F \/ n = 1000), ![s].timer = ~lis[s].closed /\ ~(F \/ n = 1000) /\ reconnect[s]]
      /\ conn' = [conn EXCEPT ![c] = "over"]
      /\ ending' = IF F /\ ending[s] = NoError THEN [ending EXCEPT ![s] = n] ELSE ending
  BY <1>1 DEF ListenerEnds
<1> HIDE DEF F, C, f, n, c
<1>7. /\ lis' \in [Streams -> Listeners] /\ \A x \in Streams \ {s} : lis'[x] = lis[x]
      /\ lis'[s].dials = lis[s].dials
      /\ lis'[s].closed <=> lis[s].closed \/ F \/ n = 1000
      /\ lis'[s].timer <=> ~lis[s].closed /\ ~F /\ n # 1000 /\ reconnect[s]
  <2> DEFINE x == lis[s].closed \/ (F \/ n = 1000)
             y == ~lis[s].closed /\ ~(F \/ n = 1000) /\ reconnect[s]
  <2>1. x \in BOOLEAN /\ y \in BOOLEAN
    OBVIOUS
  <2>2. lis' = [lis EXCEPT ![s].closed = x, ![s].timer = y]
    BY <1>6, <1>2
  <2> HIDE DEF x, y
  <2>3. /\ lis' \in [Streams -> Listeners] /\ \A z \in Streams \ {s} : lis'[z] = lis[z]
        /\ lis'[s].dials = lis[s].dials /\ lis'[s].closed = x /\ lis'[s].timer = y
    BY <1>2, <2>1, <2>2 DEF Listeners
  <2>4. x <=> lis[s].closed \/ F \/ n = 1000
    BY DEF x
  <2>5. y <=> ~lis[s].closed /\ ~F /\ n # 1000 /\ reconnect[s]
    BY DEF y
  <2> QED
    BY <2>3, <2>4, <2>5
<1>8. /\ ending' \in [Streams -> Nat] /\ \A x \in Streams \ {s} : ending'[x] = ending[x]
      /\ ending'[s] # NoError => ending[s] # NoError \/ F
  <2>1. CASE F /\ ending[s] = NoError
    BY <1>2, <1>3, <1>6, <2>1
  <2>2. CASE ~(F /\ ending[s] = NoError)
    BY <1>2, <1>6, <2>2
  <2> QED
    BY <2>1, <2>2
<1>9. conn' \in [Conns -> ConnStates] /\ conn'[c] = "over" /\ \A d \in Conns \ {c} : conn'[d] = conn[d]
  BY <1>2, <1>6 DEF ConnStates
<1>10. wire' \in [Conns -> Seq(Frames)] /\ wire'[c] = <<>> /\ \A d \in Conns \ {c} : wire'[d] = wire[d]
  BY <1>1, <1>2
<1>11. StreamTypes'
  BY <1>1, <1>4, <1>7, <1>8 DEF Inv, StreamTypes, Listeners, Iterators
<1>12. OwnConns(s)
  BY <1>2, <1>9, <1>10 DEF OwnConns
<1>13. ClientView(s)
  BY <1>1, <1>4, <1>7, <1>8, <1>12 DEF ClientView, Apart, ServerStill
<1>14. Current(s)' = c
  BY <1>7 DEF Current, c
<1>15. Socket(s) /\ Closing(s) /\ Quiet(s) /\ Pulling(s) /\ Surfacing(s) /\ Handling(s) /\ Exiting(s)
  BY StreamFacts
<1>16. Socket(s)'
  <2>1. \A k \in 1..MaxDials : conn[<<s, k>>] = "none" => <<s, k>> \in Conns
    BY ConnFacts
  <2>2. ASSUME NEW k \in 1..MaxDials, k > lis[s].dials PROVE conn'[<<s, k>>] = "none"
    <3>1. <<s, k>> # c
      BY <1>2, <2>2, ConnFacts DEF c, Current, Listeners
    <3> QED
      BY <1>9, <1>15, <2>1, <2>2, <3>1 DEF Socket
  <2> QED
    BY <1>7, <1>10, <1>14, <2>2 DEF Socket
<1>17. str[s].closed => lis[s].closed
  BY <1>3, <1>15 DEF Closing, c
<1>18. Closing(s)'
  <2>1. str'[s].closed <=> str[s].closed \/ F \/ C
    BY <1>4
  <2>2. lis'[s].closed => str'[s].closed
    BY <1>5, <1>7, <1>15, <2>1 DEF Closing
  <2>3. lis'[s].timer => ~str'[s].closed
    BY <1>5, <1>7, <1>17, <2>1
  <2>4. ~str'[s].closed => lis'[s].timer
    BY <1>5, <1>7, <1>15, <2>1 DEF Closing
  <2> QED
    BY <1>9, <1>14, <2>2, <2>3, <2>4 DEF Closing
<1>19. Pulling(s)'
  <2>1. CASE pull[s] = Waiting
    <3>1. ~str[s].closed /\ str[s].buffer = <<>> /\ cli[s].pc \notin {"handle", "print"}
      BY <1>15, <2>1, PullFacts DEF Pulling
    <3>2. CASE F
      BY <1>1, <1>3, <1>4, <2>1, <3>1, <3>2, PullFacts DEF Pulling
    <3>3. CASE ~F /\ C
      BY <1>1, <1>4, <2>1, <3>1, <3>3, PullFacts DEF Pulling
    <3>4. CASE ~F /\ ~C
      BY <1>1, <1>4, <2>1, <3>1, <3>4, PullFacts DEF Pulling
    <3> QED
      BY <3>2, <3>3, <3>4
  <2>2. CASE pull[s] # Waiting
    BY <1>1, <1>4, <1>15, <2>2 DEF Pulling
  <2> QED
    BY <2>1, <2>2
<1>20. Surfacing(s)'
  <2> SUFFICES ASSUME Untouched(s), ending'[s] # NoError
               PROVE  /\ str'[s].closed
                      /\ \/ str'[s].error # NoError /\ pull'[s].kind \in {"idle", "event"}
                         \/ pull'[s].kind = "error"
    BY <1>1, <1>9, <1>14 DEF Surfacing, Untouched
  <2>1. ~str[s].closed /\ F
    BY <1>3, <1>8, <1>15 DEF Surfacing, c
  <2>2. CASE pull[s] = Waiting
    <3>1. str'[s].closed
      BY <1>4, <2>1
    <3>2. pull'[s] = Failure(n)
      BY <1>4, <2>1, <2>2
    <3> QED
      BY <3>1, <3>2, PullFacts
  <2>3. CASE pull[s] # Waiting
    <3>1. pull[s].kind \in {"idle", "waiting", "event", "done", "error"}
      BY <1>2 DEF Pulls
    <3>2. pull[s].kind \in {"idle", "event", "error"}
      BY <1>15, <2>1, <2>3, <3>1 DEF Pulling
    <3>3. str'[s].closed
      BY <1>4, <2>1
    <3>4. str'[s].error = n /\ pull'[s] = pull[s]
      BY <1>4, <2>1, <2>3
    <3> QED
      BY <1>3, <3>2, <3>3, <3>4 DEF NoError
  <2> QED
    BY <2>2, <2>3
<1>21. Handling(s)'
  <2>1. cli[s].pc \in {"handle", "print"} => pull'[s] = pull[s]
    BY <1>4, <1>15, PullFacts DEF Pulling
  <2> QED
    BY <1>1, <1>15, <2>1 DEF Handling
<1>22. Exiting(s)'
  BY <1>1, <1>15 DEF Exiting, EXIT, NoExit
<1>23. Quiet(s)'
  <2> SUFFICES ASSUME faults = 0 PROVE lis'[s].dials = 1 /\ ~lis'[s].timer
    BY <1>1 DEF Quiet
  <2>1. n = 1000 \/ fatalErrorForClose(n)
    BY <1>3 DEF fatalErrorForClose
  <2>2. lis[s].dials = 1
    BY <1>15 DEF Quiet
  <2> QED
    BY <1>5, <1>7, <2>1, <2>2
<1> QED
  BY <1>11, <1>13, <1>16, <1>18, <1>19, <1>20, <1>21, <1>22, <1>23, ClientStep DEF StreamInv
-----------------------------------------------------------------------------
(* The invariant and what follows from it.                                 *)

\* The invariant holds at first.
LEMMA InitInv == ListenInit => Inv
<1> SUFFICES ASSUME ListenInit PROVE Inv
  OBVIOUS
<1>1. Init
  BY DEF ListenInit
<1>2. PICK o \in [Streams -> UNION {Options[s] : s \in Streams}] :
        /\ \A s \in Streams : o[s] \in Options[s]
        /\ reconnect = [s \in Streams |-> o[s].reconnect]
        /\ cli = [s \in Streams |-> [opts |-> o[s], pc |-> "loop", matched |-> NoMsg, timedOut |-> FALSE,
                                     forwardFailed |-> FALSE, forwarded |-> {}, exit |-> NoExit]]
  BY DEF ListenInit
<1>3. \A s \in Streams : o[s] \in {x \in Flags : x.until => x.once}
  BY <1>2, OptionsAssumption DEF Flags
<1>4. cli \in [Streams -> Processes]
  BY <1>2, <1>3 DEF Processes, NoExit, ExitCodes
<1>5. reconnect \in [Streams -> BOOLEAN]
  BY <1>2, <1>3 DEF Flags
<1>6. /\ conn \in [Conns -> ConnStates] /\ \A c \in Conns : conn[c] \in {"none", "dialing"}
      /\ \A s \in Streams : conn[<<s, 1>>] = "dialing" /\ \A n \in 1..MaxDials : n > 1 => conn[<<s, n>>] = "none"
  BY <1>1, ConnFacts DEF Init, ConnStates
<1>7. ServerTypes
  <2>1. wire \in [Conns -> Seq(Frames)]
    <3> HIDE DEF Frames
    <3> QED
      BY <1>1 DEF Init
  <2>2. /\ hnd \in [Conns -> [pc : HandlerPcs, todo : SUBSET Messages, msg : Messages \union {NoMsg},
                              old : Conns \union {NoConn}, drained : BOOLEAN, page : SUBSET Messages, left : SUBSET Messages]]
        /\ push \in [Messages -> [pc : {"none", "stored", "taken", "missed", "done"}, to : Conns \union {NoConn}]]
        /\ \A m \in Messages : push[m].pc # "taken"
    BY <1>1 DEF Init, HandlerPcs
  <2> QED
    BY <1>1, <1>6, <2>1, <2>2, ConnFacts DEF Init, ServerTypes
<1>8. StreamTypes
  <2>1. <<>> \in Buffers /\ 1 \in 1..MaxDials
    BY ConnFacts DEF Buffers
  <2> QED
    BY <1>1, <1>4, <1>5, <2>1, PullFacts DEF Init, StreamTypes, NoError
<1>9. ServerInv
  BY <1>1, <1>6 DEF Init, ServerInv, Dialed, Registered, Announced, Paged, Aimed, Up
<1>10. ASSUME NEW s \in Streams PROVE StreamInv(s)
  <2>1. /\ lis[s] = [closed |-> FALSE, dials |-> 1, timer |-> FALSE]
        /\ str[s] = [closed |-> FALSE, buffer |-> <<>>, error |-> NoError]
        /\ pull[s] = Idle /\ ending[s] = NoError /\ cli[s].pc = "loop" /\ cli[s].matched = NoMsg
        /\ ~cli[s].timedOut /\ cli[s].exit = NoExit
        /\ Current(s) = <<s, 1>>
    BY <1>1, <1>2 DEF Init, Current
  <2>2. Socket(s) /\ Closing(s)
    BY <1>6, <2>1 DEF Socket, Closing
  <2>3. Pulling(s) /\ Surfacing(s) /\ Handling(s) /\ Quiet(s)
    BY <2>1, PullFacts DEF Pulling, Surfacing, Handling, Quiet, Untouched
  <2>4. Exiting(s)
    BY <2>1 DEF Exiting, NoExit, EXIT
  <2> QED
    BY <2>2, <2>3, <2>4 DEF StreamInv
<1> QED
  BY <1>7, <1>8, <1>9, <1>10 DEF Inv

\* Every step keeps it.
LEMMA NextInv == Inv /\ [ListenNext]_cliVars => Inv'
<1> SUFFICES ASSUME Inv, [ListenNext]_cliVars PROVE Inv'
  OBVIOUS
<1>1. CASE ServerNext /\ UNCHANGED cli
  <2>1. ServerTypes' /\ ServerInv' /\ ServerView
    BY <1>1, ServerStep DEF Inv
  <2>2. StreamTypes'
    BY <1>1, <2>1 DEF Inv, StreamTypes, ServerView, sdkVars
  <2>3. \A s \in Streams : StreamInv(s)'
    BY <1>1, <2>1, StreamsUnderServer DEF Inv
  <2> QED
    BY <2>1, <2>2, <2>3 DEF Inv
<1>2. ASSUME NEW s \in Streams, CliNext(s) PROVE Inv'
  BY <1>2, PullAction, InConversationStep, ForwardMessageStep, RenderStep, LoopEndsStep, LoopThrowsStep,
     DeadlineStep, InterruptStep DEF CliNext
<1>3. ASSUME NEW s \in Streams, SdkStep(s) PROVE Inv'
  BY <1>3, RedialStep, ReceiveStep, CloseEventStep DEF SdkStep, SdkNext
<1>4. CASE UNCHANGED cliVars
  <2>1. UNCHANGED <<reconnect, lis, str, pull, conn, wire, hub, hnd, push, unread, announced, ending, faults, cli>>
    BY <1>4 DEF cliVars, vars, srvVars, sdkVars
  <2>2. Frames' = Frames /\ (\A s : Current(s)' = Current(s))
    BY <2>1 DEF Frames, Current
  <2>3. ServerTypes' /\ StreamTypes'
    BY <2>1, <2>2 DEF Inv, ServerTypes, StreamTypes
  <2>4. ServerInv'
    BY <2>1 DEF Inv, ServerInv, Dialed, Registered, Superseded, Announced, Owed, Announcing, Paged, Page, Delivering, Aimed, Up
  <2>5. \A s \in Streams : StreamInv(s)'
    BY <2>1, <2>2 DEF Inv, StreamInv, Socket, Closing, Pulling, Surfacing, Untouched, Handling, Exiting, Quiet
  <2> QED
    BY <2>3, <2>4, <2>5 DEF Inv
<1> QED
  BY <1>1, <1>2, <1>3, <1>4 DEF ListenNext

\* The invariant: in every state of hub, handlers, relay, SDK and processes.
THEOREM Invariant == ListenSpec => []Inv
  BY InitInv, NextInv, PTL DEF ListenSpec

\* The type invariant holds: in particular the buffer of a stream never
\* exceeds WS_MAX_BUFFERED_EVENTS, however slow its consumer.
THEOREM Types == ListenSpec => []ListenTypeOK
<1>1. Inv => ListenTypeOK
  <2> SUFFICES ASSUME Inv PROVE ListenTypeOK
    OBVIOUS
  <2>1. ASSUME NEW s \in Streams
        PROVE  /\ lis[s].dials \in 1..MaxDials
               /\ str[s].buffer \in BoundedSeq(Messages, MaxBuffered)
               /\ pull[s].kind \in {"idle", "waiting", "event", "done", "error"}
               /\ cli[s].exit \in {NoExit, INTERRUPTED} \union {EXIT[k] : k \in DOMAIN EXIT}
    <3>1. lis[s] \in Listeners /\ str[s] \in Iterators /\ pull[s] \in Pulls /\ cli[s] \in Processes
      BY StreamFacts
    <3>2. str[s].buffer \in BoundedSeq(Messages, MaxBuffered)
      <4>1. PICK b : b = str[s].buffer
        OBVIOUS
      <4>2. b \in Seq(Messages) /\ Len(b) \in 0..MaxBuffered /\ b \in [1..Len(b) -> Messages]
        BY <3>1, <4>1, ConnFacts DEF Iterators, Buffers
      <4> QED
        BY <4>1, <4>2 DEF BoundedSeq, SeqOf
    <3>3. {0, 1, 4, 5, 6} \subseteq {EXIT[k] : k \in DOMAIN EXIT}
      <4>1. /\ DOMAIN EXIT = {"OK", "ERROR", "AUTH", "REQUEST", "TIMEOUT"}
            /\ EXIT["OK"] = 0 /\ EXIT["ERROR"] = 1 /\ EXIT["AUTH"] = 4 /\ EXIT["REQUEST"] = 5 /\ EXIT["TIMEOUT"] = 6
        BY DEF EXIT
      <4> HIDE DEF EXIT
      <4> QED
        BY <4>1
    <3>4. cli[s].exit \in {99, 100} \union {0, 1, 4, 5, 6}
      BY <3>1 DEF Processes, ExitCodes
    <3> QED
      BY <3>1, <3>2, <3>3, <3>4 DEF Listeners, Pulls, NoExit, INTERRUPTED
  <2>2. \A c \in Conns : conn[c] \in ConnStates /\ hnd[c].pc \in HandlerPcs
    BY DEF Inv, ServerTypes
  <2> QED
    BY <2>1, <2>2 DEF ListenTypeOK, Inv, ServerTypes, ConnStates, HandlerPcs
<1> QED
  BY <1>1, Invariant, PTL

\* However registration, eviction, drain, store and push interleave, a serving
\* connection is the current one and every unread message has reached it or is
\* on its way, unless the listing of its drain left it out for a full page that
\* has reached it: Hub.Send outside the lock loses nothing to it.
THEOREM Announcements == ListenSpec => []NothingUnannounced
<1>1. Inv => NothingUnannounced
  <2> SUFFICES ASSUME Inv, NEW c \in Conns, Serving(c)
               PROVE  /\ hub = c
                      /\ \A m \in unread \ hnd[c].left : m \in announced[c] \/ Announcing(m, c)
                      /\ hnd[c].left # {} => \E page \in SUBSET announced[c] : Cardinality(page) = DrainLimit
    BY DEF NothingUnannounced
  <2>1. Up(c) /\ ~Superseded(c) /\ hnd[c].pc = "read" /\ hnd[c].drained
    BY DEF Serving, Up, Superseded
  <2>2. hub = c /\ Page(c) /\ \A m \in unread : Owed(c, m)
    BY <2>1 DEF Inv, ServerInv, Registered, Announced, Paged
  <2>3. hnd[c].page \in SUBSET announced[c]
    BY <2>1, <2>2 DEF Page, Delivering
  <2> QED
    BY <2>1, <2>2, <2>3 DEF Owed, Page
<1> QED
  BY <1>1, Invariant, PTL

\* A pull that waits is never orphaned, for any interleaving of next(), the
\* socket's callbacks, the deadline and reconnects: something alive answers it.
THEOREM PullsAnswered == ListenSpec => []NoOrphanPull
<1>1. Inv => NoOrphanPull
  BY DEF Inv, StreamInv, NoOrphanPull, Pulling, Closing
<1> QED
  BY <1>1, Invariant, PTL

\* finishWithError before finish, and a parked error before the end: a loop
\* that ends cleanly was not stopped by a typed error.
THEOREM Surfaced == ListenSpec => []ErrorsSurface
<1>1. Inv => ErrorsSurface
  <2> SUFFICES ASSUME Inv, NEW s \in Streams, pull[s] = Done, ~cli[s].timedOut, cli[s].matched = NoMsg
               PROVE  ending[s] = NoError
    BY DEF ErrorsSurface
  <2>1. Pulling(s) /\ Surfacing(s)
    BY DEF Inv, StreamInv
  <2>2. cli[s].pc # "exit"
    BY <2>1, PullFacts DEF Pulling
  <2> QED
    BY <2>1, <2>2, PullFacts DEF Surfacing, Untouched
<1> QED
  BY <1>1, Invariant, PTL

\* Without a fault no listener redials, so two listeners of one agent never
\* take the connection back and forth.
THEOREM NoFight == ListenSpec => []NoStealBack
<1>1. Inv => NoStealBack
  BY DEF Inv, StreamInv, NoStealBack, Quiet
<1> QED
  BY <1>1, Invariant, PTL

\* A listener that a newer one replaced never exits 1, which a wrapper retries.
THEOREM Retry == ListenSpec => []RetryOnOneIsSafe
<1>1. Inv => RetryOnOneIsSafe
  BY DEF Inv, StreamInv, RetryOnOneIsSafe, Exiting
<1> QED
  BY <1>1, Invariant, PTL

\* Exit 0 of --once is earned: a message of the conversation was rendered, and
\* accepted by the forward URL if there is one.
THEOREM HandOff == ListenSpec => []ExitZeroIsHandOff
<1>1. Inv => ExitZeroIsHandOff
  <2> SUFFICES ASSUME Inv, NEW s \in Streams, cli[s].exit = EXIT.OK
               PROVE  /\ cli[s].opts.once
                      /\ cli[s].matched # NoMsg
                      /\ cli[s].opts.conversation => cli[s].matched \in Matching
                      /\ cli[s].opts.forward => cli[s].matched \in cli[s].forwarded
    BY DEF ExitZeroIsHandOff
  <2>1. Handling(s) /\ Exiting(s)
    BY DEF Inv, StreamInv
  <2> QED
    BY <2>1 DEF Handling, Exiting
<1> QED
  BY <1>1, Invariant, PTL
=============================================================================
