------------------------------ MODULE WebSocket ------------------------------
(***************************************************************************)
(* WebSocketClient (websocket_client.cpp) with the incremental frame       *)
(* parser of websocket_frame.cpp: the opening handshake, the read loop     *)
(* that cuts the byte stream into frames wherever the network cut it, the  *)
(* write queue, and the close from either side.  Every field of a frame    *)
(* that has several bytes (the header, the extended length, the masking    *)
(* key) is two units here, a payload as many units as the frame says.      *)
(***************************************************************************)
EXTENDS Integers, Sequences, SequencesExt

CONSTANTS Scripts,     \* the frames a server may send, each a sequence of [op, ext, masked, size]
          MaxCalls     \* calls of SendText, SendPing and Close from other threads

VARIABLES
  ws,        \* state, write_queue, write_in_flight, and what is under way
  script,    \* the frames this server sends
  got,       \* units of them received
  base,      \* the first unit of pending_data (the units before it are gone)
  offset,    \* the loop's offset in pending_data
  fp,        \* WebSocketFrameParser: state_, the frame, payload_read_
  wsTasks,   \* posted to the I/O thread
  wsCalls,   \* calls made so far
  delivered, \* history: frames given to on_frame
  hand,      \* history: the handshake's response: "none", "valid", "invalid"; a read cut a header of it; refused
  wsHist     \* history: [closes: calls of on_close, spins: the loop makes no progress, unechoed: closed without the echo]

wsVars == <<ws, script, got, base, offset, fp, wsTasks, wsCalls, delivered, hand, wsHist>>

Control == {"close", "ping", "pong"}
HeaderParser == [phase |-> "header", frame |-> 0, read |-> 0]

Init ==
  /\ ws = [state |-> "idle", queue |-> <<>>, flight |-> "none", io |-> "none"]
  /\ script \in Scripts /\ got = 0 /\ base = 0 /\ offset = 0 /\ fp = HeaderParser
  /\ wsTasks = <<>> /\ wsCalls = 0 /\ delivered = <<>> /\ hand = [response |-> "none", cut |-> FALSE, refused |-> FALSE]
  /\ wsHist = [closes |-> 0, spins |-> FALSE, unechoed |-> FALSE]

----------------------------------------------------------------------------
(* The bytes on the wire: units of frame i follow those of frame i - 1. *)
Units(f) == 2 + (IF f.ext THEN 2 ELSE 0) + (IF f.masked THEN 2 ELSE 0) + f.size
Until[i \in 0..5] == IF i = 0 THEN 0 ELSE Until[i - 1] + Units(script[i])
Wire == Until[Len(script)]
FrameAt(u) == CHOOSE i \in 1..Len(script) : Until[i - 1] < u /\ u <= Until[i]

(* Parse, one turn of its loop: 0 units consumed when a field is not there yet. *)
Left == got - base - offset
Here == IF fp.phase = "header" THEN FrameAt(base + offset + 1) ELSE fp.frame
AfterLength(f) == IF f.masked THEN "key" ELSE "payload"

ParseField ==
  LET f == script[Here]
  IN CASE fp.phase = "header"  -> [fp EXCEPT !.phase = IF f.ext THEN "length" ELSE AfterLength(f), !.frame = Here, !.read = 0]
       [] fp.phase = "length"  -> [fp EXCEPT !.phase = AfterLength(f)]
       [] OTHER                -> [fp EXCEPT !.phase = "payload"]

(* Finish *)
Finish(w) == [w EXCEPT !.state = "closed", !.queue = <<>>, !.io = "none"]

Finishes(w, unechoed) ==
  /\ ws' = Finish(w)
  /\ wsHist' = IF w.state = "closed" THEN wsHist ELSE [wsHist EXCEPT !.closes = @ + 1, !.unechoed = @ \/ unechoed]

(* DoSendFrame and PumpWrites: one write at a time. *)
PumpWrites(w) ==
  IF w.flight # "none" \/ w.queue = <<>> \/ w.state \notin {"connected", "closing"} THEN w
  ELSE [w EXCEPT !.flight = Head(w.queue), !.queue = Tail(@)]

DoSendFrame(w, kind) ==
  IF w.state \notin {"connected", "closing"} THEN w ELSE PumpWrites([w EXCEPT !.queue = Append(@, kind)])

(* Close, on the I/O thread. *)
CloseRun ==
  \/ ws.state = "connected" /\ ws' = DoSendFrame([ws EXCEPT !.state = "closing"], "close") /\ UNCHANGED wsHist
  \/ ws.state = "closed" /\ UNCHANGED <<ws, wsHist>>
  \/ ws.state \notin {"connected", "closed"} /\ Finishes(ws, FALSE)

----------------------------------------------------------------------------
(* The opening handshake *)
Connect ==
  /\ ws.state = "idle" /\ ws' = [ws EXCEPT !.state = "connecting", !.io = "connect"]
  /\ UNCHANGED <<script, got, base, offset, fp, wsTasks, wsCalls, delivered, hand, wsHist>>

OnConnectComplete(ok) ==
  /\ ws.io = "connect"
  /\ \/ ok /\ ws' = [ws EXCEPT !.state = "handshaking", !.io = "request"] /\ UNCHANGED wsHist
     \/ ~ok /\ Finishes(ws, FALSE)                       \* the connection, or the ALPN of a strict h2 client
  /\ UNCHANGED <<script, got, base, offset, fp, wsTasks, wsCalls, delivered, hand>>

OnHandshakeWriteComplete(ok) ==
  /\ ws.io = "request"
  /\ \/ ok /\ ws' = [ws EXCEPT !.io = "response"] /\ UNCHANGED wsHist
     \/ ~ok /\ Finishes(ws, FALSE)
  /\ UNCHANGED <<script, got, base, offset, fp, wsTasks, wsCalls, delivered, hand>>

(* A read with part of the response; HandshakeDelegate::OnHeaderField assigns, *)
(* so a header the read boundary cuts is lost.                                 *)
OnHandshakeReadPart(cut) ==
  /\ ws.io = "response" /\ ~hand.cut /\ hand' = [hand EXCEPT !.cut = cut]
  /\ UNCHANGED <<ws, script, got, base, offset, fp, wsTasks, wsCalls, delivered, wsHist>>

ValidateUpgradeResponse(response) == response = "valid" /\ ~hand.cut

OnHandshakeReadComplete ==
  /\ ws.io = "response"
  /\ \/ Finishes(ws, FALSE) /\ UNCHANGED <<got, hand>>   \* the read or the parser fails
     \/ \E response \in {"valid", "invalid"}, more \in 0..Wire :
          /\ hand' = [hand EXCEPT !.response = response, !.refused = ~ValidateUpgradeResponse(response)]
          /\ IF ValidateUpgradeResponse(response)
             THEN /\ ws' = [ws EXCEPT !.state = "connected", !.io = IF more > 0 THEN "frames" ELSE "read"]
                  /\ got' = more /\ UNCHANGED wsHist
             ELSE Finishes(ws, FALSE) /\ UNCHANGED got
  /\ UNCHANGED <<script, base, offset, fp, wsTasks, wsCalls, delivered>>

----------------------------------------------------------------------------
(* OnFrameReadComplete, and the turns of ProcessFrames' loop *)
OnFrameReadComplete(n) ==
  /\ ws.io = "read" /\ got + n <= Wire
  /\ got' = got + n /\ ws' = [ws EXCEPT !.io = "frames"]
  /\ UNCHANGED <<script, base, offset, fp, wsTasks, wsCalls, delivered, hand, wsHist>>

OnFrameReadFails ==
  /\ ws.io = "read" /\ Finishes(ws, FALSE)
  /\ UNCHANGED <<script, got, base, offset, fp, wsTasks, wsCalls, delivered, hand>>

ParseStep ==
  /\ ws.io = "frames" /\ Left > 0 /\ fp.phase # "complete"
  /\ \/ /\ fp.phase # "payload" /\ Left >= 2
        /\ fp' = ParseField /\ offset' = offset + 2 /\ UNCHANGED <<ws, wsHist>>
     \/ /\ fp.phase # "payload" /\ Left < 2          \* Parse returns 0, the loop calls it again
        /\ ws' = [ws EXCEPT !.io = "spinning"] /\ wsHist' = [wsHist EXCEPT !.spins = TRUE] /\ UNCHANGED <<fp, offset>>
     \/ /\ fp.phase = "payload"
        /\ LET remaining == script[fp.frame].size - fp.read
               copied == IF remaining <= Left THEN remaining ELSE Left
           IN fp' = [fp EXCEPT !.read = @ + copied, !.phase = IF copied = remaining THEN "complete" ELSE @] /\ offset' = offset + copied
        /\ UNCHANGED <<ws, wsHist>>
  /\ UNCHANGED <<script, got, base, wsTasks, wsCalls, delivered, hand>>

(* A frame is complete.  on_frame may call the client back, on this thread. *)
OnFrame ==
  /\ ws.io = "frames" /\ fp.phase = "complete"
  /\ LET f == script[fp.frame]
     IN \/ /\ f.op \notin Control
           /\ delivered' = Append(delivered, fp.frame) /\ fp' = HeaderParser
           /\ \/ UNCHANGED <<ws, wsHist>>
              \/ ws.state = "connected" /\ ws' = DoSendFrame(ws, "data") /\ UNCHANGED wsHist
              \/ CloseRun
        \/ f.op = "ping" /\ ws' = DoSendFrame(ws, "pong") /\ fp' = HeaderParser /\ UNCHANGED <<delivered, wsHist>>
        \/ f.op = "pong" /\ fp' = HeaderParser /\ UNCHANGED <<ws, delivered, wsHist>>
        \/ /\ f.op = "close"
           /\ Finishes(IF ws.state = "closing" THEN ws ELSE DoSendFrame(ws, "close"), ws.state # "closing" /\ ws.flight # "none")
           /\ UNCHANGED <<delivered, fp>>
  /\ UNCHANGED <<script, got, base, offset, wsTasks, wsCalls, hand>>

(* The end of the loop: what was consumed is erased, and the next read         *)
(* starts.                                                                     *)
Erased == base' = base + offset
ReadsOn ==
  /\ ws.io = "frames" /\ Left = 0 /\ fp.phase # "complete"
  /\ Erased /\ offset' = 0 /\ ws' = [ws EXCEPT !.io = "read"]
  /\ UNCHANGED <<script, got, fp, wsTasks, wsCalls, delivered, hand, wsHist>>

----------------------------------------------------------------------------
OnWritten(ok) ==
  /\ ws.flight # "none"
  /\ LET w == [ws EXCEPT !.flight = "none"]
     IN \/ ok /\ ws' = PumpWrites(w) /\ UNCHANGED wsHist
        \/ ~ok /\ Finishes(w, FALSE)
  /\ UNCHANGED <<script, got, base, offset, fp, wsTasks, wsCalls, delivered, hand>>

(* SendText, SendBinary, SendPing, Close: posted by PostOrRun. *)
Call(what) ==
  /\ ws.state # "idle" /\ wsCalls < MaxCalls /\ wsCalls' = wsCalls + 1 /\ wsTasks' = Append(wsTasks, what)
  /\ UNCHANGED <<ws, script, got, base, offset, fp, delivered, hand, wsHist>>

RunTask ==
  /\ wsTasks # <<>> /\ ws.io \notin {"frames", "spinning"} /\ wsTasks' = Tail(wsTasks)
  /\ \/ Head(wsTasks) = "send" /\ ws' = (IF ws.state = "connected" THEN DoSendFrame(ws, "data") ELSE ws) /\ UNCHANGED wsHist
     \/ Head(wsTasks) = "close" /\ CloseRun
  /\ UNCHANGED <<script, got, base, offset, fp, wsCalls, delivered, hand>>

Next ==
  \/ Connect \/ OnHandshakeReadComplete \/ OnFrameReadFails \/ ParseStep \/ OnFrame \/ ReadsOn \/ RunTask
  \/ \E ok \in BOOLEAN : OnConnectComplete(ok) \/ OnHandshakeWriteComplete(ok) \/ OnHandshakeReadPart(ok) \/ OnWritten(ok)
  \/ \E n \in 1..Wire : OnFrameReadComplete(n)
  \/ \E what \in {"send", "close"} : Call(what)

Spec == Init /\ [][Next]_wsVars

----------------------------------------------------------------------------
TypeOK ==
  /\ ws.state \in {"idle", "connecting", "handshaking", "connected", "closing", "closed"}
  /\ ws.io \in {"none", "connect", "request", "response", "read", "frames", "spinning"}
  /\ base + offset \in 0..got /\ got \in 0..Wire /\ fp.phase \in {"header", "length", "key", "payload", "complete"}

(* However the network cuts the bytes, on_frame sees exactly the text and      *)
(* binary frames that have arrived whole, in order and once.  (An empty frame  *)
(* is seen when the next byte arrives.)                                        *)
FramesAreTheStream ==
  ws.io = "read" =>
    \E n \in 0..Len(script) :
      /\ Until[n] <= got /\ \A m \in n + 1..Len(script) : got < Until[m] \/ script[m].size = 0
      /\ delivered = SelectSeq([i \in 1..n |-> i], LAMBDA i : script[i].op \notin Control)

(* on_close is called once, when the connection is over - whichever side       *)
(* closes, and whatever was in flight.                                         *)
CloseToldOnce == wsHist.closes = (IF ws.state = "closed" THEN 1 ELSE 0)

(* Violated: an "incremental frame parser" makes progress with what it is      *)
(* given: when a read ends inside a header, the loop turns for ever.           *)
NeverSpins == ~wsHist.spins

(* Violated: "Server initiated close; echo back": not with a write in flight.  *)
CloseEchoed == ~wsHist.unechoed

(* Violated: a close frame that has arrived whole is acted on: an empty one    *)
(* waits for a byte that never comes.                                          *)
CloseIsSeen ==
  ws.io = "read" => \A i \in 1..Len(script) : script[i].op = "close" => got < Until[i]

(* Violated: a valid response is accepted, also when it comes in two reads. *)
ValidIsAccepted == hand.response = "valid" => ~hand.refused
=============================================================================
