------------------------------ MODULE TlsSocket ------------------------------
(***************************************************************************)
(* TLSClientSocket (tls_client_socket.cpp), also the connections that      *)
(* TLSServerSocket accepts (tls_server_socket.cpp): mbedtls works on two   *)
(* memory queues, FlushBio drains the ciphertext into the TCP transport    *)
(* one write at a time, callbacks are posted to the I/O thread.  mbedtls   *)
(* is external: a handshake step, a read or a write returns one of the     *)
(* results the code tells apart.  The ciphertext is records of RecordSize  *)
(* units.                                                                  *)
(***************************************************************************)
EXTENDS Integers, Sequences, FiniteSets, SequencesExt

CONSTANTS MaxRecords,   \* bound on the records of a connection
          RecordSize,   \* units of ciphertext in a record
          Partial,      \* the transport may complete a write partially (Windows)
          MaxCalls      \* reads and writes the user asks for

VARIABLES
  tls,         \* state_, handshake_completed_, handshake_done_, connect_cb_, read_cb_, write_cb_, write_buf_, plaintext left, shutdown_write_pending_
  sendq,       \* send_queue: [record, offset]
  flight,      \* the transport write in flight: units asked for (0: none), and on_flushed
  transport,   \* "idle", "connecting", "up", "broken" after a failed write, "closed"
  treads,      \* transport reads in flight: a set of "handshake", "data"
  ttasks,      \* tasks posted to runner_
  shell,       \* TLSClientSocket: "held", "gone"
  records,     \* records produced so far
  wire,        \* what the transport has sent: pairs of a record and a unit of it
  asked,       \* calls made: connect, read, write
  answered,    \* callbacks called
  nullWrite    \* TryWriteEncrypt ran without a buffer

tlsVars == <<tls, sendq, flight, transport, treads, ttasks, shell, records, wire, asked, answered, nullWrite>>

Calls == {"connect", "read", "write"}

Init ==
  /\ tls = [state |-> "idle", completed |-> FALSE, done |-> FALSE, connect |-> FALSE, read |-> FALSE, write |-> FALSE, buf |-> FALSE, left |-> 0, shut |-> FALSE]
  /\ sendq = <<>> /\ flight = [units |-> 0, after |-> "none"] /\ transport = "idle" /\ treads = {} /\ ttasks = <<>> /\ shell = "held"
  /\ records = 0 /\ wire = <<>> /\ asked = [c \in Calls |-> 0] /\ answered = [c \in Calls |-> 0] /\ nullWrite = FALSE

----------------------------------------------------------------------------
(* What a step does is a function of S, the state it found. *)
S == [tls |-> tls, sendq |-> sendq, flight |-> flight, transport |-> transport, treads |-> treads, ttasks |-> ttasks, records |-> records]

Becomes(s) ==
  /\ tls' = s.tls /\ sendq' = s.sendq /\ flight' = s.flight /\ transport' = s.transport /\ treads' = s.treads
  /\ ttasks' = s.ttasks /\ records' = s.records

Post(s, task) == [s EXCEPT !.ttasks = Append(@, task)]

(* NotifyConnect, NotifyReadError, NotifyWriteError, ClearPending *)
NotifyConnect(s, ok) == IF s.tls.connect THEN Post([s EXCEPT !.tls.connect = FALSE], [call |-> "connect", ok |-> ok]) ELSE s
NotifyRead(s, ok) == IF s.tls.read THEN Post([s EXCEPT !.tls.read = FALSE], [call |-> "read", ok |-> ok]) ELSE s
NotifyWrite(s, ok) == IF s.tls.write THEN Post([s EXCEPT !.tls.write = FALSE, !.tls.buf = FALSE], [call |-> "write", ok |-> ok]) ELSE s
ClearPending(s) == NotifyConnect(NotifyWrite(NotifyRead(s, FALSE), FALSE), FALSE)

(* BioSend: mbedtls puts a record into the send queue. *)
BioSend(s) == [s EXCEPT !.records = @ + 1, !.sendq = Append(@, [record |-> s.records + 1, offset |-> 0])]

Closed(s) == s.tls.state \in {"closing", "closed"}

(* RunHandshakeLoop with what mbedtls makes of it: it is done, with or without *)
(* a last flight of its own, it wants to read, with or without one, or it has  *)
(* failed.  What was produced is flushed first.                                *)
Steps == {"done", "doneFlight", "read", "readFlight", "failed"}

Connected(s) == NotifyConnect([s EXCEPT !.tls.state = "connected", !.tls.done = TRUE], TRUE)

StartFlush(s, after) == [s EXCEPT !.flight = [units |-> RecordSize - Head(s.sendq).offset, after |-> after]]

RunHandshakeLoop(s, step) ==
  LET out == IF step \in {"doneFlight", "readFlight"} THEN BioSend(s) ELSE s
  IN IF s.tls.completed \/ Closed(s) THEN s
     ELSE IF step \in {"done", "doneFlight"}
          THEN LET c == [out EXCEPT !.tls.completed = TRUE]
               IN IF c.sendq = <<>> THEN Connected(c) ELSE StartFlush(c, "notify")
     ELSE IF out.sendq # <<>> THEN StartFlush(out, "loop")
     ELSE IF step = "read" THEN [out EXCEPT !.treads = @ \cup {"handshake"}]
     ELSE NotifyConnect(out, FALSE)

Possible(s, step) == step \in {"doneFlight", "readFlight"} => s.records < MaxRecords

(* FlushBio without a continuation *)
FlushBio(s) == IF s.sendq # <<>> /\ s.flight.units = 0 THEN StartFlush(s, "none") ELSE s

(* FinalClose, CloseAfterFlush *)
FinalClose(s) == ClearPending([s EXCEPT !.tls.state = "closed", !.transport = "closed"])

CloseAfterFlush(s) ==
  IF s.sendq # <<>> \/ s.flight.units > 0 THEN FlushBio(s) ELSE FinalClose(s)

(* ShutdownWriteAfterFlush: the half-close of the transport waits for the      *)
(* send queue.                                                                 *)
ShutdownWriteAfterFlush(s) ==
  IF s.sendq # <<>> \/ s.flight.units > 0 THEN FlushBio(s) ELSE [s EXCEPT !.tls.shut = FALSE]

----------------------------------------------------------------------------
Idle == UNCHANGED <<shell, wire, asked, answered, nullWrite>>
Asks(c) == asked' = [asked EXCEPT ![c] = @ + 1]

(* Connect goes through the transport; StartHandshake, which TLSServerSocket   *)
(* and the tunnel use, starts at once.                                         *)
Connect ==
  /\ shell = "held" /\ tls.state = "idle" /\ asked["connect"] = 0 /\ Asks("connect")
  /\ Becomes([S EXCEPT !.tls.connect = TRUE, !.transport = "connecting"])
  /\ UNCHANGED <<shell, wire, answered, nullWrite>>

OnTcpConnect ==
  /\ transport = "connecting"
  /\ \/ Becomes(NotifyConnect([S EXCEPT !.transport = "up"], FALSE))
     \/ \E step \in Steps : Possible(S, step) /\ Becomes(RunHandshakeLoop([S EXCEPT !.transport = "up", !.tls.state = "handshaking"], step))
  /\ Idle

StartHandshake ==
  /\ shell = "held" /\ tls.state = "idle" /\ asked["connect"] = 0 /\ Asks("connect")
  /\ \E step \in Steps :
       Possible(S, step) /\ Becomes(RunHandshakeLoop([S EXCEPT !.tls.connect = TRUE, !.tls.state = "handshaking", !.transport = "up"], step))
  /\ UNCHANGED <<shell, wire, answered, nullWrite>>

(* TryReadDecrypt: plaintext, nothing yet - the transport is read -, or an error. *)
TryReadDecrypt(s, got) ==
  CASE got = "data" -> NotifyRead(s, TRUE)
    [] got = "want" -> [s EXCEPT !.treads = @ \cup {"data"}]
    [] OTHER -> NotifyRead(s, FALSE)

Gots == {"data", "want", "error"}

ReadAsync ==
  /\ shell = "held" /\ ~tls.read /\ asked["read"] < MaxCalls /\ asked["read"] = answered["read"] /\ tls.state # "idle" /\ Asks("read")
  /\ IF tls.state # "connected" THEN Becomes(Post(S, [call |-> "read", ok |-> FALSE]))
     ELSE \E got \in Gots : Becomes(TryReadDecrypt([S EXCEPT !.tls.read = TRUE], got))
  /\ UNCHANGED <<shell, wire, answered, nullWrite>>

(* OnTransportRead: ReadTransportForHandshake's and TryReadDecrypt's callbacks. *)
OnHandshakeRead ==
  /\ "handshake" \in treads
  /\ LET s == [S EXCEPT !.treads = @ \ {"handshake"}]
     IN \/ Becomes(IF Closed(s) THEN s ELSE NotifyConnect(s, FALSE))
        \/ ~Closed(s) /\ \E step \in Steps : Possible(s, step) /\ Becomes(RunHandshakeLoop(s, step))
  /\ Idle

OnDataRead ==
  /\ "data" \in treads
  /\ LET s == [S EXCEPT !.treads = @ \ {"data"}]
     IN \/ Becomes(IF Closed(s) THEN s ELSE NotifyRead(s, FALSE))
        \/ ~Closed(s) /\ \E got \in Gots : Becomes(TryReadDecrypt(s, got))
  /\ Idle

(* TryWriteEncrypt: mbedtls takes one piece of the plaintext and makes a       *)
(* record of it; what is left is tried again from a posted task.  It reads     *)
(* write_buf_ without looking whether it is still there.                       *)
TryWriteEncrypt(s) ==
  LET out == FlushBio(BioSend([s EXCEPT !.tls.left = @ - 1]))
  IN IF s.tls.left > 1 THEN Post(out, [call |-> "encrypt", ok |-> TRUE]) ELSE NotifyWrite(out, TRUE)

WriteAsync ==
  /\ shell = "held" /\ ~tls.write /\ asked["write"] < MaxCalls /\ asked["write"] = answered["write"] /\ tls.state # "idle" /\ Asks("write")
  /\ IF tls.state # "connected" THEN Becomes(Post(S, [call |-> "write", ok |-> FALSE]))
     ELSE \E pieces \in 1 .. 2 :
            /\ records + pieces <= MaxRecords
            /\ LET s == [S EXCEPT !.tls.write = TRUE, !.tls.buf = TRUE, !.tls.left = pieces]
               IN Becomes(TryWriteEncrypt(s)) \/ Becomes(NotifyWrite(s, FALSE))
  /\ UNCHANGED <<shell, wire, answered, nullWrite>>

----------------------------------------------------------------------------
(* The transport sends n of the units it was asked for - from the beginning of *)
(* the buffer, whatever the offset of the record - and FlushBio's callback     *)
(* goes on: the next record, what waits for the flush, a pending half-close,   *)
(* a pending close.                                                            *)
Sent(n) == [k \in 1 .. n |-> <<Head(sendq).record, k>>]

Advanced(s, n) ==
  LET o == Head(s.sendq).offset + n
  IN IF o >= RecordSize THEN [s EXCEPT !.sendq = Tail(@)] ELSE [s EXCEPT !.sendq[1].offset = o]

AfterFlush(s, after, step) ==
  IF s.sendq # <<>> THEN StartFlush(s, after)
  ELSE CASE after = "loop" -> RunHandshakeLoop(s, step) [] after = "notify" -> Connected(s) [] OTHER -> s

Continue(s, after, step) ==
  LET a == AfterFlush(s, after, step)
      b == IF a.tls.shut THEN ShutdownWriteAfterFlush(a) ELSE a
  IN IF b.tls.state = "closing" THEN CloseAfterFlush(b) ELSE b

OnWritten ==
  /\ flight.units > 0 /\ sendq # <<>> /\ transport = "up"
  /\ \E n \in 1 .. flight.units, step \in Steps :
       LET s == [S EXCEPT !.flight = [units |-> 0, after |-> "none"]]
       IN /\ n = flight.units \/ Partial
          /\ wire' = wire \o Sent(n)
          /\ Possible(s, step)
          /\ Becomes(Continue(Advanced(s, n), flight.after, step))
  /\ UNCHANGED <<shell, asked, answered, nullWrite>>

(* A transport that has failed a write does not take another; one that was     *)
(* closed fails what it had.                                                   *)
OnWriteFails ==
  /\ flight.units > 0
  /\ \E step \in Steps :
       LET s == [S EXCEPT !.flight = [units |-> 0, after |-> "none"], !.transport = IF @ = "up" THEN "broken" ELSE @]
       IN /\ Possible(s, step)
          /\ Becomes(IF tls.state = "closed" THEN s ELSE Continue([s EXCEPT !.sendq = <<>>], flight.after, step))
  /\ Idle

----------------------------------------------------------------------------
(* Close: close_notify after a finished handshake, then flush, then close. *)
Close ==
  /\ shell = "held" /\ ~Closed(S) /\ (tls.done => records < MaxRecords)
  /\ LET s == [S EXCEPT !.tls.state = "closing"] IN Becomes(CloseAfterFlush(IF tls.done THEN BioSend(s) ELSE s))
  /\ Idle

ShutdownWrite ==
  /\ shell = "held" /\ tls.state = "connected" /\ ~tls.shut /\ Becomes(ShutdownWriteAfterFlush([S EXCEPT !.tls.shut = TRUE]))
  /\ Idle

(* The public shell is destroyed: Orphan, posted when it is another thread. *)
Drop ==
  /\ shell = "held" /\ shell' = "gone" /\ Becomes(Post(S, [call |-> "orphan", ok |-> TRUE]))
  /\ UNCHANGED <<wire, asked, answered, nullWrite>>

(* A posted task runs: a callback, the rest of a write, or the orphan's end.   *)
RunCallback ==
  /\ ttasks # <<>> /\ Head(ttasks).call \in Calls
  /\ answered' = [answered EXCEPT ![Head(ttasks).call] = @ + 1] /\ Becomes([S EXCEPT !.ttasks = Tail(@)])
  /\ UNCHANGED <<shell, wire, asked, nullWrite>>

RunEncrypt ==
  /\ ttasks # <<>> /\ Head(ttasks).call = "encrypt"
  /\ LET s == [S EXCEPT !.ttasks = Tail(@)]
     IN IF tls.buf THEN (Becomes(TryWriteEncrypt(s)) \/ Becomes(NotifyWrite(s, FALSE))) /\ UNCHANGED nullWrite
        ELSE Becomes(s) /\ nullWrite' = TRUE
  /\ UNCHANGED <<shell, wire, asked, answered>>

RunOrphan ==
  /\ ttasks # <<>> /\ Head(ttasks).call = "orphan"
  /\ LET s == [S EXCEPT !.ttasks = Tail(@)] IN Becomes(IF tls.state = "closed" THEN s ELSE FinalClose(s))
  /\ Idle

Next ==
  \/ Connect \/ OnTcpConnect \/ StartHandshake \/ ReadAsync \/ OnHandshakeRead \/ OnDataRead \/ WriteAsync \/ OnWritten
  \/ OnWriteFails \/ Close \/ ShutdownWrite \/ Drop \/ RunCallback \/ RunEncrypt \/ RunOrphan

Spec == Init /\ [][Next]_tlsVars

----------------------------------------------------------------------------
TypeOK ==
  /\ tls.state \in {"idle", "handshaking", "connected", "closing", "closed"} /\ flight.units \in 0 .. RecordSize
  /\ treads \subseteq {"handshake", "data"} /\ records \in Nat /\ shell \in {"held", "gone"}
  /\ \A c \in Calls : answered[c] <= asked[c]

(* Whatever closes the socket and whenever, a closed one has answered every    *)
(* call - connect, read, write - exactly once.                                 *)
ClosedAnswers == tls.state = "closed" /\ ttasks = <<>> => answered = asked

(* The transport carries the records in order, each once and whole (where it   *)
(* completes its writes whole).                                                *)
Cipher == [k \in 1 .. RecordSize * records |-> <<((k - 1) \div RecordSize) + 1, ((k - 1) % RecordSize) + 1>>]

WireIsCipher == IsPrefix(wire, Cipher)

(* Violated: a socket that was told to close does not become connected again. *)
CloseCloses == [][tls.state = "closing" => tls'.state \in {"closing", "closed"}]_tlsVars

(* Violated: the rest of a large write finds its buffer. *)
NoNullWrite == ~nullWrite
=============================================================================
