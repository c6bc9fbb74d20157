------------------------------- MODULE Streams -------------------------------
(***************************************************************************)
(* Streams over files (src/neixx/io and http_file_transfer): the adapters  *)
(* that give a file a position, the line reader, and the transfer of a body*)
(* to or from a file.                                                      *)
(***************************************************************************)
EXTENDS Integers, Sequences, FiniteSets, SequencesExt

-----------------------------------------------------------------------------
(***************************************************************************)
(* Streams over an AsyncFile: FileInputStreamAdapter and                   *)
(* FileOutputStreamAdapter (every call is marshalled to a target sequence, *)
(* every completion is posted back to it), AsyncFileInputStream (a lock, no *)
(* sequence), and the StreamReader or StreamWriter whose calls they serve. *)
(* The file completes requests in any order, with short reads.             *)
(***************************************************************************)
CONSTANTS Calls,       \* calls of ReadBytes/ReadString or WriteString: 1, 2, ...
          Ask,         \* bytes asked for by each
          FileSize     \* bytes in the file that is read

VARIABLES
  stream,      \* which stream, its position_/next_offset, closed_, read_in_flight, whether it exists
  front,       \* the StreamReader/StreamWriter exists
  target,      \* tasks of the target sequence
  backend,     \* requests the file has: call, offset
  called,      \* calls made
  closeCalls,  \* Close was called on the stream
  user,        \* user callbacks, in order: call, offset, bytes (0 for a failure)
  transferred, \* ranges the file has moved: call, offset, bytes
  pipelined    \* a call was made while another was at work

streamVars == <<stream, front, target, backend, called, closeCalls, user, transferred, pipelined>>

Init ==
  /\ \E k \in {"input", "output", "file"} : stream = [kind |-> k, pos |-> 0, closed |-> FALSE, busy |-> FALSE, alive |-> TRUE]
  /\ front = TRUE /\ target = <<>> /\ backend = {} /\ called = 0 /\ closeCalls = 0
  /\ user = <<>> /\ transferred = {} /\ pipelined = FALSE

Task(t, c, off, n) == [task |-> t, call |-> c, off |-> off, n |-> n]
Unanswered == {c \in 1 .. called : \A i \in DOMAIN user : user[i].call # c}

----------------------------------------------------------------------------
(* Calls.  StreamReader::ReadBytes, ReadString, StreamWriter::WriteString pass *)
(* the request on; the adapters post it, AsyncFileInputStream starts it or     *)
(* refuses it while another is in flight.                                      *)
Request ==
  /\ front /\ stream.alive /\ called + 1 \in Calls
  /\ LET c == called + 1
         refused == stream.closed \/ stream.busy
     IN /\ called' = c
        /\ pipelined' = (pipelined \/ Unanswered # {})
        /\ IF stream.kind # "file" THEN target' = Append(target, Task("start", c, 0, 0)) /\ UNCHANGED <<stream, backend>>
           ELSE IF refused THEN target' = Append(target, Task("tell", c, stream.pos, 0)) /\ UNCHANGED <<stream, backend>>
           ELSE /\ stream' = [stream EXCEPT !.busy = TRUE] /\ UNCHANGED target
                /\ backend' = backend \cup {[call |-> c, off |-> stream.pos]}
  /\ UNCHANGED <<front, closeCalls, user, transferred>>

Close ==
  /\ stream.alive /\ closeCalls = 0 /\ closeCalls' = 1
  /\ IF stream.kind = "file" THEN stream' = [stream EXCEPT !.closed = TRUE] /\ UNCHANGED target
     ELSE target' = Append(target, Task("close", 0, 0, 0)) /\ UNCHANGED stream
  /\ UNCHANGED <<front, backend, called, user, transferred, pipelined>>

(* The destructors invalidate the weak pointers of their callbacks.            *)
(* AsyncFileInputStream's callbacks share its state: destroying it closes it.  *)
DestroyStream ==
  /\ stream.alive /\ stream' = [stream EXCEPT !.alive = FALSE, !.closed = @ \/ stream.kind = "file"]
  /\ UNCHANGED <<front, target, backend, called, closeCalls, user, transferred, pipelined>>
DestroyFront ==
  /\ front /\ front' = FALSE
  /\ UNCHANGED <<stream, target, backend, called, closeCalls, user, transferred, pipelined>>

----------------------------------------------------------------------------
(* The file: AsyncFile completes a request, moving n bytes (0: it failed).     *)
(* Reads stop at the end of the file.                                          *)
Bytes(r) == IF stream.kind = "output" THEN {0, Ask} ELSE {n \in 0 .. Ask : r.off + n <= FileSize}

(* AsyncFileInputStream's completion runs here; the adapters post theirs. *)
Complete(r) ==
  /\ r \in backend /\ backend' = backend \ {r}
  /\ \E n \in Bytes(r) :
       /\ transferred' = IF n > 0 THEN transferred \cup {[call |-> r.call, off |-> r.off, n |-> n]} ELSE transferred
       /\ IF stream.kind = "file"
          THEN /\ stream' = [stream EXCEPT !.busy = FALSE, !.pos = @ + n]
               /\ target' = Append(target, Task("tell", r.call, r.off, IF stream.closed THEN 0 ELSE n))
          ELSE target' = Append(target, Task("deliver", r.call, r.off, n)) /\ UNCHANGED stream
  /\ UNCHANGED <<front, called, closeCalls, user, pipelined>>

----------------------------------------------------------------------------
(* Tasks of the target sequence. *)
AtHead(t) == target # <<>> /\ Head(target).task = t
Now == Head(target)

(* WriteAsyncOnTarget takes the range before the file has it. *)
Reserved(n) == IF stream.kind = "output" THEN n ELSE 0

(* ReadAsyncOnTarget, WriteAsyncOnTarget *)
Start ==
  /\ AtHead("start")
  /\ IF ~stream.alive THEN target' = Tail(target) /\ UNCHANGED <<stream, backend>>
     ELSE IF stream.closed
     THEN target' = Append(Tail(target), Task("tell", Now.call, stream.pos, 0)) /\ UNCHANGED <<stream, backend>>
     ELSE /\ target' = Tail(target) /\ backend' = backend \cup {[call |-> Now.call, off |-> stream.pos]}
          /\ stream' = [stream EXCEPT !.pos = @ + Reserved(Ask)]
  /\ UNCHANGED <<front, called, closeCalls, user, transferred, pipelined>>

(* The completion: position_ moves by what was read. *)
Advanced(n) == IF stream.kind = "input" THEN n ELSE 0

Deliver ==
  /\ AtHead("deliver")
  /\ IF ~stream.alive THEN target' = Tail(target) /\ UNCHANGED stream
     ELSE LET n == IF stream.closed THEN 0 ELSE Now.n
          IN /\ stream' = [stream EXCEPT !.pos = @ + Advanced(n)]
             /\ target' = Append(Tail(target), Task("tell", Now.call, Now.off, n))
  /\ UNCHANGED <<front, backend, called, closeCalls, user, transferred, pipelined>>

(* StreamReader's, StreamWriter's own trampoline: the user's callback. *)
Tell ==
  /\ AtHead("tell") /\ target' = Tail(target)
  /\ user' = IF front THEN Append(user, [call |-> Now.call, off |-> Now.off, n |-> Now.n]) ELSE user
  /\ UNCHANGED <<stream, front, backend, called, closeCalls, transferred, pipelined>>

CloseOnTarget ==
  /\ AtHead("close") /\ target' = Tail(target) /\ stream' = [stream EXCEPT !.closed = @ \/ stream.alive]
  /\ UNCHANGED <<front, backend, called, closeCalls, user, transferred, pipelined>>

Next == Request \/ Close \/ DestroyStream \/ DestroyFront \/ Start \/ Deliver \/ Tell \/ CloseOnTarget
        \/ \E r \in backend : Complete(r)

----------------------------------------------------------------------------
TypeOK ==
  /\ stream.kind \in {"input", "output", "file"} /\ stream.pos \in Nat /\ front \in BOOLEAN
  /\ called \in Calls \cup {0} /\ closeCalls \in {0, 1} /\ pipelined \in BOOLEAN

(* What the user reads is the file in order, byte after byte, whatever the     *)
(* lengths of the reads; writes, in whatever order they are done, never touch  *)
(* each other's range.  Reads of an adapter that overlap in time are excepted. *)
StreamIsOrdered ==
  /\ stream.kind = "output" =>
       \A a, b \in transferred : a.call # b.call => a.off + a.n <= b.off \/ b.off + b.n <= a.off
  /\ ~pipelined /\ stream.kind # "output" =>
       \A i \in 1 .. Len(user) - 1 : user[i + 1].n > 0 => user[i + 1].off = user[i].off + user[i].n

(* A call is answered unless the reader, the writer or the adapter it went     *)
(* through was destroyed.                                                      *)
NoCallForgotten ==
  front /\ (stream.alive \/ stream.kind = "file") =>
    \A c \in Unanswered : \/ \E r \in backend : r.call = c
                          \/ \E i \in DOMAIN target : target[i].call = c

-----------------------------------------------------------------------------
(***************************************************************************)
(* AsyncLineReader (async_line_reader.cpp) over a stream that is read in   *)
(* chunks, BufferInputStream (buffer_stream.cpp) among them: the text that *)
(* waits for its newline, the consumed prefix and when it is dropped, and  *)
(* the callback, which may flush or destroy the reader.                    *)
(***************************************************************************)
CONSTANTS Text,        \* texts of the stream: sequences over "a", "r" (CR), "n" (LF)
          ChunkSize,   \* kChunkSize
          Threshold    \* kTextBufferCompactionThreshold

VARIABLES
  source,      \* the stream: its text and cursor
  text,        \* text_buffer
  consumed,    \* consume_offset
  active,      \* started and line_callback is set
  alive,       \* the reader has not been destroyed
  reading,     \* a read is out
  batch,       \* completed_lines still to be delivered
  lines,       \* lines delivered
  trailing,    \* the stream has ended for the reader
  flushes      \* FlushPendingLine delivered something

lineVars == <<source, text, consumed, active, alive, reading, batch, lines, trailing, flushes>>

LineInit ==
  /\ \E t \in Text : source = [text |-> t, cursor |-> 0]
  /\ text = <<>> /\ consumed = 0 /\ active = FALSE /\ alive = TRUE /\ reading = FALSE /\ batch = <<>> /\ lines = <<>>
  /\ trailing = FALSE /\ flushes = 0

----------------------------------------------------------------------------
(* A line of buffer b that starts after s and ends at the newline e. *)
Newlines(b, s) == SetToSortSeq({i \in s + 1 .. Len(b) : b[i] = "n"}, <)
LineEnd(b, s, e) == IF e - 1 > s /\ b[e - 1] = "r" THEN e - 2 ELSE e - 1
LineStart(b, s, i) == IF i = 1 THEN s ELSE Newlines(b, s)[i - 1]
CompletedLines(b, s) ==
  [i \in DOMAIN Newlines(b, s) |-> SubSeq(b, LineStart(b, s, i) + 1, LineEnd(b, LineStart(b, s, i), Newlines(b, s)[i]))]

(* The consumed prefix is dropped at the threshold, and with it the offset;    *)
(* the mutant forgets the offset.                                              *)
CompactedKeepsOffset(b, c) ==
  IF c >= Threshold THEN <<SubSeq(b, c + 1, Len(b)), c>>
  ELSE IF c = Len(b) THEN <<<<>>, 0>> ELSE <<b, c>>
Compacted(b, c) ==
  IF c >= Threshold THEN <<SubSeq(b, c + 1, Len(b)), 0>>
  ELSE IF c = Len(b) THEN <<<<>>, 0>> ELSE <<b, c>>

(* StartReadingLines *)
StartReadingLines ==
  /\ alive /\ ~active /\ ~reading /\ active' = TRUE /\ reading' = TRUE
  /\ UNCHANGED <<source, text, consumed, alive, batch, lines, trailing, flushes>>

(* BufferInputStream::ReadAsync or another stream: up to a chunk, or less. *)
Available == Len(source.text) - source.cursor

(* OnChunkReceived with data *)
OnChunk(n) ==
  /\ reading /\ batch = <<>> /\ n \in 1 .. ChunkSize /\ n <= Available /\ reading' = FALSE
  /\ source' = [source EXCEPT !.cursor = @ + n]
  /\ LET b == text \o SubSeq(source.text, source.cursor + 1, source.cursor + n)
         nls == Newlines(b, consumed)
         c == IF nls = <<>> THEN consumed ELSE Last(nls)
     IN IF active THEN /\ text' = Compacted(b, c)[1] /\ consumed' = Compacted(b, c)[2]
                       /\ batch' = CompletedLines(b, consumed)
        ELSE text' = b /\ UNCHANGED <<consumed, batch>>
  /\ UNCHANGED <<active, alive, lines, trailing, flushes>>

(* The loop over completed_lines, one callback after another, which may        *)
(* destroy the reader; then the next read.                                     *)
DeliverLine ==
  /\ batch # <<>> /\ batch' = Tail(batch)
  /\ lines' = IF active THEN Append(lines, Head(batch)) ELSE lines
  /\ \E destroyed \in BOOLEAN : active' = (active /\ ~destroyed) /\ alive' = (alive /\ ~destroyed)
  /\ UNCHANGED <<source, text, consumed, reading, trailing, flushes>>
IssueNextRead ==
  /\ active /\ ~reading /\ batch = <<>> /\ reading' = TRUE
  /\ UNCHANGED <<source, text, consumed, active, alive, batch, lines, trailing, flushes>>

(* OnChunkReceived at the end of the stream or on an error *)
OnEnd ==
  /\ reading /\ batch = <<>> /\ Available = 0 /\ reading' = FALSE
  /\ IF active
     THEN /\ lines' = IF consumed < Len(text) THEN Append(lines, SubSeq(text, consumed + 1, Len(text))) ELSE lines
          /\ text' = <<>> /\ consumed' = 0 /\ active' = FALSE /\ trailing' = TRUE
     ELSE UNCHANGED <<lines, text, consumed, active, trailing>>
  /\ UNCHANGED <<source, alive, batch, flushes>>

(* FlushPendingLine, between chunks or from a callback *)
FlushPendingLine ==
  /\ active /\ consumed < Len(text) /\ flushes' = flushes + 1
  /\ lines' = Append(lines, SubSeq(text, consumed + 1, Len(text))) /\ text' = <<>> /\ consumed' = 0
  /\ UNCHANGED <<source, active, alive, reading, batch, trailing>>

(* ~AsyncLineReader: the state lives on in the callback of the read. *)
Destroy ==
  /\ alive /\ batch = <<>> /\ active' = FALSE /\ alive' = FALSE
  /\ UNCHANGED <<source, text, consumed, reading, batch, lines, trailing, flushes>>

LineNext == StartReadingLines \/ DeliverLine \/ IssueNextRead \/ OnEnd \/ FlushPendingLine \/ Destroy
        \/ \E n \in 1 .. ChunkSize : OnChunk(n)

----------------------------------------------------------------------------
LineTypeOK ==
  /\ source.text \in Text /\ source.cursor \in 0 .. Len(source.text) /\ consumed \in 0 .. Len(text)
  /\ active \in BOOLEAN /\ reading \in BOOLEAN /\ flushes \in Nat

(* The lines of the first n characters of the stream: what stands between two  *)
(* newlines, without the CR before the second; the last line, when the stream  *)
(* has ended, as it stands.                                                    *)
Reference(n) ==
  LET t == SubSeq(source.text, 1, n)
      ends == {0} \cup {i \in 1 .. n : t[i] = "n"}
      After(e) == {x \in ends : x > e}
      Between(e, x) == LET l == SubSeq(t, e + 1, x - 1)
                       IN IF l # <<>> /\ Last(l) = "r" THEN Front(l) ELSE l
      starts == SetToSortSeq({e \in ends : After(e) # {}}, <)
  IN [i \in DOMAIN starts |-> Between(starts[i], CHOOSE x \in After(starts[i]) : \A y \in After(starts[i]) : x <= y)]

Rest(n) ==
  LET ends == {0} \cup {i \in 1 .. n : source.text[i] = "n"}
      last == CHOOSE e \in ends : \A f \in ends : f <= e
  IN SubSeq(source.text, last + 1, n)

(* However the stream is cut into chunks - inside a line, between CR and LF -  *)
(* the lines delivered, and about to be, are the lines of what was read.       *)
LinesAreTheText ==
  flushes = 0 /\ alive =>
    lines \o batch = Reference(source.cursor)
                     \o (IF trailing /\ Rest(source.cursor) # <<>> THEN <<Rest(source.cursor)>> ELSE <<>>)

-----------------------------------------------------------------------------
(***************************************************************************)
(* DownloadToFile and UploadFromFile (http_file_transfer.cpp): a streamed  *)
(* body written chunk by chunk at a running offset, with the download      *)
(* paused while too many writes are in flight, and a file pulled chunk by  *)
(* chunk as a request body.  All callbacks run on the I/O thread.  The     *)
(* client and the file are their callbacks: a stream of the client ends    *)
(* with the same call whether the body is complete or the transport failed *)
(* (module HttpClient), writes complete in any order (module AsyncFile).   *)
(***************************************************************************)
CONSTANTS BodyLen, FileLen, High, Low

VARIABLES
  xfer,        \* [dir, pc]: "new", "opening", "sent", "closing", "done"
  success, body_done, finishing, download_paused, pending_writes, offset, total_bytes,
  arrived,     \* chunks of the body the client has delivered
  onDisk,      \* offsets written to the file
  pull,        \* an upload chunk: "none", "reads", "eof"
  uploaded,    \* chunks given to the client
  status,      \* what the server answered: "none", "ok", "error"
  result,      \* history: <<success, bytes>> of each call of on_done
  cut          \* history: the transport failed, or a read did

transferVars ==
  <<xfer, success, body_done, finishing, download_paused, pending_writes, offset, total_bytes, arrived, onDisk, pull, uploaded, status, result, cut>>
progress == <<body_done, finishing, download_paused, pending_writes, offset, total_bytes, arrived, onDisk>>
upload == <<pull, uploaded>>

TransferInit ==
  /\ \E dir \in {"download", "upload"} : xfer = [dir |-> dir, pc |-> "new"]
  /\ success = TRUE /\ body_done = FALSE /\ finishing = FALSE /\ download_paused = FALSE /\ pending_writes = {}
  /\ offset = 0 /\ total_bytes = 0 /\ arrived = 0 /\ onDisk = {} /\ pull = "none" /\ uploaded = 0
  /\ status = "none" /\ result = {} /\ cut = FALSE

OnDone(ok, n) == result' = result \cup {[ok |-> ok, bytes |-> n, call |-> Cardinality(result)]}
Downloading == xfer = [dir |-> "download", pc |-> "sent"] /\ ~body_done

----------------------------------------------------------------------------
(* AsyncFile::Create, OpenAsync and its callback. *)
TransferStart(ok) ==
  /\ xfer.pc = "new"
  /\ IF ok THEN xfer' = [xfer EXCEPT !.pc = "opening"] /\ UNCHANGED result
     ELSE xfer' = [xfer EXCEPT !.pc = "done"] /\ OnDone(FALSE, 0)
  /\ UNCHANGED <<success, status, cut>> /\ UNCHANGED progress /\ UNCHANGED upload
Opened(ok) ==
  /\ xfer.pc = "opening"
  /\ IF ok THEN xfer' = [xfer EXCEPT !.pc = "sent"] /\ UNCHANGED result
     ELSE xfer' = [xfer EXCEPT !.pc = "done"] /\ OnDone(FALSE, 0)
  /\ UNCHANGED <<success, status, cut>> /\ UNCHANGED progress /\ UNCHANGED upload

(* The callbacks of the streamed response. *)
OnHeaders(code) ==
  /\ Downloading /\ status = "none" /\ status' = code /\ success' = (success /\ code = "ok")
  /\ UNCHANGED <<xfer, result, cut>> /\ UNCHANGED progress /\ UNCHANGED upload
OnBody ==
  /\ Downloading /\ status # "none" /\ ~download_paused /\ arrived < BodyLen
  /\ arrived' = arrived + 1 /\ total_bytes' = total_bytes + 1
  /\ IF success
     THEN /\ pending_writes' = pending_writes \cup {offset} /\ offset' = offset + 1
          /\ download_paused' = (Cardinality(pending_writes') >= High)
     ELSE UNCHANGED <<pending_writes, offset, download_paused>>
  /\ UNCHANGED <<xfer, success, status, result, cut, body_done, finishing, onDisk>> /\ UNCHANGED upload

(* FinishIfDone. *)
Finishes(done, writes) == done /\ writes = {} /\ ~finishing
FinishIfDone(done, writes) ==
  IF Finishes(done, writes) THEN finishing' = TRUE /\ xfer' = [xfer EXCEPT !.pc = "closing"]
  ELSE UNCHANGED <<finishing, xfer>>

(* The end of the body: complete, or the transport failed. *)
OnBodyEnd(failed) ==
  /\ Downloading /\ (~failed => status # "none" /\ arrived = BodyLen /\ ~download_paused)
  /\ body_done' = TRUE /\ cut' = failed /\ FinishIfDone(TRUE, pending_writes)
  /\ UNCHANGED <<success, status, result, download_paused, pending_writes, offset, total_bytes, arrived, onDisk>> /\ UNCHANGED upload

(* A write completes; its callback may resume the download. *)
Resumes(writes) == download_paused /\ Cardinality(writes) <= Low
OnWrite(o, ok) ==
  /\ o \in pending_writes
  /\ LET writes == pending_writes \ {o} IN
     /\ pending_writes' = writes /\ success' = (success /\ ok) /\ onDisk' = IF ok THEN onDisk \cup {o} ELSE onDisk
     /\ download_paused' = (download_paused /\ ~Resumes(writes))
     /\ FinishIfDone(body_done, writes)
  /\ UNCHANGED <<status, result, cut, body_done, offset, total_bytes, arrived>> /\ UNCHANGED upload

(* The file is closed: on_done. *)
Closed ==
  /\ xfer.pc = "closing" /\ xfer' = [xfer EXCEPT !.pc = "done"]
  /\ IF xfer.dir = "download" THEN OnDone(success, total_bytes) ELSE OnDone(status = "ok", uploaded)
  /\ UNCHANGED <<success, status, cut>> /\ UNCHANGED progress /\ UNCHANGED upload

----------------------------------------------------------------------------
(* The upload's provider and the read it starts: an error ends the body as the *)
(* end of the file does.                                                       *)
Pull ==
  /\ xfer = [dir |-> "upload", pc |-> "sent"] /\ pull = "none" /\ status = "none" /\ pull' = "reads"
  /\ UNCHANGED <<xfer, success, status, result, cut, uploaded>> /\ UNCHANGED progress
OnRead(ok) ==
  /\ xfer.dir = "upload" /\ pull = "reads"
  /\ IF ok /\ offset < FileLen
     THEN offset' = offset + 1 /\ uploaded' = uploaded + 1 /\ pull' = "none" /\ UNCHANGED cut
     ELSE pull' = "eof" /\ cut' = (cut \/ (~ok /\ status = "none")) /\ UNCHANGED <<offset, uploaded>>
  /\ UNCHANGED <<xfer, success, status, result, body_done, finishing, download_paused, pending_writes, total_bytes, arrived, onDisk>>
(* The response, or its absence: the server may answer before the body ends.   *)
OnResponse(code) ==
  /\ xfer = [dir |-> "upload", pc |-> "sent"] /\ status' = code /\ xfer' = [xfer EXCEPT !.pc = "closing"]
  /\ UNCHANGED <<success, result, cut>> /\ UNCHANGED progress /\ UNCHANGED upload

TransferNext ==
  \/ \E ok \in BOOLEAN : TransferStart(ok) \/ Opened(ok) \/ OnRead(ok) \/ OnBodyEnd(ok)
  \/ \E code \in {"ok", "error"} : OnHeaders(code) \/ OnResponse(code)
  \/ \E o \in pending_writes, ok \in BOOLEAN : OnWrite(o, ok)
  \/ OnBody \/ Closed \/ Pull

Spec == TransferInit /\ [][TransferNext]_transferVars

----------------------------------------------------------------------------
TransferTypeOK == pending_writes \subseteq 0..BodyLen /\ status \in {"none", "ok", "error"} /\ pull \in {"none", "reads", "eof"}

(* However chunks, completions of writes and the end of the stream cross:      *)
(* on_done comes once, after the last write; when it reports success every     *)
(* byte it counts is on disk; a paused download has a write to resume it, and  *)
(* no more than High writes are in flight.                                     *)
TransferIsKept ==
  /\ Cardinality(result) <= 1 /\ Cardinality(pending_writes) <= High /\ (download_paused => Cardinality(pending_writes) > Low)
  /\ \A r \in result : pending_writes = {} /\ (r.ok /\ xfer.dir = "download" => onDisk = 0..(r.bytes - 1))

(* Violated: "On HTTP 2xx with all bytes written, on_done(true, bytes_written) *)
(* fires on the I/O thread; otherwise on_done(false, ...)": a transport that   *)
(* fails, before the headers or within the body, ends as success.              *)
DoneMeansAll == \A r \in result : r.ok /\ xfer.dir = "download" => ~cut

(* Violated: an upload whose read fails sends a shorter body and reports       *)
(* success.                                                                    *)
UploadIsWhole == \A r \in result : r.ok /\ xfer.dir = "upload" => ~cut
=============================================================================
