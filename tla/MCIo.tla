-------------------------------- MODULE MCIo ---------------------------------
(***************************************************************************)
(* The input and output layer for model checking: sockets of both builds,  *)
(* name resolution, child processes, the pump, pipes, files, streams and   *)
(* watchers.  One behaviour is about one of them; they share the variables *)
(* s1 to s15.                                                              *)
(***************************************************************************)
EXTENDS Integers, Sequences

CONSTANT Parts         \* the parts this instance checks

(* The part a behaviour is about, and room for the variables of any one part. *)
VARIABLES part, s1, s2, s3, s4, s5, s6, s7, s8, s9, s10, s11, s12, s13, s14, s15

vars == <<part, s1, s2, s3, s4, s5, s6, s7, s8, s9, s10, s11, s12, s13, s14, s15>>

Pair == {1, 2}
Three == {1, 2, 3}
Four == {1, 2, 3, 4}
BothBuilds == {"posix", "win"}
BothDirections == {"read", "write"}
TransferIds == {11, 12}
ReadAndWrites == [o \in {"r", "w", "w2"} |-> IF o = "r" THEN "read" ELSE "write"]
(* All short texts of letters, CR and LF, and one that fills the buffer twice. *)
Texts == UNION {[1..n -> {"a", "r", "n"}] : n \in 0..4} \cup {<<"a", "n", "a", "r", "n", "n">>}
OnCallback == {"nothing", "cancel"}
Answers == {<<>>, <<"v4", "any", "v6">>, <<"other">>}

-----------------------------------------------------------------------------
ClientSocket == INSTANCE TcpClientSocket WITH
    WriteSize <- 2, MaxReads <- 1, MaxStray <- 1, Ops <- ReadAndWrites, sock <- s1, watch <- s2,
    kernel <- s3, io_runner <- s4, threads <- s5, request <- s6, late <- s7, reads <- s8,
    stray <- s9, wsock <- s1, handle <- s2, pending <- s3, wtasks <- s4, wowner <- s5,
    answer <- s6, monitor <- s7
ServerSocket == INSTANCE TcpServerSocket WITH
    Conns <- Pair, PoolSize <- 1, Clients <- Pair, MaxRetries <- 2, server <- s1, conn <- s2,
    closes <- s3, full <- s4, missed <- s5, runner <- s6, acceptor <- s7, owner <- s8,
    srv <- s1, pool <- s2, client <- s3, retries <- s4, accepts <- s5, stage <- s6, holder <- s7
Udp == INSTANCE UdpSocket WITH
    Sends <- Pair, Recvs <- {3}, MaxDatagrams <- 1, Ops <- Three, udp <- s1, queue <- s2,
    watch <- s3, kernel <- s4, ioTasks <- s5, ioThread <- s6, shell <- s7, asked <- s8,
    sentOrder <- s9, usock <- s1, inflight <- s2, aborted <- s3, calling <- s4, utasks <- s5,
    uowner <- s6, issued <- s7
Resolver == INSTANCE HostResolver WITH
    Queries <- Pair, Options <- Pair, Answers <- Answers, query <- s1, channels <- s2,
    context <- s3, resolver <- s4, runner <- s5, answered <- s6, orphaned <- s7, unfreed <- s8,
    dangling <- s9
Child == INSTANCE ChildProcess WITH
    Builds <- BothBuilds, MaxLaunches <- 2, MaxReads <- 1, os <- s1, kill <- s2, guard <- s3,
    core <- s4, child <- s5, signal <- s6, beats <- s7, checks <- s8, dispatch <- s9,
    seen <- s10, listener <- s11, target <- s12, reads <- s13, hung <- s14, used <- s15
Pump == INSTANCE IoPump WITH
    Systems <- BothBuilds, DoWorkLimit <- 2, MaxPosts <- 3, MaxWatches <- 3, build <- s1,
    deleg <- s2, wakes <- s3, next <- s4, quit <- s5, loop <- s6, table <- s7, mask <- s8,
    ready <- s9, watches <- s10, cutShort <- s11, stale <- s12
Pipe == INSTANCE PipeStream WITH
    Directions <- BothDirections, Requests <- Three, Length <- 3, DrainLimit <- 2,
    MaxMoved <- 4, Kinds <- BothDirections, Ops <- Four, dir <- s1, pipe <- s2, pipeQueue <- s3,
    room <- s4, armed <- s5, ioTasks <- s6, ioThread <- s7, made <- s8, answered <- s9,
    overtook <- s10, kind <- s1, wpipe <- s2, wqueue <- s3, held <- s4, packets <- s5,
    ptasks <- s6, inside <- s7, asked <- s8, told <- s9, skipped <- s10, byClose <- s11
File == INSTANCE AsyncFile WITH
    Transfers <- TransferIds, Opens <- Pair, MaxCloses <- 2, Chunks <- 2, Fds <- Pair,
    file <- s1, closeReq <- s2, active <- s3, fdTable <- s4, fioTasks <- s5, bgTasks <- s6,
    runnerUp <- s7, transfer <- s8, calls <- s9, fanswer <- s10, strayed <- s11, told <- s12,
    wfile <- s1, ops <- s2, active_io <- s3, pending_io <- s4, issuing <- s5, wftasks <- s6,
    opening <- s7, wfrunner <- s8, started <- s9, chunks <- s10, wcalls <- s11, wanswer <- s12,
    closeTold <- s13, stuck <- s14
Stream == INSTANCE Streams WITH
    Calls <- Three, Ask <- 2, FileSize <- 4, Text <- Texts, ChunkSize <- 3, Threshold <- 2,
    BodyLen <- 5, FileLen <- 2, High <- 3, Low <- 1, stream <- s1, front <- s2, target <- s3,
    backend <- s4, called <- s5, closeCalls <- s6, user <- s7, transferred <- s8,
    pipelined <- s9, source <- s1, text <- s2, consumed <- s3, active <- s4, alive <- s5,
    reading <- s6, batch <- s7, lines <- s8, trailing <- s9, flushes <- s10, xfer <- s1,
    success <- s2, body_done <- s3, finishing <- s4, download_paused <- s5,
    pending_writes <- s6, offset <- s7, total_bytes <- s8, arrived <- s9, onDisk <- s10,
    pull <- s11, uploaded <- s12, status <- s13, result <- s14, cut <- s15
Watcher == INSTANCE FileWatcher WITH
    MaxFiles <- 3, MaxWatches <- 2, MaxMoves <- 2, BufSize <- 2, InCallback <- OnCallback,
    Contexts <- Three, MaxChanges <- 3, watcher <- s1, wds <- s2, where <- s3, queue <- s4,
    batch <- s5, moves <- s6, made <- s7, got <- s8, owner <- s1, ctx <- s2, io <- s3,
    port <- s4, running <- s5, changes <- s6, freed <- s7, told <- s8

(* The room a part with k variables leaves is empty and stays so. *)
Empty15 == s15 = 0
Empty14 == s14 = 0 /\ Empty15
Empty13 == s13 = 0 /\ Empty14
Empty12 == s12 = 0 /\ Empty13
Empty11 == s11 = 0 /\ Empty12
Empty10 == s10 = 0 /\ Empty11
Empty9 == s9 = 0 /\ Empty10
Empty8 == s8 = 0 /\ Empty9
After7 == <<s8, s9, s10, s11, s12, s13, s14, s15>>
After8 == <<s9, s10, s11, s12, s13, s14, s15>>
After9 == <<s10, s11, s12, s13, s14, s15>>
After10 == <<s11, s12, s13, s14, s15>>
After11 == <<s12, s13, s14, s15>>
After12 == <<s13, s14, s15>>
After14 == <<s15>>

Init ==
  /\ part \in Parts
  /\ \/ part = "tcp_client" /\ ClientSocket!Init /\ Empty10
     \/ part = "tcp_client_win" /\ ClientSocket!WinInit /\ Empty8
     \/ part = "tcp_server" /\ ServerSocket!Init /\ Empty9
     \/ part = "tcp_server_win" /\ ServerSocket!WinInit /\ Empty8
     \/ part = "udp" /\ Udp!Init /\ Empty10
     \/ part = "udp_win" /\ Udp!WinInit /\ Empty8
     \/ part = "resolver" /\ Resolver!Init /\ Empty10
     \/ part = "child" /\ Child!Init
     \/ part = "pump" /\ Pump!Init /\ Empty13
     \/ part = "pipe" /\ Pipe!Init /\ Empty11
     \/ part = "pipe_win" /\ Pipe!WinInit /\ Empty12
     \/ part = "file" /\ File!Init /\ Empty13
     \/ part = "file_win" /\ File!WinInit /\ Empty15
     \/ part = "file_stream" /\ Stream!Init /\ Empty10
     \/ part = "lines" /\ Stream!LineInit /\ Empty11
     \/ part = "transfer" /\ Stream!TransferInit
     \/ part = "watcher" /\ Watcher!Init /\ Empty9
     \/ part = "watcher_win" /\ Watcher!WinInit /\ Empty9

Next ==
  /\ UNCHANGED part
  /\ \/ part = "tcp_client" /\ ClientSocket!Next /\ UNCHANGED After9
     \/ part = "tcp_client_win" /\ ClientSocket!WinNext /\ UNCHANGED After7
     \/ part = "tcp_server" /\ ServerSocket!Next /\ UNCHANGED After8
     \/ part = "tcp_server_win" /\ ServerSocket!WinNext /\ UNCHANGED After7
     \/ part = "udp" /\ Udp!Next /\ UNCHANGED After9
     \/ part = "udp_win" /\ Udp!WinNext /\ UNCHANGED After7
     \/ part = "resolver" /\ Resolver!Next /\ UNCHANGED After9
     \/ part = "child" /\ Child!Next
     \/ part = "pump" /\ Pump!Next /\ UNCHANGED After12
     \/ part = "pipe" /\ Pipe!Next /\ UNCHANGED After10
     \/ part = "pipe_win" /\ Pipe!WinNext /\ UNCHANGED After11
     \/ part = "file" /\ File!Next /\ UNCHANGED After12
     \/ part = "file_win" /\ File!WinNext /\ UNCHANGED After14
     \/ part = "file_stream" /\ Stream!Next /\ UNCHANGED After9
     \/ part = "lines" /\ Stream!LineNext /\ UNCHANGED After10
     \/ part = "transfer" /\ Stream!TransferNext
     \/ part = "watcher" /\ Watcher!Next /\ UNCHANGED After8
     \/ part = "watcher_win" /\ Watcher!WinNext /\ UNCHANGED After8

Spec == Init /\ [][Next]_vars

-----------------------------------------------------------------------------
(***************************************************************************)
(* Every variable of every part has its type.                              *)
(***************************************************************************)
TypesOK ==
  /\ part = "tcp_client" => ClientSocket!TypeOK
  /\ part = "tcp_client_win" => ClientSocket!WinTypeOK
  /\ part = "tcp_server" => ServerSocket!TypeOK
  /\ part = "tcp_server_win" => ServerSocket!WinTypeOK
  /\ part = "udp" => Udp!TypeOK
  /\ part = "udp_win" => Udp!WinTypeOK
  /\ part = "resolver" => Resolver!TypeOK
  /\ part = "child" => Child!TypeOK
  /\ part = "pump" => Pump!TypeOK
  /\ part = "pipe" => Pipe!TypeOK
  /\ part = "pipe_win" => Pipe!WinTypeOK
  /\ part = "file" => File!TypeOK
  /\ part = "file_win" => File!WinTypeOK
  /\ part = "file_stream" => Stream!TypeOK
  /\ part = "lines" => Stream!LineTypeOK
  /\ part = "transfer" => Stream!TransferTypeOK
  /\ part = "watcher" => Watcher!TypeOK
  /\ part = "watcher_win" => Watcher!WinTypeOK

(***************************************************************************)
(* Sockets, pipes, files and the resolver: a request that was taken is     *)
(* answered, once, through partial transfers, a full queue, Close from any *)
(* thread and the end of the owner; a child's death is told to its listener,*)
(* once and after its start; and the pump that drives them never sleeps    *)
(* beside a task, a timer or a descriptor that is ready.  Excepted are the *)
(* cases in which the code forgets a request: a read or write stored in a  *)
(* TCP socket that another thread has just closed (NeverABlackHole), and a *)
(* connection behind an error of accept at the end of a server             *)
(* (NobodyLeftBehind).                                                     *)
(***************************************************************************)
RequestsAnswered ==
  /\ part = "tcp_client" => ClientSocket!NoBlackHole
  /\ part = "tcp_client_win" => ClientSocket!LostOnlyByClose
  /\ part = "tcp_server" => ServerSocket!NobodyStranded
  /\ part = "tcp_server_win" => ServerSocket!TakenIsSettled
  /\ part = "udp" => Udp!NoRequestForgotten
  /\ part = "udp_win" => Udp!WinNoRequestForgotten
  /\ part = "resolver" => Resolver!ResolvesOnce
  /\ part = "child" => Child!ListenerProtocol /\ Child!DeathIsReported
  /\ part = "pump" => Pump!NothingSleepsThrough
  /\ part = "pipe" => Pipe!ExactlyOneCall /\ Pipe!NothingStalls
  /\ part = "pipe_win" => Pipe!NeverTwice
  /\ part = "file" => File!AnsweredOnce
  /\ part = "file_win" => File!NoTransferForgotten
  /\ part = "file_stream" => Stream!NoCallForgotten

(***************************************************************************)
(* A descriptor or handle, and the memory the kernel works in, stay until  *)
(* the last call that uses them has ended, and do not stay longer: an owner*)
(* that has gone leaves nothing open, and no child running that it kills on*)
(* close.  Excepted are the cases in which the code leaves something: the  *)
(* descriptor of a connect that ran after Close (OrphanAlwaysCloses), and a*)
(* child that cannot be watched or was declared hung (NeverAnOrphan).      *)
(***************************************************************************)
HandlesOutliveCalls ==
  /\ part = "tcp_client" => ClientSocket!OrphanCloses
  /\ part = "tcp_client_win" => ClientSocket!WinOrphanCloses
  /\ part = "tcp_server" => ServerSocket!GoneIsClosed
  /\ part = "tcp_server_win" => ServerSocket!OutlivesItsCalls
  /\ part = "udp" => Udp!GoneIsClosed
  /\ part = "child" => Child!NoOrphan
  /\ part = "pipe_win" => Pipe!HandleOutlivesOps
  /\ part = "file" => File!NoDescriptorLeaks
  /\ part = "file_win" => File!KernelBuffersLive
  /\ part = "watcher_win" => Watcher!OutlivesTheKernel

(***************************************************************************)
(* Datagrams leave in the order of their calls, stream calls see one       *)
(* continuous file, the lines of a text are its lines however the reads cut*)
(* it, a body and its file are the same, and a watcher reports files under *)
(* the names they have.                                                    *)
(***************************************************************************)
ContentInOrder ==
  /\ part = "udp" => Udp!SendsInOrder
  /\ part = "file_stream" => Stream!StreamIsOrdered
  /\ part = "lines" => Stream!LinesAreTheText
  /\ part = "transfer" => Stream!TransferIsKept
  /\ part = "watcher" => Watcher!TellsTheTruth
=============================================================================
