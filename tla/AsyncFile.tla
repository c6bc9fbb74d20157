------------------------------ MODULE AsyncFile ------------------------------
(***************************************************************************)
(* AsyncFilePosix (async_file_posix.cpp): a file opened, read, written and *)
(* closed from any thread.  Every call becomes a task of the I/O thread,   *)
(* the system calls are tasks of a background sequence, and their results  *)
(* come back as I/O tasks.  A request is done in chunks; between chunks it *)
(* is a task that carries a copy of the descriptor.                        *)
(***************************************************************************)
EXTENDS Integers, Sequences, FiniteSets, SequencesExt

CONSTANTS Transfers,   \* reads and writes
          Opens,       \* calls of OpenAsync: 1, 2, ...
          MaxCloses,   \* calls of CloseAsync
          Chunks,      \* chunks of a transfer
          Fds          \* descriptor numbers; the lowest free one is handed out

VARIABLES
  file,        \* state_, fd_, open_request_id_, pending_open_callback_, whether it exists
  closeReq,    \* close_requested_
  active,      \* active_ios_
  fdTable,     \* descriptor -> the open that created it, 0 when free
  fioTasks,    \* tasks of the I/O thread
  bgTasks,     \* tasks of the background sequence
  runnerUp,    \* the I/O runner accepts tasks
  transfer,    \* per transfer: chunks done, and the open it was started under
  calls,       \* calls made: opens and closes
  fanswer,     \* callbacks run, per open and transfer
  strayed,     \* a chunk was done on a descriptor of another open
  told         \* every close callback found no descriptor open

fileVars == <<file, closeReq, active, fdTable, fioTasks, bgTasks, runnerUp, transfer, calls, fanswer, strayed, told>>

Requests == Transfers \cup Opens

Init ==
  /\ file = [state |-> "disconnected", fd |-> 0, id |-> 0, pending |-> 0, life |-> "owned"]
  /\ closeReq = FALSE /\ active = {} /\ fdTable = [f \in Fds |-> 0] /\ fioTasks = <<>> /\ bgTasks = <<>> /\ runnerUp = TRUE
  /\ transfer = [t \in Transfers |-> [made |-> FALSE, done |-> 0, under |-> 0]]
  /\ calls = [open |-> 0, close |-> 0]
  /\ fanswer = [r \in Requests |-> 0] /\ strayed = FALSE /\ told = TRUE

Task(t, what, fd, n) == [task |-> t, what |-> what, fd |-> fd, n |-> n]
Answer(S) == fanswer' = [r \in Requests |-> fanswer[r] + (IF r \in S THEN 1 ELSE 0)]
PostIo(t) == fioTasks' = IF runnerUp THEN Append(fioTasks, t) ELSE fioTasks

----------------------------------------------------------------------------
(* Calls, on any thread. *)

OpenAsync(o) ==
  /\ file.life = "owned" /\ o = calls.open + 1 /\ calls' = [calls EXCEPT !.open = o]
  /\ PostIo(Task("open", o, 0, 0)) /\ Answer(IF runnerUp THEN {} ELSE {o})
  /\ UNCHANGED <<file, closeReq, active, fdTable, bgTasks, runnerUp, transfer, strayed, told>>

(* ReadAsync, WriteAsync: refused at once when a close was requested. *)
TransferAsync(t) ==
  /\ file.life = "owned" /\ ~transfer[t].made /\ transfer' = [transfer EXCEPT ![t].made = TRUE]
  /\ IF closeReq \/ ~runnerUp THEN Answer({t}) /\ UNCHANGED fioTasks
     ELSE PostIo(Task("start", t, 0, 0)) /\ UNCHANGED fanswer
  /\ UNCHANGED <<file, closeReq, active, fdTable, bgTasks, runnerUp, calls, strayed, told>>

(* CloseOnIoThread: open and transfers fail, the descriptor is closed by a     *)
(* background task, and the caller is told.                                    *)
Failed == active

CloseBody(life) ==
  IF file.state = "disconnected" /\ file.fd = 0
  THEN file' = [file EXCEPT !.life = life] /\ UNCHANGED <<active, bgTasks, fanswer, told>>
  ELSE /\ file' = [file EXCEPT !.life = life, !.state = "disconnected", !.id = @ + 1, !.pending = 0, !.fd = 0]
       /\ Answer(Failed \cup (Opens \cap {file.pending})) /\ active' = {}
       /\ bgTasks' = IF file.fd = 0 THEN bgTasks ELSE Append(bgTasks, Task("closefd", 0, file.fd, 0))
       /\ told' = (told /\ file.fd = 0)

(* CloseAsync: without an I/O runner it is done on the calling thread. *)
CloseAsync ==
  /\ file.life = "owned" /\ calls.close < MaxCloses /\ calls' = [calls EXCEPT !.close = @ + 1]
  /\ closeReq' = TRUE /\ PostIo(Task("close", 0, 0, 0))
  /\ IF runnerUp THEN UNCHANGED <<file, active, bgTasks, fanswer, told>> ELSE CloseBody("owned")
  /\ UNCHANGED <<fdTable, runnerUp, transfer, strayed>>

(* The destructor hands the implementation to DeleteSoon. *)
Destroy ==
  /\ file.life = "owned" /\ file' = [file EXCEPT !.life = "released"] /\ PostIo(Task("delete", 0, 0, 0))
  /\ UNCHANGED <<closeReq, active, fdTable, bgTasks, runnerUp, transfer, calls, fanswer, strayed, told>>

----------------------------------------------------------------------------
(* Tasks of the I/O thread. *)
IoTask(t) == fioTasks # <<>> /\ Head(fioTasks).task = t
Now == Head(fioTasks)
Done == fioTasks' = Tail(fioTasks)
Gone == file.life = "gone"

(* OpenAsyncOnIoThread: a new open clears the close request. *)
OpenOnIoThread ==
  /\ IoTask("open") /\ Done
  /\ IF file.state # "disconnected" THEN Answer({Now.what}) /\ UNCHANGED <<file, closeReq, bgTasks>>
     ELSE /\ file' = [file EXCEPT !.state = "opening", !.pending = Now.what, !.id = @ + 1]
          /\ closeReq' = FALSE /\ UNCHANGED fanswer
          /\ bgTasks' = Append(bgTasks, Task("open", Now.what, 0, file.id + 1))
  /\ UNCHANGED <<active, fdTable, runnerUp, transfer, calls, strayed, told>>

(* OnOpenCompletedOnIoThread: the descriptor of an open that is not awaited    *)
(* any more is closed.                                                         *)
Stale(n) == file.state # "opening" \/ n # file.id

OnOpenCompleted ==
  /\ IoTask("opened") /\ Done
  /\ IF Gone THEN
       /\ fdTable' = [f \in Fds |-> IF f = Now.fd THEN 0 ELSE fdTable[f]] /\ UNCHANGED <<file, bgTasks, fanswer>>
     ELSE IF Stale(Now.n) THEN
       /\ bgTasks' = IF Now.fd = 0 THEN bgTasks ELSE Append(bgTasks, Task("closefd", 0, Now.fd, 0))
       /\ UNCHANGED <<file, fanswer, fdTable>>
     ELSE /\ UNCHANGED fdTable
          /\ file' = [file EXCEPT !.state = IF Now.fd = 0 THEN "disconnected" ELSE "connected", !.fd = Now.fd, !.pending = 0]
          /\ Answer(Opens \cap {file.pending}) /\ UNCHANGED bgTasks
  /\ UNCHANGED <<closeReq, active, runnerUp, transfer, calls, strayed, told>>

(* StartReadOnIoThread, StartWriteOnIoThread, to the first dispatch. *)
Start ==
  /\ IoTask("start") /\ Done
  /\ LET t == Now.what
     IN IF file.state # "connected" \/ file.fd = 0 THEN Answer({t}) /\ UNCHANGED <<active, bgTasks, transfer>>
        ELSE /\ transfer' = [transfer EXCEPT ![t].under = fdTable[file.fd]]
             /\ IF closeReq THEN Answer({t}) /\ UNCHANGED <<active, bgTasks>>
                ELSE active' = active \cup {t} /\ bgTasks' = Append(bgTasks, Task("chunk", t, file.fd, 0)) /\ UNCHANGED fanswer
  /\ UNCHANGED <<file, closeReq, fdTable, runnerUp, calls, strayed, told>>

(* DispatchChunkToBackground, with the descriptor the task carries. *)
DispatchChunk ==
  /\ IoTask("dispatch") /\ Done
  /\ IF closeReq
     THEN Answer(active \cap {Now.what}) /\ active' = active \ {Now.what} /\ UNCHANGED bgTasks
     ELSE bgTasks' = Append(bgTasks, Task("chunk", Now.what, Now.fd, 0)) /\ UNCHANGED <<fanswer, active>>
  /\ UNCHANGED <<file, closeReq, fdTable, runnerUp, transfer, calls, strayed, told>>

(* OnChunkCompletedOnIoThread for a transfer: one that is not active any more  *)
(* has been answered.                                                          *)
ChunkCompleted(t, ok, rest) ==
  LET last == transfer[t].done + 1 = Chunks
      answered == ~ok \/ last \/ file.state # "connected" \/ file.fd = 0
  IN IF t \notin active THEN fioTasks' = rest /\ UNCHANGED <<active, transfer, fanswer>>
     ELSE /\ transfer' = [transfer EXCEPT ![t].done = IF ok /\ ~last THEN @ + 1 ELSE @]
          /\ Answer(IF answered THEN {t} ELSE {})
          /\ active' = IF answered THEN active \ {t} ELSE active
          /\ fioTasks' = IF answered \/ ~runnerUp THEN rest ELSE Append(rest, Task("dispatch", t, file.fd, 0))

OnChunkCompleted ==
  /\ IoTask("chunk") /\ ChunkCompleted(Now.what, Now.n = 1, Tail(fioTasks))
  /\ UNCHANGED <<file, closeReq, fdTable, bgTasks, runnerUp, calls, strayed, told>>

CloseOnIoThread ==
  /\ IoTask("close") /\ Done /\ CloseBody(file.life)
  /\ UNCHANGED <<closeReq, fdTable, runnerUp, transfer, calls, strayed>>

(* DeleteSoon: the destructor closes; a task that comes later finds no file,   *)
(* and one that carries a descriptor closes it.                                *)
Delete ==
  /\ IoTask("delete") /\ CloseBody("gone")
  /\ fioTasks' = SelectSeq(Tail(fioTasks), LAMBDA t : t.task = "opened")
  /\ UNCHANGED <<closeReq, fdTable, runnerUp, transfer, calls, strayed>>

----------------------------------------------------------------------------
(* Tasks of the background sequence. *)
BgTask(t) == bgTasks # <<>> /\ Head(bgTasks).task = t
Bg == Head(bgTasks)
Free == {f \in Fds : fdTable[f] = 0}

(* open: what cannot be posted back is closed here. *)
BgOpen ==
  /\ BgTask("open") /\ bgTasks' = Tail(bgTasks)
  /\ \/ PostIo(Task("opened", Bg.what, 0, Bg.n)) /\ UNCHANGED fdTable
     \/ \E f \in Free :
          /\ \A g \in Free : f <= g
          /\ PostIo(Task("opened", Bg.what, f, Bg.n))
          /\ fdTable' = IF runnerUp THEN [fdTable EXCEPT ![f] = Bg.what] ELSE fdTable
  /\ UNCHANGED <<file, closeReq, active, runnerUp, transfer, calls, fanswer, strayed, told>>

(* A chunk, skipped when a close is requested by now; the result is taken here *)
(* when it cannot be posted back.                                              *)
BgChunk ==
  /\ BgTask("chunk") /\ bgTasks' = Tail(bgTasks)
  /\ \E ok \in IF closeReq THEN {0} ELSE {0, 1} :
       IF Gone THEN UNCHANGED <<active, transfer, fanswer, fioTasks>>
       ELSE IF runnerUp THEN PostIo(Task("chunk", Bg.what, 0, ok)) /\ UNCHANGED <<active, transfer, fanswer>>
       ELSE ChunkCompleted(Bg.what, ok = 1, fioTasks)
  /\ strayed' = (strayed \/ (~closeReq /\ ~Gone /\ fdTable[Bg.fd] # transfer[Bg.what].under))
  /\ UNCHANGED <<file, closeReq, fdTable, runnerUp, calls, told>>

BgClose ==
  /\ BgTask("closefd") /\ bgTasks' = Tail(bgTasks) /\ fdTable' = [fdTable EXCEPT ![Bg.fd] = 0]
  /\ UNCHANGED <<file, closeReq, active, fioTasks, runnerUp, transfer, calls, fanswer, strayed, told>>

(* The I/O thread ends: its runner refuses tasks, those it has are dropped. *)
RunnerEnds ==
  /\ runnerUp /\ runnerUp' = FALSE /\ fioTasks' = <<>>
  /\ UNCHANGED <<file, closeReq, active, fdTable, bgTasks, transfer, calls, fanswer, strayed, told>>

Next ==
  \/ CloseAsync \/ Destroy \/ OpenOnIoThread \/ OnOpenCompleted \/ Start \/ DispatchChunk \/ OnChunkCompleted
  \/ CloseOnIoThread \/ Delete \/ BgOpen \/ BgChunk \/ BgClose \/ RunnerEnds
  \/ \E o \in Opens : OpenAsync(o)
  \/ \E t \in Transfers : TransferAsync(t)

----------------------------------------------------------------------------
TypeOK ==
  /\ file.state \in {"disconnected", "opening", "connected"} /\ file.fd \in Fds \cup {0}
  /\ active \subseteq Transfers /\ fdTable \in [Fds -> Opens \cup {0}]

Holds(seq, t, r) == \E i \in DOMAIN seq : seq[i].task = t /\ seq[i].what = r

(* Every request is answered once: it waits in a task, is pending or active,   *)
(* or has had its callback - while there is an I/O thread; when it ends, what  *)
(* was queued there is lost.                                                   *)
AnsweredOnce ==
  /\ \A r \in Requests : fanswer[r] <= 1
  /\ \A t \in active : fanswer[t] = 0
  /\ runnerUp =>
       /\ \A t \in Transfers : transfer[t].made /\ fanswer[t] = 0 => t \in active \/ Holds(fioTasks, "start", t)
       /\ \A o \in 1 .. calls.open : fanswer[o] = 0 => file.pending = o \/ Holds(fioTasks, "open", o)
       /\ \A t \in active : \E seq \in {fioTasks, bgTasks} : \E i \in DOMAIN seq : seq[i].what = t

(* Every descriptor is the file's, is on its way to it or will be closed. *)
NoDescriptorLeaks ==
  runnerUp => \A f \in Fds : fdTable[f] # 0 =>
    \/ file.fd = f
    \/ \E i \in DOMAIN fioTasks : fioTasks[i].task = "opened" /\ fioTasks[i].fd = f
    \/ \E i \in DOMAIN bgTasks : bgTasks[i].task = "closefd" /\ bgTasks[i].fd = f

(* A chunk of a request that was closed is skipped (the comments of            *)
(* DispatchChunkToBackground): no chunk is done on a descriptor of another     *)
(* open.  (Violated: a new open clears the close request while the next chunk  *)
(* of a cancelled request is still queued with the old descriptor.)            *)
NoStrayIo == ~strayed

(* CloseCallback is called when the underlying handle is closed (async_file.h).*)
(* (Violated: the close is only posted by then.)                               *)
ClosedWhenTold == told

-----------------------------------------------------------------------------
(***************************************************************************)
(* AsyncFileWin (async_file_win.cpp): overlapped file I/O.  Calls become   *)
(* tasks of the I/O thread; one transfer at a time is with the kernel and  *)
(* its completion comes back as a packet (or, when it was immediate, as a  *)
(* task).  Close cancels what the kernel has and ends when the last packet *)
(* arrived; a destroyed file deletes itself then.                          *)
(***************************************************************************)
VARIABLES
  wfile,       \* state_, file_handle_, open_request_id_, pending callbacks, is_orphaned_, whether it exists
  ops,         \* pending_operations_
  active_io,   \* active_io_, 0 when none
  pending_io,  \* pending_io_: transfer -> with the "kernel", "done" at once, or "none"
  issuing,     \* the transfer IssueNextChunkOnIoThread is at work on, 0 when none
  wftasks,     \* tasks of the I/O thread
  opening,     \* tasks of the background runner: ids of opens
  wfrunner,    \* the I/O thread: "up", "closing" (refuses tasks) or "down"
  started,     \* transfers asked for
  chunks,      \* chunks done, per transfer
  wcalls,      \* opens and closes asked for
  wanswer,     \* opens and transfers whose callback has run
  closeTold,   \* close callbacks run
  stuck        \* the I/O thread waits for a lock that it holds

fileWinVars == <<wfile, ops, active_io, pending_io, issuing, wftasks, opening, wfrunner, started, chunks, wcalls,
                 wanswer, closeTold, stuck>>

WinRequests == Transfers \cup Opens
NoCallback == 0

WinInit ==
  /\ wfile = [state |-> "disconnected", handle |-> FALSE, id |-> 0, open |-> NoCallback, close |-> NoCallback,
              orphan |-> FALSE, life |-> "owned"]
  /\ ops = <<>> /\ active_io = 0 /\ pending_io = [t \in Transfers |-> "none"] /\ issuing = 0 /\ wftasks = <<>>
  /\ opening = <<>> /\ wfrunner = "up" /\ started = {} /\ chunks = [t \in Transfers |-> 0]
  /\ wcalls = [open |-> 0, close |-> 0] /\ wanswer = {} /\ closeTold = {} /\ stuck = FALSE

WinTask(t, what) == [task |-> t, what |-> what]
Answers(S) == wanswer' = wanswer \cup S        \* a callback is moved out when it is run
InKernel == {t \in Transfers : pending_io[t] # "none"}
Pending(f) == Opens \cap {f.open}
Idle(f) == f.state = "disconnected" /\ ~f.handle

----------------------------------------------------------------------------
(* Closing, as part of the handlers below. *)

(* MaybeCompleteCloseOnIoThread: the close ends when the kernel has no         *)
(* buffer of ours.                                                             *)
Drained(kernel) == kernel = {}

CompleteClose(f, kernel) ==
  IF f.state = "closing" /\ Drained(kernel)
  THEN [f EXCEPT !.state = "disconnected", !.handle = FALSE, !.close = NoCallback,
                 !.life = IF f.orphan THEN "gone" ELSE @]
  ELSE f
ToldBy(f, kernel) == IF f.state = "closing" /\ Drained(kernel) THEN {f.close} \ {NoCallback} ELSE {}

(* CloseOnIoThread without force: what is queued fails, what the kernel has is *)
(* cancelled and stays.                                                        *)
FailedQueued == ToSet(ops)

Close(f) ==
  IF Idle(f) \/ f.state = "closing"
  THEN wfile' = f /\ UNCHANGED <<ops, wanswer, closeTold>>
  ELSE LET g == [f EXCEPT !.state = "closing", !.id = @ + 1, !.open = NoCallback]
       IN /\ wfile' = CompleteClose(g, InKernel) /\ closeTold' = closeTold \cup ToldBy(g, InKernel)
          /\ ops' = <<>> /\ Answers(FailedQueued \cup Pending(f))

(* ForceSyncCloseOnIoThread: waits for the kernel, then fails everything. *)
ForceSyncClose(f) ==
  IF Idle(f) THEN wfile' = f /\ UNCHANGED <<ops, active_io, pending_io, wanswer, closeTold>>
  ELSE /\ wfile' = [f EXCEPT !.state = "disconnected", !.handle = FALSE, !.id = @ + 1, !.open = NoCallback,
                             !.close = NoCallback, !.life = IF f.orphan THEN "gone" ELSE @]
       /\ ops' = <<>> /\ active_io' = 0 /\ pending_io' = [t \in Transfers |-> "none"]
       /\ Answers(ToSet(ops) \cup InKernel \cup (Transfers \cap {active_io}) \cup Pending(f))
       /\ closeTold' = closeTold \cup ({f.close} \ {NoCallback})

----------------------------------------------------------------------------
(* Calls, on the owner's thread. *)
Accepts == wfrunner = "up"
Post(t) == wftasks' = IF Accepts THEN Append(wftasks, t) ELSE wftasks

WinOpenAsync(o) ==
  /\ wfile.life = "owned" /\ o = wcalls.open + 1 /\ wcalls' = [wcalls EXCEPT !.open = o]
  /\ Post(WinTask("open", o)) /\ Answers(IF Accepts THEN {} ELSE {o})
  /\ UNCHANGED <<wfile, ops, active_io, pending_io, issuing, opening, wfrunner, started, chunks, closeTold, stuck>>

(* ReadAsync, WriteAsync *)
WinTransferAsync(t) ==
  /\ wfile.life = "owned" /\ t \notin started /\ started' = started \cup {t}
  /\ Post(WinTask("enqueue", t)) /\ Answers(IF Accepts THEN {} ELSE {t})
  /\ UNCHANGED <<wfile, ops, active_io, pending_io, issuing, opening, wfrunner, chunks, wcalls, closeTold, stuck>>

(* Not while the I/O thread is in the middle of a call: the lock it takes      *)
(* several times there is not modelled.                                        *)
WinCloseAsync ==
  /\ wfile.life = "owned" /\ wcalls.close < MaxCloses
  /\ LET c == wcalls.close + 1
     IN /\ wcalls' = [wcalls EXCEPT !.close = c] /\ Post(WinTask("close", c))
        /\ IF Accepts THEN UNCHANGED <<wfile, ops, active_io, pending_io, wanswer, closeTold>>
           ELSE issuing = 0 /\ ~stuck /\ ForceSyncClose([wfile EXCEPT !.close = c])
  /\ UNCHANGED <<issuing, opening, wfrunner, started, chunks, stuck>>

(* ~AsyncFileWin, CancelAndSelfDestruct(true) when the thread is gone. *)
WinDestroy ==
  /\ wfile.life = "owned" /\ Post(WinTask("destruct", 0))
  /\ IF Accepts
     THEN wfile' = [wfile EXCEPT !.life = "released"] /\ UNCHANGED <<ops, active_io, pending_io, wanswer, closeTold>>
     ELSE issuing = 0 /\ ~stuck /\ ForceSyncClose([wfile EXCEPT !.life = "released", !.orphan = TRUE])
  /\ UNCHANGED <<issuing, opening, wfrunner, started, chunks, wcalls, stuck>>

----------------------------------------------------------------------------
(* Tasks of the I/O thread. *)
WinFree == issuing = 0 /\ ~stuck /\ wfrunner # "down"
WinIoTask(t) == WinFree /\ wftasks # <<>> /\ Head(wftasks).task = t
WinNow == Head(wftasks).what
Exists == wfile.life # "gone"

(* MaybeStartNextOperationOnIoThread, of a connected file with queue q; an     *)
(* append may fail to find the end of the file, and then nothing is started.   *)
StartNext(q, answered) ==
  /\ ops' = Tail(q)
  /\ \/ issuing' = Head(q) /\ active_io' = Head(q) /\ Answers(answered)
     \/ issuing' = 0 /\ active_io' = 0 /\ Answers(answered \cup {Head(q)})

(* OpenAsyncOnIoThread *)
WinOpenOnIoThread ==
  /\ WinIoTask("open") /\ Exists /\ wftasks' = Tail(wftasks)
  /\ IF wfile.state # "disconnected" THEN Answers({WinNow}) /\ UNCHANGED <<wfile, opening>>
     ELSE /\ wfile' = [wfile EXCEPT !.state = "opening", !.open = WinNow, !.id = @ + 1]
          /\ opening' = Append(opening, wfile.id + 1) /\ UNCHANGED wanswer
  /\ UNCHANGED <<ops, active_io, pending_io, issuing, wfrunner, started, chunks, wcalls, closeTold, stuck>>

(* The background task: CreateFileW, posted back with or without a handle. *)
WinBgOpen(ok) ==
  /\ opening # <<>> /\ opening' = Tail(opening)
  /\ Post([task |-> IF ok THEN "opened" ELSE "failed", what |-> Head(opening)])
  /\ UNCHANGED <<wfile, ops, active_io, pending_io, issuing, wfrunner, started, chunks, wcalls, wanswer, closeTold, stuck>>

(* OnOpenCompletedOnIoThread: the handle of a stale open is closed. *)
WinOnOpenCompleted ==
  /\ \E t \in {"opened", "failed"} : WinIoTask(t)
  /\ wftasks' = Tail(wftasks)
  /\ IF ~Exists \/ wfile.state # "opening" \/ WinNow # wfile.id THEN UNCHANGED <<wfile, wanswer>>
     ELSE LET ok == Head(wftasks).task = "opened"
          IN /\ wfile' = [wfile EXCEPT !.state = IF ok THEN "connected" ELSE "disconnected", !.handle = ok,
                                       !.open = NoCallback]
             /\ Answers(Pending(wfile))
  /\ UNCHANGED <<ops, active_io, pending_io, issuing, opening, wfrunner, started, chunks, wcalls, closeTold, stuck>>

(* EnqueueOperationOnIoThread *)
Enqueue ==
  /\ WinIoTask("enqueue") /\ Exists /\ wftasks' = Tail(wftasks)
  /\ IF wfile.state # "connected" THEN Answers({WinNow}) /\ UNCHANGED <<ops, active_io, issuing>>
     ELSE IF active_io = 0 THEN StartNext(Append(ops, WinNow), {})
     ELSE ops' = Append(ops, WinNow) /\ UNCHANGED <<active_io, issuing, wanswer>>
  /\ UNCHANGED <<wfile, pending_io, opening, wfrunner, started, chunks, wcalls, closeTold, stuck>>

(* FinalizeOperationOnIoThread: answer, start the next, end a close. *)
Finalize(t, kernel) ==
  /\ IF active_io \in {0, t} /\ wfile.state = "connected" /\ ops # <<>> THEN StartNext(ops, {t})
     ELSE Answers({t}) /\ issuing' = 0 /\ active_io' = (IF active_io = t THEN 0 ELSE active_io) /\ UNCHANGED ops
  /\ wfile' = CompleteClose(wfile, kernel) /\ closeTold' = closeTold \cup ToldBy(wfile, kernel)

(* IssueNextChunkOnIoThread: the kernel takes the chunk, does it at once (a    *)
(* task; without a runner the transfer and the file end here), or refuses.     *)
IssueNextChunk ==
  /\ issuing # 0 /\ ~stuck /\ wfrunner # "down"
  /\ LET t == issuing
     IN \/ /\ pending_io' = [pending_io EXCEPT ![t] = "kernel"] /\ issuing' = 0
           /\ UNCHANGED <<wfile, ops, active_io, wftasks, wanswer, closeTold>>
        \/ /\ Accepts /\ pending_io' = [pending_io EXCEPT ![t] = "done"] /\ issuing' = 0
           /\ Post(WinTask("chunk", t)) /\ UNCHANGED <<wfile, ops, active_io, wanswer, closeTold>>
        \/ /\ ~Accepts /\ issuing' = 0 /\ UNCHANGED wftasks
           /\ ForceSyncClose(wfile)
        \/ Finalize(t, InKernel) /\ UNCHANGED <<wftasks, pending_io>>
  /\ UNCHANGED <<opening, wfrunner, started, chunks, wcalls, stuck>>

(* The posted next chunk.  When the file is not connected any more the         *)
(* transfer is finished inside the lock that FinalizeOperationOnIoThread takes *)
(* again.                                                                      *)
IssuePosted ==
  /\ WinIoTask("issue") /\ Exists /\ wftasks' = Tail(wftasks)
  /\ IF wfile.state = "connected" THEN issuing' = WinNow /\ UNCHANGED <<wanswer, stuck>>
     ELSE Answers({WinNow}) /\ stuck' = TRUE /\ UNCHANGED issuing
  /\ UNCHANGED <<wfile, ops, active_io, pending_io, opening, wfrunner, started, chunks, wcalls, closeTold>>

(* OnChunkCompletedOnIoThread *)
WinChunkCompleted(t, ok, rest) ==
  /\ pending_io' = [pending_io EXCEPT ![t] = "none"]
  /\ IF ok /\ chunks[t] + 1 < Chunks
     THEN /\ chunks' = [chunks EXCEPT ![t] = @ + 1]
          /\ IF Accepts
             THEN wftasks' = Append(rest, WinTask("issue", t)) /\ UNCHANGED <<wfile, ops, active_io, issuing, wanswer, closeTold>>
             ELSE /\ wftasks' = rest /\ UNCHANGED issuing
                  /\ wfile' = [wfile EXCEPT !.state = "disconnected", !.handle = FALSE, !.id = @ + 1, !.open = NoCallback,
                                            !.close = NoCallback, !.life = IF wfile.orphan THEN "gone" ELSE @]
                  /\ ops' = <<>> /\ active_io' = 0
                  /\ Answers({t} \cup ToSet(ops) \cup Pending(wfile))
                  /\ closeTold' = closeTold \cup ({wfile.close} \ {NoCallback})
     ELSE wftasks' = rest /\ Finalize(t, InKernel \ {t}) /\ UNCHANGED chunks
  /\ UNCHANGED <<opening, wfrunner, started, wcalls, stuck>>

(* OnIOCompleted: a packet; a cancelled one comes with an error. *)
OnIOCompleted(t) ==
  /\ WinFree /\ Exists /\ pending_io[t] = "kernel"
  /\ \E ok \in BOOLEAN : WinChunkCompleted(t, ok, wftasks)

OnInlineCompleted ==
  /\ WinIoTask("chunk") /\ Exists
  /\ IF pending_io[WinNow] = "done" THEN WinChunkCompleted(WinNow, TRUE, Tail(wftasks))
     ELSE /\ wftasks' = Tail(wftasks)
          /\ UNCHANGED <<wfile, ops, active_io, pending_io, issuing, opening, wfrunner, started, chunks, wcalls, wanswer,
                         closeTold, stuck>>

(* CloseOnIoThread(false, callback): the callback takes the place of one that  *)
(* still waits.                                                                *)
WinCloseOnIoThread ==
  /\ WinIoTask("close") /\ Exists /\ wftasks' = Tail(wftasks) /\ Close([wfile EXCEPT !.close = WinNow])
  /\ UNCHANGED <<active_io, pending_io, issuing, opening, wfrunner, started, chunks, wcalls, stuck>>

(* CancelAndSelfDestruct *)
CancelAndSelfDestruct ==
  /\ WinIoTask("destruct") /\ wftasks' = Tail(wftasks)
  /\ IF Idle(wfile) THEN wfile' = [wfile EXCEPT !.life = "gone"] /\ UNCHANGED <<ops, wanswer, closeTold>>
     ELSE Close([wfile EXCEPT !.orphan = TRUE])
  /\ UNCHANGED <<active_io, pending_io, issuing, opening, wfrunner, started, chunks, wcalls, stuck>>

(* A task that finds its weak pointer empty does nothing; a close says so. *)
TaskOfGone ==
  /\ WinFree /\ wftasks # <<>> /\ ~Exists /\ Head(wftasks).task \notin {"opened", "failed"} /\ wftasks' = Tail(wftasks)
  /\ closeTold' = IF Head(wftasks).task = "close" THEN closeTold \cup {WinNow} ELSE closeTold
  /\ UNCHANGED <<wfile, ops, active_io, pending_io, issuing, opening, wfrunner, started, chunks, wcalls, wanswer, stuck>>

(* The I/O thread ends: first it refuses tasks, then it runs none. *)
WinRunnerEnds ==
  /\ wfrunner # "down" /\ issuing = 0 /\ ~stuck
  /\ wfrunner' = IF wfrunner = "up" THEN "closing" ELSE "down"
  /\ wftasks' = IF wfrunner = "up" THEN wftasks ELSE <<>>
  /\ UNCHANGED <<wfile, ops, active_io, pending_io, issuing, opening, started, chunks, wcalls, wanswer, closeTold, stuck>>

WinNext ==
  \/ WinCloseAsync \/ WinDestroy \/ WinOpenOnIoThread \/ WinOnOpenCompleted \/ Enqueue \/ IssueNextChunk \/ IssuePosted
  \/ OnInlineCompleted \/ WinCloseOnIoThread \/ CancelAndSelfDestruct \/ TaskOfGone \/ WinRunnerEnds
  \/ \E o \in Opens : WinOpenAsync(o)
  \/ \E t \in Transfers : WinTransferAsync(t) \/ OnIOCompleted(t)
  \/ \E ok \in BOOLEAN : WinBgOpen(ok)

----------------------------------------------------------------------------
WinTypeOK ==
  /\ wfile.state \in {"disconnected", "opening", "connected", "closing"} /\ wfile.handle \in BOOLEAN
  /\ active_io \in Transfers \cup {0} /\ issuing \in Transfers \cup {0}
  /\ pending_io \in [Transfers -> {"none", "kernel", "done"}] /\ closeTold \subseteq 1 .. MaxCloses /\ wanswer \subseteq WinRequests

(* While the kernel has a buffer of ours the handle is open and the file, with *)
(* the contexts it owns, exists: a cancelled transfer is waited for.           *)
KernelBuffersLive == \A t \in Transfers : pending_io[t] = "kernel" => wfile.handle /\ Exists

WinHolds(t, r) == \E i \in DOMAIN wftasks : wftasks[i] = WinTask(t, r)

(* No transfer is forgotten: it is queued, with the kernel, between two chunks *)
(* or has had its callback.  (One between two chunks when a destroyed file     *)
(* deletes itself is not answered.)                                            *)
NoTransferForgotten ==
  wfrunner = "up" => \A t \in started \ wanswer :
    \/ WinHolds("enqueue", t) \/ t \in ToSet(ops) \/ issuing = t
    \/ pending_io[t] # "none" /\ active_io = t
    \/ WinHolds("issue", t) \/ (~Exists /\ chunks[t] > 0)

(* A call of CloseAsync is answered once the file is closed (async_file.h).    *)
(* (Violated: a close of a file that is not open keeps the callback, and a     *)
(* second close replaces the callback of the first.)                           *)
CloseAnswered ==
  wfrunner = "up" /\ Idle(wfile) /\ Exists => \A c \in 1 .. wcalls.close : c \in closeTold \/ WinHolds("close", c)

(* The I/O thread never waits for a lock it holds.  (Violated: a transfer of   *)
(* several chunks is closed between two of them.)                              *)
NoSelfDeadlock == ~stuck
=============================================================================
