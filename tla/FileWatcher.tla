----------------------------- MODULE FileWatcher -----------------------------
(***************************************************************************)
(* FilePathWatcher on POSIX (file_path_watcher_posix.cpp): inotify watches *)
(* on a directory and one subdirectory that is made, renamed and moved     *)
(* out while the watcher reads, the read buffer that is walked event by    *)
(* event while callbacks run, Cancel and a second Watch, from a callback   *)
(* too.  Directory 1 is the root, 2 the subdirectory; the kernel's watch   *)
(* descriptor of a directory is its number.  Changes are files made,       *)
(* numbered in order.                                                      *)
(***************************************************************************)
EXTENDS Integers, Sequences, SequencesExt, FiniteSets

CONSTANTS MaxFiles, MaxWatches, MaxMoves, BufSize, InCallback

VARIABLES
  watcher,   \* [on, gen, recursive]: watching_ and callback_, which Watch, recursive_
  wds,       \* wd_to_path_
  where,     \* the subdirectory's path: "" (not yet), "d", "e" or "out"
  queue,     \* the inotify queue of the descriptor
  batch,     \* what is left of inotify_buf_
  moves,
  made,      \* history: files made: [path, gen, seen: their directory was watched]
  got        \* history: what callbacks were told: [gen, path, n]

fileWatchVars == <<watcher, wds, where, queue, batch, moves, made, got>>

Init ==
  /\ watcher = [on |-> FALSE, gen |-> 0, recursive |-> FALSE] /\ wds = <<>> /\ where \in {"", "d"}
  /\ queue = <<>> /\ batch = <<>> /\ moves = 0 /\ made = <<>> /\ got = <<>>

PathOf(i) == IF i = 1 THEN "r" ELSE where
InTree == where \in {"d", "e"}

(* The kernel: an event for whoever watches the directory.  The watch of a     *)
(* directory stays with it wherever it goes.                                   *)
Emits(wd, kind, name) == queue' = IF wd \in DOMAIN wds THEN Append(queue, [wd |-> wd, kind |-> kind, name |-> name]) ELSE queue

MakeFile(i) ==
  /\ Len(made) < MaxFiles /\ PathOf(i) # ""
  /\ made' = Append(made, [path |-> PathOf(i), gen |-> IF watcher.on THEN watcher.gen ELSE 0, seen |-> i \in DOMAIN wds])
  /\ Emits(i, "file", Len(made) + 1) /\ UNCHANGED <<watcher, wds, where, batch, moves, got>>

MoveDir(to) ==
  /\ moves < MaxMoves /\ moves' = moves + (IF where = "" THEN 0 ELSE 1) /\ to # where /\ where # "out" /\ (where = "" => to = "d")
  /\ where' = to /\ IF to = "out" THEN UNCHANGED queue ELSE Emits(1, "dir", to)
  /\ UNCHANGED <<watcher, wds, batch, made, got>>

----------------------------------------------------------------------------
(* AddWatchRecursive. *)
Watches(recursive) == IF recursive /\ InTree THEN <<"r", where>> ELSE <<"r">>

Started(recursive) ==
  /\ watcher' = [on |-> TRUE, gen |-> watcher.gen + 1, recursive |-> recursive]
  /\ wds' = Watches(recursive) /\ queue' = <<>>
Stopped == watcher' = [watcher EXCEPT !.on = FALSE, !.recursive = FALSE] /\ wds' = <<>> /\ queue' = <<>>

(* Watch cancels what was there. *)
Watch(recursive) ==
  /\ batch = <<>> /\ watcher.gen < MaxWatches /\ Started(recursive) /\ UNCHANGED <<where, batch, moves, made, got>>
Cancel == batch = <<>> /\ watcher.on /\ Stopped /\ UNCHANGED <<where, batch, moves, made, got>>

(* DrainInotifyEvents: a read, as many events as the buffer holds. *)
ReadEvents ==
  /\ watcher.on /\ batch = <<>> /\ queue # <<>>
  /\ LET n == IF Len(queue) < BufSize THEN Len(queue) ELSE BufSize
     IN batch' = SubSeq(queue, 1, n) /\ queue' = SubSeq(queue, n + 1, Len(queue))
  /\ UNCHANGED <<watcher, wds, where, moves, made, got>>

(* A directory that came: a watch for it at once - if it still is there. *)
NameOf(e) == e.name
OnDirectory ==
  /\ batch # <<>> /\ Head(batch).kind = "dir" /\ batch' = Tail(batch)
  /\ wds' = IF watcher.on /\ watcher.recursive /\ where = Head(batch).name THEN <<"r", NameOf(Head(batch))>> ELSE wds
  /\ UNCHANGED <<watcher, where, queue, moves, made, got>>

(* DeliverChange, and what the callback does: nothing, Cancel, another Watch.  *)
(* The walk goes on with the buffer.                                           *)
Told(e) == got' = IF watcher.on THEN Append(got, [gen |-> watcher.gen, path |-> IF e.wd \in DOMAIN wds THEN wds[e.wd] ELSE "r", n |-> e.name]) ELSE got
OnFile(does) ==
  /\ batch # <<>> /\ Head(batch).kind = "file" /\ Told(Head(batch)) /\ batch' = Tail(batch)
  /\ (does # "nothing" => watcher.on)
  /\ CASE does = "nothing" -> UNCHANGED <<watcher, wds, queue>>
       [] does = "cancel" -> Stopped
       [] does = "watch" -> watcher.gen < MaxWatches /\ Started(watcher.recursive)
  /\ UNCHANGED <<where, moves, made>>

Next ==
  \/ \E i \in {1, 2} : MakeFile(i)
  \/ \E to \in {"d", "e", "out"} : MoveDir(to)
  \/ \E rec \in BOOLEAN : Watch(rec)
  \/ Cancel \/ ReadEvents \/ OnDirectory
  \/ \E does \in InCallback : OnFile(does)

Spec == Init /\ [][Next]_fileWatchVars

----------------------------------------------------------------------------
TypeOK == watcher.gen \in 0..MaxWatches /\ Len(wds) <= 2 /\ Len(batch) <= BufSize

(* What a callback is told happened at the path it is told, during its own     *)
(* watch; nothing twice or out of order; and when the watcher has read all,    *)
(* every file made in a directory it watched was told.  (A directory moved out *)
(* of the tree, or renamed twice before the watcher looks, is reported under   *)
(* an older name.)                                                             *)
TellsTheTruth ==
  /\ \A k \in DOMAIN got : /\ made[got[k].n].gen = got[k].gen
                           /\ moves < 2 => made[got[k].n].path \in {got[k].path, "out"}
                           /\ k > 1 => got[k].n > got[k - 1].n
  /\ watcher.on /\ queue = <<>> /\ batch = <<>> =>
       \A n \in DOMAIN made : made[n].gen = watcher.gen /\ made[n].seen => \E k \in DOMAIN got : got[k].n = n

(* Violated when a callback starts another watch: what is left of the buffer   *)
(* goes to the new callback.  "After Cancel() returns, no further callbacks    *)
(* will fire", and Watch cancels.                                              *)
NoGhosts == \A k \in DOMAIN got : made[got[k].n].gen = got[k].gen

(* Violated: "add an inotify watch for it immediately so that files created    *)
(* inside it are also detected": a file made before the watch is not.          *)
NewDirectoriesSeen ==
  watcher.on /\ watcher.recursive /\ queue = <<>> /\ batch = <<>> =>
    \A n \in DOMAIN made : made[n].gen = watcher.gen /\ made[n].path # "out" => \E k \in DOMAIN got : got[k].n = n

-----------------------------------------------------------------------------
(***************************************************************************)
(* FilePathWatcher on Windows (file_path_watcher_win.cpp): one overlapped  *)
(* ReadDirectoryChangesW at a time in a reference-counted context that     *)
(* pins itself while the kernel may write to it, issued again after every  *)
(* completion; Watch, Cancel - from a callback too - and failures.  Each   *)
(* Watch makes a context; the pump gives a completion to it only while its *)
(* handle is registered.                                                   *)
(***************************************************************************)
CONSTANTS Contexts, MaxChanges

VARIABLES
  owner,     \* [ctx, on]: ctx_ (0: none), watching_
  ctx,       \* [st, refs, pinned, pending, armed, open]: DirWatchContext
  io,        \* the kernel's operation of each context: "none", "pending"; registered: with the port and the pump
  port,      \* packets on their way: [c, ok]
  running,   \* the context whose callback runs, 0
  changes,
  freed,     \* history: a context was used, or freed, after it was freed
  told       \* history: [c, on] of the last callback

watchWinVars == <<owner, ctx, io, port, running, changes, freed, told>>

Fresh == [st |-> "none", refs |-> 0, pinned |-> FALSE, armed |-> FALSE, pending |-> FALSE]
WinInit ==
  /\ owner = [ctx |-> 0, on |-> FALSE] /\ ctx = [c \in Contexts |-> Fresh]
  /\ io = [c \in Contexts |-> [op |-> "none", registered |-> FALSE]] /\ port = <<>>
  /\ running = 0 /\ changes = 0 /\ freed = FALSE /\ told = [c |-> 0, on |-> TRUE]

(* Release; the last one deletes the context and closes its handle, which      *)
(* aborts what the kernel still has.                                           *)
Released(r, n) == IF r.refs <= n THEN [r EXCEPT !.refs = 0, !.st = "freed", !.pinned = FALSE] ELSE [r EXCEPT !.refs = @ - n]

----------------------------------------------------------------------------
(* Watch: the first read is issued by Create, before the handle is with the    *)
(* port.                                                                       *)
WinWatch(c) ==
  /\ running = 0 /\ owner.ctx = 0 /\ ctx[c].st = "none"
  /\ ctx' = [ctx EXCEPT ![c] = [st |-> "live", refs |-> 2, pinned |-> TRUE, armed |-> TRUE, pending |-> TRUE]]
  /\ io' = [io EXCEPT ![c].op = "pending"] /\ owner' = [ctx |-> c, on |-> FALSE]
  /\ UNCHANGED <<port, running, changes, freed, told>>

(* Create when the first read fails: the release in IssueReadDirectoryChanges  *)
(* is the last, and the context is deleted once more.                          *)
CreateFails(c) ==
  /\ running = 0 /\ owner.ctx = 0 /\ ctx[c].st = "none"
  /\ ctx' = [ctx EXCEPT ![c].st = "freed"] /\ freed' = TRUE /\ UNCHANGED <<owner, io, port, running, changes, told>>

StartWatching ==
  /\ owner.ctx # 0 /\ ~owner.on /\ io' = [io EXCEPT ![owner.ctx].registered = TRUE] /\ owner' = [owner EXCEPT !.on = TRUE]
  /\ UNCHANGED <<ctx, port, running, changes, freed, told>>

(* Something changed in the directory: the read completes, to nobody if the    *)
(* handle is not yet with the port.                                            *)
Change(c) ==
  /\ changes < MaxChanges /\ changes' = changes + 1 /\ io[c].op = "pending" /\ ctx[c].st = "live"
  /\ io' = [io EXCEPT ![c].op = "none"] /\ port' = IF io[c].registered THEN Append(port, [c |-> c, ok |-> TRUE]) ELSE port
  /\ UNCHANGED <<owner, ctx, running, freed, told>>

(* Cancel. *)
LetsGo(c) == Released(ctx[c], 1)

WinCancel(back) ==
  /\ owner.on /\ running = back
  /\ LET c == owner.ctx
         cancels == ctx[c].pending /\ io[c].op = "pending"
     IN /\ ctx' = [ctx EXCEPT ![c] = [LetsGo(c) EXCEPT !.armed = FALSE, !.pending = FALSE]]
        /\ io' = [io EXCEPT ![c] = [op |-> IF cancels THEN "none" ELSE @.op, registered |-> FALSE]]
        /\ port' = IF cancels THEN Append(port, [c |-> c, ok |-> FALSE]) ELSE port
  /\ owner' = [ctx |-> 0, on |-> FALSE] /\ UNCHANGED <<running, changes, freed, told>>

(* The pump: packets of handles no longer registered are dropped. *)
Dropped ==
  /\ running = 0 /\ port # <<>> /\ ~io[Head(port).c].registered /\ port' = Tail(port)
  /\ UNCHANGED <<owner, ctx, io, running, changes, freed, told>>

(* OnIOCompleted with a change: the callback runs. *)
OnIOCompleted ==
  /\ running = 0 /\ port # <<>> /\ Head(port).ok /\ io[Head(port).c].registered /\ port' = Tail(port)
  /\ LET c == Head(port).c
     IN /\ ctx' = [ctx EXCEPT ![c].pending = FALSE] /\ running' = c /\ freed' = (freed \/ ctx[c].st # "live")
        /\ told' = IF ctx[c].armed THEN [c |-> c, on |-> owner.on /\ owner.ctx = c] ELSE told
  /\ UNCHANGED <<owner, io, changes>>

(* After the callback the read is issued again, whatever the callback did. *)
IssueAgain(ok) ==
  /\ running # 0 /\ running' = 0 /\ freed' = (freed \/ ctx[running].st # "live")
  /\ IF ok THEN ctx' = [ctx EXCEPT ![running].pending = TRUE] /\ io' = [io EXCEPT ![running].op = "pending"]
     ELSE ctx' = [ctx EXCEPT ![running] = [Released(@, 1) EXCEPT !.pinned = FALSE]] /\ UNCHANGED io
  /\ UNCHANGED <<owner, port, changes, told>>

WinNext ==
  \/ \E c \in Contexts : WinWatch(c) \/ CreateFails(c) \/ Change(c)
  \/ StartWatching \/ Dropped \/ OnIOCompleted
  \/ \E c \in Contexts \cup {0} : WinCancel(c)
  \/ \E ok \in BOOLEAN : IssueAgain(ok)

WinSpec == WinInit /\ [][WinNext]_watchWinVars

----------------------------------------------------------------------------
WinTypeOK == owner.ctx \in Contexts \cup {0} /\ \A c \in Contexts : ctx[c].refs \in 0..2

(* "the OVERLAPPED memory always outlives any kernel writes": while the kernel *)
(* has an operation, or a callback runs, the context is alive; and no callback *)
(* comes after Cancel.                                                         *)
OutlivesTheKernel ==
  /\ \A c \in Contexts : io[c].op = "pending" \/ running = c => ctx[c].st = "live"
  /\ told.on

(* Violated: Create frees twice when the first read fails. *)
FreedOnce == ~freed

(* Violated: "Stops watching": Cancel from the callback is followed by another *)
(* read, on a context nobody can stop any more.                                *)
CancelStops == \A c \in Contexts : io[c].op = "pending" /\ running = 0 => owner.ctx = c

(* Violated: the aborted packet is dropped by the pump, so the pin, the handle *)
(* and the buffer stay for ever.                                               *)
ContextsAreFreed == \A c \in Contexts : ctx[c].st = "live" /\ owner.ctx # c => io[c].op = "pending" \/ running = c \/ \E i \in DOMAIN port : port[i].c = c

(* Violated: a change before the handle is with the port completes the read to *)
(* nobody: the watch is on and never hears of anything.                        *)
WatchHears == owner.on /\ running = 0 /\ port = <<>> => io[owner.ctx].op = "pending" \/ ~ctx[owner.ctx].pinned
=============================================================================
