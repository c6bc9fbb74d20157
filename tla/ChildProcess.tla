---------------------------- MODULE ChildProcess ----------------------------
(***************************************************************************)
(* ChildProcess (child_process_posix.cpp, child_process_win.cpp,           *)
(* child_process_impl_common.h, child_process_stream_proxy.cpp): launching *)
(* and relaunching a child, its death and who is told, signals, the        *)
(* heartbeat guard, destruction, and the stdio proxies.  Launch, Terminate *)
(* and Shutdown are tasks of the service's I/O thread the caller waits     *)
(* for; on Windows the death is first seen by a thread of the system's     *)
(* pool.                                                                   *)
(***************************************************************************)
EXTENDS Integers, Sequences, FiniteSets

CONSTANTS Builds,      \* subset of {"posix", "win"}
          MaxLaunches, \* calls of Launch
          MaxReads     \* reads of the child's output

VARIABLES
  os,          \* which build
  kill,        \* kill_on_destruction
  guard,       \* the heartbeat guard is on
  core,        \* the platform core: its number, state_, alive, the watches, what was asked for
  child,       \* per launch: not started, alive, dead or reaped, and how it died
  signal,      \* per launch: a signal under way
  beats,       \* heartbeats: the register is dirty, last_heartbeat_time_ is recent, the child did beat
  checks,      \* delayed heartbeat checks: the core they belong to
  dispatch,    \* posted terminations: core, state
  seen,        \* Windows: per launch, the pool thread: "no", "registered", "fired"
  listener,    \* per launch: what the listener was told
  target,      \* the proxy's target_: the core whose stream it is, 0 when unbound
  reads,       \* reads posted to the I/O thread: the core each one captured
  hung,        \* launches declared hung
  used         \* a task or callback ran with a core or stream that is gone

processVars == <<os, kill, guard, core, child, signal, beats, checks, dispatch, seen, listener, target, reads, hung, used>>

Launches == 1 .. MaxLaunches
NoCore == [n |-> 0, state |-> "none", live |-> FALSE, watch |-> FALSE, control |-> FALSE, asked |-> "none", notified |-> FALSE]

Init ==
  /\ os \in Builds /\ kill \in BOOLEAN /\ guard \in BOOLEAN
  /\ core = NoCore /\ child = [l \in Launches |-> "none"] /\ signal = [l \in Launches |-> "none"]
  /\ beats = [dirty |-> FALSE, fresh |-> TRUE, sent |-> FALSE] /\ checks = {} /\ dispatch = <<>>
  /\ seen = [l \in Launches |-> "no"] /\ listener = [l \in Launches |-> <<>>] /\ target = 0 /\ reads = <<>> /\ hung = {} /\ used = FALSE

(* The I/O thread is not in the middle of a launch. *)
IoFree == core.n > 0 => seen[core.n] \notin {"starting", "early"}
Alive(l) == l > 0 /\ child[l] = "alive"
Told(l, what) == listener' = [listener EXCEPT ![l] = Append(@, what)]

----------------------------------------------------------------------------
(* Terminate(force): refused in the terminal states - on POSIX a hung child is *)
(* one of them.                                                                *)
Refuses(state) ==
  state \in {"exited", "crashed", "failed"} \cup (IF os = "posix" THEN {"hung"} ELSE {})
Signalled(c, state, sig) ==
  IF c = 0 \/ Refuses(state) \/ ~Alive(c) \/ signal[c] = "kill" THEN signal ELSE [signal EXCEPT ![c] = sig]

Terminate(force) ==
  /\ IoFree /\ core.live /\ ~Refuses(core.state) /\ Alive(core.n)
  /\ LET sig == IF force THEN "kill" ELSE "term"
     IN signal' = Signalled(core.n, core.state, sig) /\ core' = [core EXCEPT !.asked = sig]
  /\ UNCHANGED <<os, kill, guard, child, beats, checks, dispatch, seen, listener, target, reads, hung, used>>

(* Cleanup: a running child is killed when kill_on_destruction says so; the    *)
(* listener is forgotten.                                                      *)
Kills(state) == kill /\ state = "running"
Killed == IF core.live /\ Kills(core.state) THEN Signalled(core.n, core.state, "kill") ELSE signal

(* ChildProcessPlatformImpl::ShutdownOnIoThread *)
Destroy ==
  /\ core.live /\ IoFree /\ signal' = Killed /\ core' = [core EXCEPT !.live = FALSE, !.watch = FALSE, !.control = FALSE]
  /\ target' = 0
  /\ UNCHANGED <<os, kill, guard, child, beats, checks, dispatch, seen, listener, reads, hung, used>>

----------------------------------------------------------------------------
(* LaunchOnIoThread: the previous core goes, and this one's child is started.  *)
Next1 == core.n + 1
Fresh(state) ==
  [n |-> Next1, state |-> state, live |-> TRUE, watch |-> TRUE, control |-> guard, asked |-> "none", notified |-> FALSE]

(* It fails before there is a child: pipes, arguments, job, fork. *)
LaunchFails ==
  /\ Next1 \in Launches /\ IoFree /\ signal' = Killed
  /\ core' = [Fresh("failed") EXCEPT !.watch = FALSE, !.control = FALSE]
  /\ Told(Next1, "failed") /\ target' = 0
  /\ UNCHANGED <<os, kill, guard, child, beats, checks, dispatch, seen, reads, hung, used>>

(* pidfd_open, AssignProcessToJobObject or ResumeThread fails: the child is    *)
(* killed and reaped on the spot.                                              *)
LaunchRolledBack ==
  /\ Next1 \in Launches /\ IoFree /\ signal' = Killed
  /\ child' = [child EXCEPT ![Next1] = "reaped"]
  /\ core' = [Fresh("failed") EXCEPT !.watch = FALSE, !.control = FALSE]
  /\ Told(Next1, "failed") /\ target' = 0
  /\ UNCHANGED <<os, kill, guard, beats, checks, dispatch, seen, reads, hung, used>>

(* The watch of the child cannot be set up: the launch is given up, and        *)
(* Cleanup finds a state that is not kRunning.                                 *)
LaunchUnwatched ==
  /\ Next1 \in Launches /\ IoFree /\ signal' = Killed
  /\ child' = [child EXCEPT ![Next1] = "alive"]
  /\ core' = [Fresh("failed") EXCEPT !.watch = FALSE, !.control = FALSE]
  /\ Told(Next1, "failed") /\ target' = 0
  /\ UNCHANGED <<os, kill, guard, beats, checks, dispatch, seen, reads, hung, used>>

Launch ==
  /\ Next1 \in Launches /\ IoFree /\ signal' = Killed
  /\ child' = [child EXCEPT ![Next1] = "alive"]
  /\ beats' = [dirty |-> FALSE, fresh |-> TRUE, sent |-> FALSE]
  /\ checks' = IF guard THEN checks \cup {Next1} ELSE checks
  /\ IF os = "posix"
     THEN core' = Fresh("running") /\ Told(Next1, "succeeded") /\ target' = Next1 /\ UNCHANGED seen
     ELSE core' = Fresh("starting") /\ seen' = [seen EXCEPT ![Next1] = "starting"] /\ target' = 0 /\ UNCHANGED listener
  /\ UNCHANGED <<os, kill, guard, dispatch, reads, hung, used>>

(* Windows: RegisterWaitForSingleObject has been called; only now the state is *)
(* kRunning and the listener is told.                                          *)
LaunchFinishes ==
  /\ os = "win" /\ core.live /\ seen[core.n] \in {"starting", "early"}
  /\ seen' = [seen EXCEPT ![core.n] = IF @ = "early" THEN "fired" ELSE "registered"]
  /\ core' = [core EXCEPT !.state = "running"] /\ Told(core.n, "succeeded") /\ target' = core.n
  /\ UNCHANGED <<os, kill, guard, child, signal, beats, checks, dispatch, reads, hung, used>>

----------------------------------------------------------------------------
(* The child: it ends by itself or by a signal; SIGTERM may be handled. *)
Dies(l) ==
  /\ Alive(l)
  /\ \/ \E how \in {"exit", "crash"} : child' = [child EXCEPT ![l] = how]
     \/ signal[l] # "none" /\ child' = [child EXCEPT ![l] = signal[l]]
  /\ UNCHANGED <<os, kill, guard, core, signal, beats, checks, dispatch, seen, listener, target, reads, hung, used>>
Dead(l) == l > 0 /\ child[l] \in {"exit", "crash", "term", "kill"}

(* ClassifySignaledTermination, IsCrashExitCode *)
Verdict(how) ==
  IF how = "exit" THEN "exited"
  ELSE IF how = "term" /\ (os = "win" \/ core.asked = "term") THEN "exited"
  ELSE IF how = "kill" /\ os = "win" THEN "exited" ELSE "crashed"

(* HandlePidReadable: a child is looked at while the state is kRunning. *)
HandlePidReadable ==
  /\ os = "posix" /\ core.live /\ core.watch /\ core.state = "running" /\ ~core.notified /\ Dead(core.n)
  /\ core' = [core EXCEPT !.state = Verdict(child[core.n]), !.notified = TRUE, !.watch = FALSE]
  /\ child' = [child EXCEPT ![core.n] = "reaped"] /\ Told(core.n, Verdict(child[core.n]))
  /\ UNCHANGED <<os, kill, guard, signal, beats, checks, dispatch, seen, target, reads, hung, used>>

(* OnProcessEventSignaled, on a thread of the pool: the wait was only asked to *)
(* be unregistered, so it may still run for a core that is gone.               *)
OnProcessEventSignaled(l) ==
  /\ os = "win" /\ Dead(l) /\ seen[l] \in {"starting", "registered"}
  /\ seen' = [seen EXCEPT ![l] = IF @ = "starting" THEN "early" ELSE "fired"]
  /\ IF core.n # l \/ ~core.live THEN used' = TRUE /\ UNCHANGED <<core, dispatch>>
     ELSE IF core.state \in {"hung", "failed"} THEN UNCHANGED <<core, dispatch, used>>
     ELSE /\ core' = [core EXCEPT !.state = Verdict(child[l])]
          /\ dispatch' = Append(dispatch, [n |-> l, state |-> Verdict(child[l])]) /\ UNCHANGED used
  /\ UNCHANGED <<os, kill, guard, child, signal, beats, checks, listener, target, reads, hung>>

(* The posted task: control teardown on the core, then DispatchTermination,    *)
(* which a Cleanup since then has disarmed.                                    *)
Armed(n) == core.n = n /\ core.live

DispatchTermination ==
  /\ dispatch # <<>> /\ IoFree /\ dispatch' = Tail(dispatch)
  /\ LET d == Head(dispatch)
     IN IF Armed(d.n)
        THEN /\ core' = [core EXCEPT !.control = FALSE, !.state = d.state, !.notified = TRUE]
             /\ Told(d.n, d.state) /\ UNCHANGED used
        ELSE used' = TRUE /\ UNCHANGED <<core, listener>>
  /\ UNCHANGED <<os, kill, guard, child, signal, beats, checks, seen, target, reads, hung>>

----------------------------------------------------------------------------
(* The heartbeat guard. *)

(* The register is 64 bits wide and compared with four bytes: it matches the   *)
(* first "BEAT" only.  On POSIX the child has closed its end before exec.      *)
Beat ==
  /\ os = "win" /\ core.live /\ core.control /\ core.state = "running" /\ Alive(core.n) /\ guard /\ ~beats.sent
  /\ beats' = [dirty |-> TRUE, fresh |-> beats.fresh \/ ~beats.dirty, sent |-> TRUE]
  /\ UNCHANGED <<os, kill, guard, core, child, signal, checks, dispatch, seen, listener, target, reads, hung, used>>

(* HandleControlPipeEof, HandleControlPipeBreak: the other end is closed. *)
HandleControlEof ==
  /\ IoFree /\ core.live /\ core.control /\ (os = "posix" \/ Dead(core.n)) /\ core.state = "running"
  /\ core' = [core EXCEPT !.control = FALSE, !.asked = IF Alive(core.n) THEN "kill" ELSE @]
  /\ signal' = Signalled(core.n, core.state, "kill")
  /\ UNCHANGED <<os, kill, guard, child, beats, checks, dispatch, seen, listener, target, reads, hung, used>>

(* The delayed check of ScheduleHeartbeatCheck, which holds a plain pointer to *)
(* the core.  The state is kTimedOutHung before Terminate is asked.            *)
HeartbeatCheck(l) ==
  /\ l \in checks /\ IoFree
  /\ IF core.n # l \/ ~core.live
     THEN checks' = checks \ {l} /\ used' = TRUE /\ UNCHANGED <<core, signal, beats, hung>>
     ELSE IF core.state # "running" THEN checks' = checks \ {l} /\ UNCHANGED <<core, signal, beats, hung, used>>
     ELSE IF beats.fresh THEN beats' = [beats EXCEPT !.fresh = FALSE, !.sent = FALSE] /\ UNCHANGED <<core, signal, checks, hung, used>>
     ELSE /\ core' = [core EXCEPT !.state = "hung"] /\ checks' = checks \ {l}
          /\ signal' = Signalled(l, "hung", "kill") /\ hung' = hung \cup {l} /\ UNCHANGED <<beats, used>>
  /\ UNCHANGED <<os, kill, guard, child, dispatch, seen, listener, target, reads>>

----------------------------------------------------------------------------
(* AsyncInputStreamProxy, AsyncOutputStreamProxy: the target is captured on    *)
(* the caller's thread and used on the I/O thread.                             *)
ReadAsync ==
  /\ target # 0 /\ Len(reads) < MaxReads /\ reads' = Append(reads, target)
  /\ UNCHANGED <<os, kill, guard, core, child, signal, beats, checks, dispatch, seen, listener, target, hung, used>>
ReadOnIoThread ==
  /\ IoFree /\ reads # <<>> /\ reads' = Tail(reads) /\ used' = (used \/ core.n # Head(reads) \/ ~core.live)
  /\ UNCHANGED <<os, kill, guard, core, child, signal, beats, checks, dispatch, seen, listener, target, hung>>

(* What follows the use of an object that is gone is not described. *)
Next ==
  /\ ~used
  /\ \/ Destroy \/ LaunchFails \/ LaunchRolledBack \/ LaunchUnwatched \/ Launch \/ LaunchFinishes \/ HandlePidReadable \/ DispatchTermination
     \/ Beat \/ HandleControlEof \/ ReadAsync \/ ReadOnIoThread
     \/ \E force \in BOOLEAN : Terminate(force)
     \/ \E l \in Launches : Dies(l) \/ OnProcessEventSignaled(l) \/ HeartbeatCheck(l)

----------------------------------------------------------------------------
TypeOK ==
  /\ core.state \in {"none", "starting", "running", "exited", "crashed", "hung", "failed"} /\ core.n \in 0 .. MaxLaunches
  /\ \A l \in Launches : child[l] \in {"none", "alive", "exit", "crash", "term", "kill", "reaped"}
  /\ \A l \in Launches : signal[l] \in {"none", "term", "kill"} /\ target \in 0 .. MaxLaunches

(* For each launch the listener hears that it failed, or that it succeeded and *)
(* then, once, how the child ended - never before it did, and nothing after    *)
(* the process object let go of the child.                                     *)
ListenerProtocol ==
  \A l \in Launches :
    /\ Len(listener[l]) <= 2
    /\ listener[l] # <<>> => listener[l][1] \in {"failed", "succeeded"}
    /\ Len(listener[l]) = 2 => listener[l][1] = "succeeded" /\ listener[l][2] \in {"exited", "crashed"} /\ ~Alive(l)

(* The death of a child that is supervised, and was not declared hung, is      *)
(* about to be reported: the watch or the wait is armed, or the report is      *)
(* posted.                                                                     *)
DeathIsReported ==
  core.live /\ Dead(core.n) /\ core.state \notin {"hung", "failed"} /\ Len(listener[core.n]) < 2 =>
    \/ os = "posix" /\ core.watch
    \/ seen[core.n] \in {"starting", "registered"}
    \/ \E i \in DOMAIN dispatch : dispatch[i].n = core.n

(* No child escapes ("to prevent orphan/zombie escape", the comment of the     *)
(* roll-back of a launch; kill_on_destruction): one whose launch has failed,   *)
(* or that is left behind, is dead or being killed.  (Violated: LaunchUnwatched*)
(* leaves its child running, since Cleanup kills in the state kRunning only,   *)
(* and the child that was declared hung is not killed either.)                 *)
NeverAnOrphan ==
  kill => \A l \in Launches :
    (l < core.n \/ ~core.live \/ listener[l] = <<"failed">>) /\ Alive(l) => signal[l] = "kill"

(* The same for a child whose launch succeeded and that was not declared hung: *)
(* whatever relaunch or destruction comes while it runs or is being ended.     *)
NoOrphan ==
  kill => \A l \in Launches :
    (l < core.n \/ ~core.live) /\ Alive(l) /\ listener[l] = <<"succeeded">> => signal[l] = "kill" \/ l \in hung

(* "If heartbeat times out, runtime force-terminates child and reports         *)
(* kTimedOutHung" (child_process.h).  (Violated: Terminate refuses, and the    *)
(* death of a hung child is not looked at.)                                    *)
HungIsKilled == core.live /\ core.state = "hung" /\ Alive(core.n) => signal[core.n] = "kill"
HungIsReported ==
  core.live /\ core.state = "hung" /\ Dead(core.n) =>
    (os = "win" /\ seen[core.n] = "registered") \/ \E i \in DOMAIN dispatch : dispatch[i].n = core.n

(* A child that beats in every period is not declared hung (child_process.h).  *)
(* (Violated: only its first beat is recognised.)                              *)
BeatingLives == core.state = "hung" => ~beats.sent

(* Nothing runs with a core that is gone.  (Violated by the delayed check, the *)
(* pool thread's callback and a read that is posted while the child is         *)
(* relaunched.)                                                                *)
NoUseAfterFree == ~used
=============================================================================
