----------------------------- MODULE TaskQueue -----------------------------
(***************************************************************************)
(* SequencedTaskQueue (src/neixx/task/internal): the queue behind every    *)
(* task runner, of the pool and of SequenceManager alike.  Posts go to     *)
(* incoming_queue_, ordered by sequence number; delayed tasks wait in a    *)
(* heap and are promoted into the same queue when due; a single consumer   *)
(* swaps incoming_queue_ into a work_queue_ of its own, several consumers  *)
(* take from incoming_queue_ under the lock.  Every method is one critical *)
(* section, so one step; who is woken after a post is in TaskPool.         *)
(***************************************************************************)
EXTENDS Integers, Sequences, FiniteSets

CONSTANTS
  BatchSize,     \* most tasks a consumer asks for at a time
  Kinds,         \* values of "is BLOCK_SHUTDOWN" that are posted
  Dues,          \* run times of delayed tasks
  MaxImmediate,  \* bound: immediate posts
  MaxDelayed,    \* bound: delayed posts
  MaxTime        \* bound: the clock

ASSUME KindAssumption     == Kinds \subseteq BOOLEAN
ASSUME QueueAssumption    == BatchSize \in Nat \ {0} /\ Dues \subseteq Nat \ {0}
ASSUME LimitAssumption    == MaxImmediate \in Nat /\ MaxDelayed \in Nat /\ MaxTime \in Nat

VARIABLES
  single,     \* single_consumer_, fixed when the queue is made
  incoming,   \* incoming_queue_
  work,       \* work_queue_
  heap,       \* delayed_incoming_queue_
  imm_seq,    \* immediate_sequence_num_
  del_seq,    \* delayed_sequence_num_
  rejecting,  \* reject_new_tasks_
  shut_down,  \* shut_down_
  promoting,  \* lock_ is held in the loop of PromoteReadyDelayedTasks
  now,        \* the clock
  taken,      \* history: tasks in the order consumers took them
  dropped,    \* history: tasks cancelled
  promoted    \* history: some delayed task has been promoted

vars == <<single, incoming, work, heap, imm_seq, del_seq, rejecting, shut_down, promoting, now, taken, dropped,
          promoted>>

(* An immediate task has run time 0.  Tasks with equal fields do not occur:   *)
(* sequence numbers differ among the immediate and among the delayed ones.    *)
Task == [seq : Nat, due : Nat, block : BOOLEAN]

----------------------------------------------------------------------------
Inserted(s, i, e) == SubSeq(s, 1, i) \o <<e>> \o SubSeq(s, i + 1, Len(s))

(* std::upper_bound as the libraries search: halving [first, first + len).    *)
(* The result is how many elements go before the new one.                     *)
UpperBound(s, v) ==
  LET N == 0..Len(s)
      find[first \in N, len \in N] ==
        LET half == len \div 2
        IN  CASE len = 0 -> first
              [] len > 0 /\ v < s[first + half + 1].seq -> find[first, half]
              [] OTHER -> find[first + half + 1, len - half - 1]
  IN  find[0, Len(s)]

(* Where PushImmediateTask puts a task with sequence number v. *)
InsertAt(v) ==
  IF incoming = <<>> \/ v >= incoming[Len(incoming)].seq
  THEN Len(incoming)
  ELSE UpperBound(incoming, v)

PushImmediateTask(b) ==
  /\ imm_seq < MaxImmediate /\ ~rejecting /\ ~promoting
  /\ imm_seq' = imm_seq + 1
  /\ \E i \in 0..Len(incoming) :
       /\ i = InsertAt(imm_seq + 1)
       /\ incoming' = Inserted(incoming, i, [seq |-> imm_seq + 1, due |-> 0, block |-> b])
  /\ UNCHANGED <<single, work, heap, del_seq, rejecting, shut_down, promoting, now, taken, dropped, promoted>>

(* Mutant of PushDelayedTask: the sum of time and delay has wrapped around. *)
PushDelayedTaskWrapped(d, b) ==
  /\ del_seq < MaxDelayed /\ ~rejecting /\ ~promoting
  /\ del_seq' = del_seq + 1
  /\ heap' = heap \cup {[seq |-> del_seq + 1, due |-> d - MaxTime - 1, block |-> b]}
  /\ UNCHANGED <<single, incoming, work, imm_seq, rejecting, shut_down, promoting, now, taken, dropped, promoted>>

(* The run time was fixed before the lock was taken: it may have passed. *)
PushDelayedTask(d, b) ==
  /\ del_seq < MaxDelayed /\ ~rejecting /\ ~promoting
  /\ del_seq' = del_seq + 1
  /\ heap' = heap \cup {[seq |-> del_seq + 1, due |-> d, block |-> b]}
  /\ UNCHANGED <<single, incoming, work, imm_seq, rejecting, shut_down, promoting, now, taken, dropped, promoted>>

(* Task::operator>. *)
Before(a, b) == a.due < b.due \/ (a.due = b.due /\ a.seq < b.seq)

(* The delayed tasks that are due. *)
Ready == {t \in heap : t.due <= now}

(* PromoteReadyDelayedTasks: the due tasks one by one in heap order, each to   *)
(* the end of the queue, with the lock held until none is left.                *)
PromoteReadyDelayedTasks ==
  \E t \in Ready :
    /\ \A u \in Ready \ {t} : Before(t, u)
    /\ incoming' = Append(incoming, t)
    /\ heap' = heap \ {t}
    /\ promoting' = (Ready # {t})
    /\ promoted' = TRUE
    /\ UNCHANGED <<single, work, imm_seq, del_seq, rejecting, shut_down, now, taken, dropped>>

----------------------------------------------------------------------------
(* TakeImmediateTask and TakeImmediateTasks for up to k tasks: a task that     *)
(* blocks shutdown is the last of its batch.                                   *)
Counts(s, k) == {n \in 1..Len(s) :
  /\ n <= k
  /\ \A i \in 1..n-1 : ~s[i].block
  /\ n = k \/ n = Len(s) \/ s[n].block}

(* What the consumer draws on (ReloadWorkQueueIfEmpty). *)
Source == IF single /\ work # <<>> THEN work ELSE incoming

(* Mutant of TakeImmediateTasks: what is taken stays in incoming_queue_. *)
TakeImmediateTasksCopied(k) ==
  \E n \in Counts(Source, k) :
    /\ ~promoting
    /\ taken' = taken \o SubSeq(Source, 1, n)
    /\ work' = IF single THEN SubSeq(Source, n + 1, Len(Source)) ELSE work
    /\ UNCHANGED <<single, incoming, heap, imm_seq, del_seq, rejecting, shut_down, promoting, now, dropped, promoted>>

TakeImmediateTasks(k) ==
  \E n \in Counts(Source, k) :
    /\ ~promoting
    /\ taken' = taken \o SubSeq(Source, 1, n)
    /\ IF single
       THEN /\ work' = SubSeq(Source, n + 1, Len(Source))
            /\ incoming' = IF work = <<>> THEN <<>> ELSE incoming
       ELSE /\ incoming' = SubSeq(Source, n + 1, Len(Source))
            /\ UNCHANGED work
    /\ UNCHANGED <<single, heap, imm_seq, del_seq, rejecting, shut_down, promoting, now, dropped, promoted>>

(* CancelNonShutdownBlockingTasksLockedImpl: the tasks that block shutdown     *)
(* stay, in their order; the consumer's own queue is not looked at.            *)
BlockingAt(s) == {i \in DOMAIN s : s[i].block}
Keeps(f, s) ==
  /\ \A i, j \in DOMAIN f : i < j => f[i] < f[j]
  /\ \A p \in BlockingAt(s) : \E i \in DOMAIN f : f[i] = p
Cancelled ==
  /\ \E f \in [1..Cardinality(BlockingAt(incoming)) -> BlockingAt(incoming)] :
       /\ Keeps(f, incoming)
       /\ incoming' = [i \in DOMAIN f |-> incoming[f[i]]]
  /\ heap' = {t \in heap : t.block}
  /\ dropped' = dropped \cup {t \in heap : ~t.block}
                        \cup {incoming[i] : i \in {j \in DOMAIN incoming : ~incoming[j].block}}
  /\ UNCHANGED <<single, work, imm_seq, del_seq, promoting, now, taken, promoted>>

CancelNonShutdownBlockingTasks ==
  /\ ~promoting /\ Cancelled
  /\ rejecting' = TRUE /\ UNCHANGED shut_down

Shutdown ==
  /\ ~shut_down /\ ~promoting /\ Cancelled
  /\ rejecting' = TRUE /\ shut_down' = TRUE

Tick == /\ now < MaxTime /\ ~promoting /\ now' = now + 1
        /\ UNCHANGED <<single, incoming, work, heap, imm_seq, del_seq, rejecting, shut_down, promoting, taken,
                       dropped, promoted>>

Init ==
  /\ single \in BOOLEAN
  /\ incoming = <<>> /\ work = <<>> /\ heap = {}
  /\ imm_seq = 0 /\ del_seq = 0
  /\ rejecting = FALSE /\ shut_down = FALSE /\ promoting = FALSE /\ now = 0
  /\ taken = <<>> /\ dropped = {} /\ promoted = FALSE

Next ==
  \/ \E b \in Kinds : PushImmediateTask(b)
  \/ \E d \in Dues, b \in Kinds : PushDelayedTask(d, b)
  \/ PromoteReadyDelayedTasks
  \/ \E k \in 1..BatchSize : TakeImmediateTasks(k)
  \/ CancelNonShutdownBlockingTasks
  \/ Shutdown
  \/ Tick

Spec == Init /\ [][Next]_vars
----------------------------------------------------------------------------
TypeOK ==
  /\ single \in BOOLEAN
  /\ incoming \in Seq(Task) /\ work \in Seq(Task) /\ heap \in SUBSET Task
  /\ imm_seq \in Nat /\ del_seq \in Nat /\ now \in Nat
  /\ rejecting \in BOOLEAN /\ shut_down \in BOOLEAN /\ promoting \in BOOLEAN /\ promoted \in BOOLEAN
  /\ taken \in Seq(Task) /\ dropped \in SUBSET Task

(* Everything that has passed or will pass the consumer, in order. *)
Line == taken \o work \o incoming
InLine == {Line[i] : i \in DOMAIN Line}

(* No task is lost or doubled on its way through the heap, the two queues and *)
(* a cancellation.                                                            *)
Conserved ==
  /\ \A i, j \in DOMAIN Line : Line[i] = Line[j] => i = j
  /\ InLine \cap heap = {} /\ InLine \cap dropped = {} /\ heap \cap dropped = {}
  /\ Cardinality(InLine \cup heap \cup dropped) = imm_seq + del_seq

(* A delayed task is never handed out before its time. *)
NeverEarly == \A i \in DOMAIN taken : taken[i].due <= now

(* Of two delayed tasks the one posted first and due no later is first in line.*)
DelayedInOrder ==
  \A i, j \in DOMAIN Line :
    i < j /\ Line[i].due > 0 /\ Line[j].due > 0
      => ~(Line[j].seq < Line[i].seq /\ Line[j].due <= Line[i].due)

(* After a cancellation only tasks that block shutdown are left, except in the *)
(* queue of the consumer.                                                      *)
OnlyBlockingLeft ==
  rejecting => (\A i \in DOMAIN incoming : incoming[i].block) /\ (\A t \in heap : t.block)

(* Immediate tasks are in line, and so are taken, in the order of their posts. *)
Fifo ==
  \A i, j \in DOMAIN Line :
    i < j /\ Line[i].due = 0 /\ Line[j].due = 0 => Line[i].seq < Line[j].seq

(* They are as long as no delayed task has been promoted into the queue. *)
FifoUnlessPromoted == ~promoted => Fifo

(* A task posted to a sequenced queue is in one place or has run; none runs    *)
(* before its time; of two delayed tasks the one posted first and due no later *)
(* runs first, the others run in order of their posts unless one was promoted; *)
(* what a cancellation leaves is BLOCK_SHUTDOWN.                               *)
QueueOrder == Conserved /\ NeverEarly /\ DelayedInOrder /\ OnlyBlockingLeft /\ FifoUnlessPromoted
=============================================================================
