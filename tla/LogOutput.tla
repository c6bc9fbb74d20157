------------------------------ MODULE LogOutput ------------------------------
(***************************************************************************)
(* What becomes of a log call (src/nei/log) and of a trace event: the      *)
(* record and its rendering, the rotating file sink, and the trace log.    *)
(***************************************************************************)
EXTENDS Integers, Sequences, SequencesExt, FiniteSetsExt, FiniteSets

-----------------------------------------------------------------------------
(***************************************************************************)
(* What one log call becomes on its way to the sink: log_serialize.c packs *)
(* the arguments a format asks for into the event's payload, log_format.c  *)
(* replays the format over the payload on the consumer thread.  The ring   *)
(* between them (LogRing) is its slots here: a record lies at the address  *)
(* of its slot until the consumer has formatted it.  A format is a         *)
(* sequence of items [c, len, w, p]: a character of text, %%, or a         *)
(* conversion with its length modifier and whether it has a * width and a  *)
(* .* precision.  A number prints as one character, a string argument is   *)
(* its length.                                                             *)
(***************************************************************************)
CONSTANTS Calls,       \* [addr, fmt, args] of nei_llog; [addr |-> "literal", fmt |-> <<>>, args |-> <<length>>] of nei_llog_literal
          Slots, PlanOps, FmtCopy, StrCopy, EventCap, LineCap, TmpCap,
          Narrow,      \* one more than the largest value of a short
          Styles, Seconds

VARIABLES
  records,    \* the records in the ring, each with its slot
  place,      \* the slot of the next record
  planCache,  \* s_tls_fmt_plan_cache of the calling thread: [addr, fmt: what it was built from]
  metaCache,  \* s_tls_fmt_cache of the consumer: [slot, fmt: what it was computed from]
  tsCache,    \* s_tls_ts_cache of the consumer: [ready, sec, style]
  line        \* what became of the last record: [call, sent, out, stamp, ...]

recordVars == <<records, place, planCache, metaCache, tsCache, line>>

NoFmt == <<"none">>
NoLine == [state |-> "none"]

Init ==
  /\ records = <<>> /\ place = 0 /\ planCache = [addr |-> "none", fmt |-> NoFmt]
  /\ metaCache = [slot |-> Slots, fmt |-> NoFmt] /\ tsCache = [ready |-> FALSE, sec |-> 0, style |-> "none"] /\ line = NoLine

Least(a, b) == IF a < b THEN a ELSE b
Most(a, b) == IF a < b THEN b ELSE a

----------------------------------------------------------------------------
(* log_serialize.c *)
PayloadType(item) ==
  CASE item.c = "f" -> "double" [] item.c = "c" -> "char" [] item.c = "s" -> "cstr" [] item.c = "p" -> "ptr"
    [] item.c = "d" -> (IF item.len = "l" THEN "i64" ELSE "i32")
    [] item.c \in {"u", "x"} -> (IF item.len = "l" THEN "u64" ELSE "u32")
    [] OTHER -> "none"

(* _nei_log_scan_fmt_emit_ops: what each item takes from the argument list. *)
ItemOps(item) ==
  (IF item.w THEN <<"i32">> ELSE <<>>) \o (IF item.p THEN <<"i32">> ELSE <<>>)
    \o (IF PayloadType(item) = "none" THEN <<>> ELSE <<PayloadType(item)>>)

Ops(fmt) == FlattenSeq([i \in DOMAIN fmt |-> ItemOps(fmt[i])])
Rejected(fmt) == \E i \in DOMAIN fmt : fmt[i].c = "n"

(* _nei_log_payload_emit_arg: a string is copied up to StrCopy. *)
Emitted(type, v) == [t |-> type, v |-> IF type = "cstr" THEN Least(v, StrCopy) ELSE v]
SizeOf(field) == IF field.t \in {"cstr", "literal"} THEN 2 + field.v ELSE 2

Payload(ops, args) == [i \in DOMAIN ops |-> Emitted(ops[i], IF i <= Len(args) THEN args[i] ELSE 0)]
Fits(payload) == FoldSeq(LAMBDA f, n : n + SizeOf(f), 0, payload) <= EventCap

(* The plan of the last format is kept under its address; one with too many    *)
(* operations is not, and every call scans the format.                         *)
PlanFor(call) == IF planCache.addr = call.addr THEN planCache.fmt ELSE call.fmt
OpsFor(call) == IF Len(Ops(PlanFor(call))) <= PlanOps THEN Ops(PlanFor(call)) ELSE Ops(call.fmt)

(* _nei_log_strcpy_trunc of the format into the header: a conversion cut in    *)
(* two ends in a lone %.                                                       *)
Width(item) == IF item.c = "text" THEN 1 ELSE 2
Before[fmt \in {c.fmt : c \in Calls}] ==
  [i \in 0..Len(fmt) |-> FoldSeq(LAMBDA item, n : n + Width(item), 0, SubSeq(fmt, 1, i))]
Copied(fmt) ==
  LET whole == Max({i \in 0..Len(fmt) : Before[fmt][i] <= FmtCopy - 1})
      cut == whole < Len(fmt) /\ Before[fmt][whole] < FmtCopy - 1
  IN SubSeq(fmt, 1, whole) \o (IF cut THEN <<[c |-> "cut", len |-> "", w |-> FALSE, p |-> FALSE]>> ELSE <<>>)

----------------------------------------------------------------------------
(* log_format.c.  A piece of the message: what printed it, the value, its      *)
(* width.                                                                      *)
Piece(c, v, n) == [c |-> c, v |-> v, n |-> n]
Failed(s) == [s EXCEPT !.ok = FALSE]
Append1(s, piece) == IF s.used + piece.n >= LineCap THEN Failed(s) ELSE [s EXCEPT !.out = Append(@, piece), !.used = @ + piece.n]

Next1(s) == s.pay[s.cursor]
Has(s, types) == s.cursor <= Len(s.pay) /\ s.pay[s.cursor].t \in types
Advance(s) == [s EXCEPT !.cursor = @ + 1]

Types(item) ==
  CASE item.c = "d" -> {"i32", "i64"} [] item.c \in {"u", "x"} -> {"u32", "u64"} [] item.c = "s" -> {"cstr"} [] OTHER -> {}

(* _nei_log_format_simple_replay and _nei_log_append_from_spec: no snprintf. *)
IsSimpleSpec(item) == item.c \in {"d", "u", "x", "s"} /\ ~item.w /\ ~item.p
AppendFromSpec(s, item) ==
  IF ~Has(s, Types(item)) THEN Failed(s)
  ELSE Advance(Append1(s, Piece(item.c, Next1(s).v, IF item.c = "s" THEN Next1(s).v ELSE 1)))

(* _nei_log_build_runtime_conversion_spec, then snprintf into tmp. *)
Star(s, asked) ==
  IF ~asked THEN [s |-> s, v |-> -1] ELSE IF ~Has(s, {"i32"}) THEN [s |-> Failed(s), v |-> -1] ELSE [s |-> Advance(s), v |-> Next1(s).v]

Printed(item, v, width, precision) ==
  LET shown == IF item.c = "s" /\ precision >= 0 THEN Least(v, precision) ELSE IF item.c = "d" /\ item.len = "h" THEN v % Narrow ELSE v
  IN Piece(item.c, shown, Most(width, IF item.c = "s" THEN shown ELSE 1))

ClampedPrecision(p) == IF p < 0 THEN 0 ELSE p

AppendSpec(s, item) ==
  LET width == Star(s, item.w)
      precision == Star(width.s, item.p)
      at == precision.s
      piece == Printed(item, Next1(at).v, width.v, IF item.p THEN ClampedPrecision(precision.v) ELSE -1)
  IN IF ~at.ok \/ item.c = "cut" THEN Failed(s)
     ELSE IF IsSimpleSpec(item) THEN AppendFromSpec(at, item)
     ELSE IF at.cursor > Len(at.pay) THEN Failed(s)
     ELSE Advance(Append1(at, [piece EXCEPT !.n = Least(@, TmpCap - 1)]))

Replay(s, item) ==
  IF ~s.ok THEN s
  ELSE IF item.c \in {"text", "pct"} THEN Append1(s, Piece(item.c, 0, 1))
  ELSE AppendSpec(s, item)

(* _nei_log_get_fmt_meta_cached keeps what it found under the address.         *)
HasPercent(fmt) == \E i \in DOMAIN fmt : fmt[i].c # "text"
SimpleReplay(fmt) == \A i \in DOMAIN fmt : fmt[i].c \in {"text", "pct"} \/ (IsSimpleSpec(fmt[i]) /\ fmt[i].c # "x" /\ fmt[i].len = "")
MetaFmt(r) == IF metaCache.slot = r.slot THEN metaCache.fmt ELSE r.fmt

(* A format without % is copied as long as the cached length says. *)
AsText(s, fmt, n) ==
  IF s.used + n >= LineCap THEN Failed(s) ELSE [s EXCEPT !.out = @ \o [i \in 1..n |-> Piece(IF i <= Len(fmt) THEN fmt[i].c ELSE "past", 0, 1)], !.used = @ + n]

SimplyReplayed(s, item) ==
  IF ~s.ok THEN s
  ELSE IF item.c \in {"text", "pct"} THEN Append1(s, Piece(item.c, 0, 1))
  ELSE IF IsSimpleSpec(item) THEN AppendFromSpec(s, item) ELSE Failed(s)

FormatEvent(r) ==
  LET s == [ok |-> TRUE, pay |-> r.pay, cursor |-> 1, out |-> <<>>, used |-> 1]
      meta == MetaFmt(r)
  IN IF r.call.addr = "literal" THEN Append1(s, Piece("literal", r.pay[1].v, r.pay[1].v))
     ELSE IF ~HasPercent(meta) THEN AsText(s, r.fmt, Len(meta))
     ELSE IF SimpleReplay(meta) THEN FoldLeft(SimplyReplayed, s, r.fmt) ELSE FoldLeft(Replay, s, r.fmt)

(* _nei_log_format_timestamp: the date is kept for the second it was made      *)
(* in.                                                                         *)
CacheHit(sec, style) == tsCache.ready /\ sec >= tsCache.sec /\ tsCache.sec = sec /\ tsCache.style = style
Stamp(sec, style) == IF CacheHit(sec, style) THEN [sec |-> tsCache.sec, style |-> tsCache.style] ELSE [sec |-> sec, style |-> style]

----------------------------------------------------------------------------
(* nei_llog, nei_vlog: serialise on the caller's stack, then copy into a slot. *)
Log(call) ==
  LET payload == Payload(OpsFor(call), call.args)
  IN /\ call.addr # "literal" /\ Len(records) < Slots
     /\ planCache' = [addr |-> call.addr, fmt |-> PlanFor(call)]
     /\ IF Rejected(call.fmt) \/ ~Fits(payload)
        THEN line' = [state |-> "dropped", call |-> call, where |-> "caller", stale |-> {}] /\ UNCHANGED <<records, place>>
        ELSE /\ \E sec \in Seconds :
                  records' = Append(records, [slot |-> place, call |-> call, fmt |-> Copied(call.fmt), pay |-> payload, sec |-> sec,
                                              stale |-> PlanFor(call) # call.fmt])
             /\ place' = (place + 1) % Slots /\ line' = NoLine
     /\ UNCHANGED <<metaCache, tsCache>>

LogLiteral(call) ==
  /\ call.addr = "literal" /\ Len(records) < Slots
  /\ \E sec \in Seconds :
       records' = Append(records, [slot |-> place, call |-> call, fmt |-> <<>>, sec |-> sec, stale |-> FALSE,
                                   pay |-> <<[t |-> "literal", v |-> Least(call.args[1], StrCopy)]>>])
  /\ place' = (place + 1) % Slots /\ line' = NoLine /\ UNCHANGED <<planCache, metaCache, tsCache>>

(* The consumer formats the oldest record in its slot; what cannot be          *)
(* formatted is not emitted.                                                   *)
ProcessEvent(style) ==
  /\ records # <<>>
  /\ LET r == Head(records)
         done == FormatEvent(r)
         why == (IF r.stale THEN {"plan"} ELSE {}) \cup (IF r.call.addr # "literal" /\ MetaFmt(r) # r.fmt THEN {"meta"} ELSE {})
     IN /\ line' = IF done.ok THEN [state |-> "emitted", call |-> r.call, out |-> done.out, stale |-> why,
                                    stamp |-> Stamp(r.sec, style), made |-> [sec |-> r.sec, style |-> style]]
                   ELSE [state |-> "dropped", call |-> r.call, where |-> "consumer", stale |-> why]
        /\ metaCache' = IF r.call.addr = "literal" THEN metaCache ELSE [slot |-> r.slot, fmt |-> MetaFmt(r)]
        /\ tsCache' = [ready |-> TRUE, sec |-> r.sec, style |-> IF CacheHit(r.sec, style) THEN tsCache.style ELSE style]
  /\ records' = Tail(records) /\ UNCHANGED <<place, planCache>>

Next == (\E call \in Calls : Log(call) \/ LogLiteral(call)) \/ (\E style \in Styles : ProcessEvent(style))

Spec == Init /\ [][Next]_recordVars

----------------------------------------------------------------------------
(* The reference: what printf prints. *)
ItemArgs(item) == (IF item.w THEN 1 ELSE 0) + (IF item.p THEN 1 ELSE 0) + (IF item.c \in {"text", "pct", "n", "m"} THEN 0 ELSE 1)
ArgsBefore(fmt, i) == FoldSeq(LAMBDA item, n : n + ItemArgs(item), 0, SubSeq(fmt, 1, i - 1))
PrintfItem(call, i) ==
  LET item == call.fmt[i]
      a == ArgsBefore(call.fmt, i)
      last == a + ItemArgs(item)
      precision == IF item.p THEN call.args[last - 1] ELSE -1
  IN IF item.c \in {"text", "pct"} THEN Piece(item.c, 0, 1)
     ELSE Printed(item, call.args[last], IF item.w THEN call.args[a + 1] ELSE -1, precision)
Printf(call) ==
  IF call.addr = "literal" THEN <<Piece("literal", call.args[1], call.args[1])>> ELSE [i \in DOMAIN call.fmt |-> PrintfItem(call, i)]

(* What the logger says it takes, and what has room in its buffers. *)
Shorts(call) == {i \in DOMAIN call.fmt : call.fmt[i].c = "d" /\ call.fmt[i].len = "h"}
Precisions(call) == {i \in DOMAIN call.fmt : call.fmt[i].p}
Known(call) == \A i \in DOMAIN call.fmt : call.fmt[i].c \notin {"n", "m"}
InRange(call) ==
  /\ \A i \in Shorts(call) : call.args[ArgsBefore(call.fmt, i + 1)] < Narrow
  /\ \A i \in Precisions(call) : call.args[ArgsBefore(call.fmt, i + 1) - 1] >= 0
Roomy(call) ==
  /\ \A i \in DOMAIN Printf(call) : Printf(call)[i].n <= IF Printf(call)[i].c \in {"literal", "s"} THEN Least(StrCopy, TmpCap - 1) ELSE TmpCap - 1
  /\ FoldSeq(LAMBDA x, n : n + x.n, 1, Printf(call)) < LineCap
  /\ call.addr # "literal" => Before[call.fmt][Len(call.fmt)] < FmtCopy /\ Fits(Payload(Ops(call.fmt), call.args))

TypeOK == Len(records) <= Slots /\ place \in 0..Slots - 1 /\ line.state \in {"none", "emitted", "dropped"}

(* What reaches the sink is what printf would have printed, under the          *)
(* record's own second and style - through the plan or the scanner on the way  *)
(* in, and any of the three replays on the way out - for a call that fits the  *)
(* buffers, whose shorts and precisions are in range and whose caches are not  *)
(* another format's.                                                           *)
RendersAsPrintf ==
  line.state # "none" /\ line.stale = {} =>
    ((Known(line.call) /\ InRange(line.call) /\ Roomy(line.call)) =>
       line.state = "emitted" /\ line.out = Printf(line.call) /\ line.stamp = line.made)

(* Violated: the consumer remembers has_percent, the length and the replay of  *)
(* a format by its address, and that is the address of a ring slot: the next   *)
(* format in the same slot is rendered as the last one was.                    *)
MetaIsFresh == line.state # "none" => "meta" \notin line.stale

(* Violated: the caller's plan is kept by address too: of a buffer that is     *)
(* filled again, the old plan reads the new arguments.                         *)
PlanIsFresh == line.state # "none" => "plan" \notin line.stale

(* Violated: "printf-style format string": a negative precision counts as      *)
(* none - here as 0, and nothing is printed.                                   *)
PrecisionAsPrintf ==
  line.state = "emitted" /\ Precisions(line.call) # {} /\ Known(line.call) /\ Roomy(line.call) => line.out = Printf(line.call)

(* Violated: "printf-style": %hd prints the short, here the whole int. *)
ShortsAsPrintf ==
  line.state = "emitted" /\ Shorts(line.call) # {} /\ Known(line.call) /\ Roomy(line.call) => line.out = Printf(line.call)

(* Violated: "Maximum deep-copy size for string arguments": a string that was  *)
(* copied is logged; one that has no room in the line takes its record along.  *)
CopiedIsLogged == line.state = "dropped" => line.where = "caller"

-----------------------------------------------------------------------------
(***************************************************************************)
(* The built-in file sink (log_sink.c), called by the consumer thread      *)
(* only: lines collected in the write batch, the file and its numbered     *)
(* backups, rotation by size, the periodic flush, and what is left when    *)
(* the process goes down - cleanly, or through the crash handler of        *)
(* log_api.c.  A line is its number and its size; write(2) and rename(2)   *)
(* of the file system may fail.                                            *)
(***************************************************************************)
CONSTANTS Options,   \* of nei_log_create_default_file_sink: [max, backups, interval, batch]
          Sizes,     \* sizes of a line, the newline included
          MaxLines, MaxFaults

VARIABLES
  opt,       \* the sink's options
  sink,      \* fp, flush_counter, current_size; up: the process runs
  batch,     \* write_batch_buf: the lines in it
  files,     \* the file (0) and its backups: the lines in each, or "none"
  logged,    \* history: sizes of the lines given to the sink
  faults,    \* history: failures of the file system, of each kind
  lost,      \* history: lines a fault or the end of the process took
  fatal      \* history: the lines of the crash handler

sinkVars == <<opt, sink, batch, files, logged, faults, lost, fatal>>

None == <<0>>
SinkInit ==
  /\ opt \in Options /\ sink = [fp |-> TRUE, counter |-> 0, size |-> 0, up |-> TRUE]
  /\ batch = <<>> /\ files = [i \in 0..opt.backups |-> IF i = 0 THEN <<>> ELSE None]
  /\ logged = <<>> /\ faults = <<>> /\ lost = {} /\ fatal = {}

SinkSizeOf(lines) == FoldSeq(LAMBDA l, n : n + logged'[l], 0, lines)
Bytes(lines) == FoldSeq(LAMBDA l, n : n + logged[l], 0, lines)

----------------------------------------------------------------------------
(* A step of the sink is a function of its state; `fails' is what the file     *)
(* system refuses this time.                                                   *)
S == [sink |-> sink, batch |-> batch, files |-> files, lost |-> lost]

WriteOut(s, lines, fails) ==
  IF ~s.sink.fp THEN [s EXCEPT !.lost = @ \cup ToSet(lines)]
  ELSE IF <<"write", 0>> \in fails THEN [s EXCEPT !.lost = @ \cup ToSet(lines)]
  ELSE [s EXCEPT !.files[0] = @ \o lines]

(* _nei_log_file_sink_flush_pending: the batch is empty afterwards, whether or *)
(* not it could be written.                                                    *)
FlushPending(s, fails) == IF ~s.sink.fp THEN s ELSE [WriteOut(s, s.batch, fails) EXCEPT !.batch = <<>>]

(* The files are shifted from the oldest to the youngest, each after its       *)
(* destination was removed, and no failure is looked at.  A destination that   *)
(* can neither be removed nor replaced stays; one that was removed and not     *)
(* replaced is gone; either way the source goes when it is the destination.    *)
Stays(i, fails) == <<"remove", i>> \in fails
Stuck(i, fails) == <<"rename", i>> \in fails
Shifted(f, fails) ==
  [i \in DOMAIN f |->
     CASE i = 0 -> IF Stays(1, fails) \/ Stuck(1, fails) THEN f[0] ELSE <<>>
       [] i > 0 -> IF Stays(i, fails) THEN f[i] ELSE IF Stuck(i, fails) THEN None ELSE f[i - 1]]
Overrun(f, fails) ==
  UNION {ToSet(f[i - 1]) : i \in {j \in DOMAIN f \ {0, 1} : f[j - 1] # None /\ (Stays(j, fails) \/ Stuck(j, fails))}}

(* _nei_log_file_sink_rotate *)
Rotate(s, fails) ==
  LET flushed == FlushPending(s, fails)
      closed == [flushed EXCEPT !.files = Shifted(flushed.files, fails), !.lost = @ \cup Overrun(flushed.files, fails),
                                !.sink.fp = FALSE, !.sink.counter = 0]
  IN IF <<"open", 0>> \in fails THEN closed ELSE [closed EXCEPT !.sink.fp = TRUE, !.sink.size = SinkSizeOf(closed.files[0])]

Rotates(s, n) == opt.max > 0 /\ opt.backups > 0 /\ s.sink.size > 0 /\ s.sink.size + n > opt.max
PrepareWrite(s, n, fails) == IF Rotates(s, n) THEN Rotate(s, fails) ELSE s

(* _nei_log_file_sink_append_line. *)
TooLong(s, l, fails) == WriteOut(FlushPending(s, fails), <<l>>, fails)

AppendLine(s, l, n, fails) ==
  LET p == PrepareWrite(s, n, fails)
      room == IF SinkSizeOf(p.batch) + n > opt.batch THEN FlushPending(p, fails) ELSE p
      put == IF opt.batch = 0 THEN WriteOut(p, <<l>>, fails)
             ELSE IF n > opt.batch THEN TooLong(p, l, fails)
             ELSE [room EXCEPT !.batch = Append(@, l)]
  IN [put EXCEPT !.sink.size = @ + n]

(* _nei_log_default_file_llog, and vlog. *)
Counted(s, fails) ==
  IF s.sink.counter + 1 >= opt.interval THEN [FlushPending(s, fails) EXCEPT !.sink.counter = 0] ELSE [s EXCEPT !.sink.counter = @ + 1]

Llog(s, l, n, fails) ==
  IF ~s.sink.fp THEN [s EXCEPT !.lost = @ \cup {l}] ELSE Counted(AppendLine(s, l, n, fails), fails)

Becomes(s) == sink' = s.sink /\ batch' = s.batch /\ files' = s.files /\ lost' = s.lost

----------------------------------------------------------------------------
Faulty(fails) == (fails # {} => Len(faults) < MaxFaults) /\ faults' = IF fails = {} THEN faults ELSE Append(faults, fails)
Faults == {{}, {<<"write", 0>>}, {<<"open", 0>>}, {<<"remove", opt.backups>>}} \cup {{<<"rename", i>>} : i \in 1..opt.backups}

SinkLog(n, fails) ==
  /\ sink.up /\ Len(logged) < MaxLines /\ Faulty(fails)
  /\ ~(fails \subseteq {<<"write", 0>>}) => Rotates(S, n) /\ sink.fp
  /\ logged' = Append(logged, n) /\ Becomes(Llog(S, Len(logged) + 1, n, fails))
  /\ UNCHANGED <<opt, fatal>>

(* _nei_log_auto_flush_file_sinks, when the consumer has been idle. *)
AutoFlush ==
  /\ sink.up /\ sink.fp /\ batch # <<>> /\ Becomes(FlushPending(S, {}))
  /\ UNCHANGED <<opt, logged, faults, fatal>>

(* nei_log_release_sink; then the program starts again and appends. *)
Release ==
  /\ sink.up
  /\ LET s == FlushPending(S, {}) IN Becomes([s EXCEPT !.sink.fp = FALSE, !.sink.up = FALSE, !.lost = IF sink.fp THEN @ ELSE @ \cup ToSet(batch), !.batch = <<>>])
  /\ UNCHANGED <<opt, logged, faults, fatal>>

Create ==
  /\ ~sink.up /\ Len(logged) < MaxLines
  /\ sink' = [fp |-> TRUE, counter |-> 0, size |-> Bytes(files[0]), up |-> TRUE]
  /\ UNCHANGED <<opt, batch, files, logged, faults, lost, fatal>>

(* The process dies at once: what is in its memory goes.  The crash handler    *)
(* logs the stack, waits for the consumer and flushes stdio before it.         *)
Dies == sink' = [sink EXCEPT !.fp = FALSE, !.up = FALSE] /\ lost' = lost \cup ToSet(batch) /\ batch' = <<>> /\ UNCHANGED files

Killed == sink.up /\ Dies /\ UNCHANGED <<opt, logged, faults, fatal>>

CrashHandler(n) ==
  /\ sink.up /\ sink.fp /\ Len(logged) < MaxLines /\ ~Rotates(S, n)
  /\ logged' = Append(logged, n)
  /\ LET s == Llog(S, Len(logged) + 1, n, {})
     IN /\ sink' = [s.sink EXCEPT !.fp = FALSE, !.up = FALSE] /\ files' = s.files /\ lost' = s.lost \cup ToSet(s.batch) /\ batch' = <<>>
  /\ fatal' = fatal \cup {Len(logged) + 1} /\ UNCHANGED <<opt, faults>>

SinkNext ==
  \/ \E n \in Sizes, fails \in Faults : SinkLog(n, fails)
  \/ AutoFlush \/ Release \/ Create \/ Killed \/ \E n \in Sizes : CrashHandler(n)

SinkSpec == SinkInit /\ [][SinkNext]_sinkVars

----------------------------------------------------------------------------
Kept == [i \in 0..opt.backups |-> IF files[i] = None THEN <<>> ELSE files[i]]
OnDisk == FlattenSeq([i \in 1..opt.backups + 1 |-> Kept[opt.backups + 1 - i]])

SinkTypeOK == batch \in Seq(1..Len(logged)) /\ \A i \in 0..opt.backups : files[i] = None \/ files[i] \in Seq(1..Len(logged))

(* Backups, file and batch, read from the oldest, are the lines in the order   *)
(* they were logged, each once; below the oldest that is kept nothing is       *)
(* missing but what a fault or the end of the process took.                    *)
FilesAreTheLog ==
  LET all == OnDisk \o batch
  IN /\ \A i, j \in DOMAIN all : i < j => all[i] < all[j]
     /\ \A l \in 1..Len(logged) : (\E i \in DOMAIN all : all[i] < l) => l \in ToSet(all) \cup lost

(* No file is larger than max_file_bytes but for a single line that is. *)
FilesAreBounded ==
  opt.max > 0 /\ opt.backups > 0 /\ faults = <<>> => \A i \in 0..opt.backups : Bytes(Kept[i]) <= opt.max \/ Len(Kept[i]) = 1

(* Violated: "Best-effort flush": the crash handler drains the ring and calls  *)
(* fflush, but the write batch is neither.                                     *)
FatalIsWritten == fatal \cap lost = {}

(* Violated: a sink outlives a fault: when the file cannot be opened again     *)
(* after a rotation, every line that follows is dropped.                       *)
SinkRecovers == sink.up => sink.fp

(* Violated: max_backup_files bounds the backups that are made: a file that    *)
(* cannot be renamed is rotated again at every line, and each time the oldest  *)
(* backup goes, though no new one is made.                                     *)
BackupsStay ==
  [][\A l \in ToSet(OnDisk) : (\E i \in 0..opt.backups : files[i] = None) => l \in ToSet(OnDisk') \cup lost']_sinkVars

-----------------------------------------------------------------------------
(***************************************************************************)
(* Trace events (trace_event.h, trace_log.cpp): the TRACE_EVENT macros     *)
(* check an atomic flag, AddEvent checks it again and appends to the       *)
(* buffer of the thread, Flush and Clear walk the registry of buffers      *)
(* under its lock, taking the lock of one buffer after the other.          *)
(***************************************************************************)
CONSTANTS Threads, Instants, MaxEvents, MaxClock, MaxFlushes

VARIABLES
  enabled,          \* g_trace_enabled
  clock,            \* TimeTicks::Now()
  thread,           \* thread -> [pc, start, event]: "out", "scoped" (constructed), "adds", "pushes", "in" (the body)
  thread_buffers,   \* the registry: threads in the order their buffers were registered
  events,           \* thread -> the events of its buffer
  walk,             \* the Flush or Clear that holds registry_lock_: [op, i, all_events]
  output,           \* history: what each Flush wrote
  added, cleared,   \* history: accepted events, events dropped by Clear
  left              \* history: the last traced body that ended: <<thread, start, end>>

traceVars == <<enabled, clock, thread, thread_buffers, events, walk, output, added, cleared, left>>

NoWalk == [op |-> "none", i |-> 0, all |-> <<>>]
Outside == [pc |-> "out", start |-> 0, ph |-> "X", ts |-> 0, dur |-> 0]

TraceInit ==
  /\ enabled \in BOOLEAN /\ clock = 0 /\ thread = [t \in Threads |-> Outside] /\ thread_buffers = <<>>
  /\ events = [t \in Threads |-> <<>>] /\ walk = NoWalk /\ output = <<>> /\ added = {} /\ cleared = {} /\ left = <<>>

AddedBy(t) == Cardinality({e \in added : e.t = t})
Unlocked == walk.op = "none"

Tick == clock < MaxClock /\ clock' = clock + 1 /\ UNCHANGED <<enabled, thread, thread_buffers, events, walk, output, added, cleared, left>>
SetEnabled == enabled' = ~enabled /\ UNCHANGED <<clock, thread, thread_buffers, events, walk, output, added, cleared, left>>

----------------------------------------------------------------------------
(* TRACE_EVENT0 at the head of a body: the flag, the constructor of the scope. *)
(* The scope is the else branch of the macro: its destructor is the next step, *)
(* before the body.                                                            *)
EnterScope(t) ==
  /\ thread[t].pc = "out" /\ AddedBy(t) < MaxEvents
  /\ thread' = [thread EXCEPT ![t] = [Outside EXCEPT !.pc = IF enabled THEN "scoped" ELSE "untraced", !.start = clock, !.ts = clock]]
  /\ UNCHANGED <<enabled, clock, thread_buffers, events, walk, output, added, cleared, left>>
ScopeEnds(t) ==
  /\ thread[t].pc = "scoped" /\ thread' = [thread EXCEPT ![t].pc = "adds", ![t].dur = clock - thread[t].start]
  /\ UNCHANGED <<enabled, clock, thread_buffers, events, walk, output, added, cleared, left>>
(* TRACE_EVENT_BEGIN, _END and _INSTANT: the event is made at once. *)
Instant(t, ph) ==
  /\ thread[t].pc = "out" /\ enabled /\ AddedBy(t) < MaxEvents
  /\ thread' = [thread EXCEPT ![t] = [Outside EXCEPT !.pc = "adds", !.ph = ph, !.start = clock, !.ts = clock]]
  /\ UNCHANGED <<enabled, clock, thread_buffers, events, walk, output, added, cleared, left>>

(* AddEvent: the second look at the flag, GetOrCreateThreadBuffer, which       *)
(* registers a new buffer under registry_lock_, and the push under the         *)
(* buffer's own lock.                                                          *)
AfterAdd(t) == IF thread[t].ph = "X" THEN "in" ELSE "out"
AddEvent(t) ==
  /\ thread[t].pc = "adds"
  /\ IF ~enabled THEN thread' = [thread EXCEPT ![t].pc = AfterAdd(t)] /\ UNCHANGED thread_buffers
     ELSE /\ thread' = [thread EXCEPT ![t].pc = "pushes"]
          /\ IF Contains(thread_buffers, t) THEN UNCHANGED thread_buffers
             ELSE Unlocked /\ thread_buffers' = Append(thread_buffers, t)
  /\ UNCHANGED <<enabled, clock, events, walk, output, added, cleared, left>>
Push(t) ==
  /\ thread[t].pc = "pushes"
  /\ LET e == [t |-> t, n |-> AddedBy(t) + 1, ts |-> thread[t].ts, dur |-> thread[t].dur, ph |-> thread[t].ph]
     IN events' = [events EXCEPT ![t] = Append(@, e)] /\ added' = added \cup {e}
  /\ thread' = [thread EXCEPT ![t].pc = AfterAdd(t)]
  /\ UNCHANGED <<enabled, clock, thread_buffers, walk, output, cleared, left>>
LeaveScope(t) ==
  /\ thread[t].pc \in {"in", "untraced"} /\ thread' = [thread EXCEPT ![t] = Outside]
  /\ left' = IF thread[t].pc = "in" THEN <<t, thread[t].start, clock>> ELSE <<>>
  /\ UNCHANGED <<enabled, clock, thread_buffers, events, walk, output, added, cleared>>

----------------------------------------------------------------------------
(* Flush and Clear. *)
StartWalk(op) ==
  /\ Unlocked /\ Len(output) < MaxFlushes /\ walk' = [op |-> op, i |-> 1, all |-> <<>>]
  /\ UNCHANGED <<enabled, clock, thread, thread_buffers, events, output, added, cleared, left>>
(* One buffer: moved out and emptied. *)
BufferEmptied(t) == <<>>
TakeBuffer ==
  /\ walk.op # "none" /\ walk.i <= Len(thread_buffers)
  /\ LET t == thread_buffers[walk.i] IN
     /\ events' = [events EXCEPT ![t] = BufferEmptied(t)]
     /\ IF walk.op = "flush" THEN walk' = [walk EXCEPT !.i = @ + 1, !.all = @ \o events[t]] /\ UNCHANGED cleared
        ELSE walk' = [walk EXCEPT !.i = @ + 1] /\ cleared' = cleared \cup Range(events[t])
  /\ UNCHANGED <<enabled, clock, thread, thread_buffers, output, added, left>>
Earlier(a, b) == a.ts < b.ts
EndWalk ==
  /\ walk.op # "none" /\ walk.i > Len(thread_buffers) /\ walk' = NoWalk
  /\ IF walk.op = "clear" THEN UNCHANGED output ELSE output' = Append(output, SortSeq(walk.all, Earlier))
  /\ UNCHANGED <<enabled, clock, thread, thread_buffers, events, added, cleared, left>>

TraceNext ==
  \/ Tick \/ SetEnabled \/ TakeBuffer \/ EndWalk
  \/ \E op \in {"flush", "clear"} : StartWalk(op)
  \/ \E t \in Threads :
       \/ EnterScope(t) \/ ScopeEnds(t) \/ AddEvent(t) \/ Push(t) \/ LeaveScope(t)
       \/ \E ph \in Instants : Instant(t, ph)

TraceSpec == TraceInit /\ [][TraceNext]_traceVars

----------------------------------------------------------------------------
TraceTypeOK ==
  /\ enabled \in BOOLEAN /\ clock \in 0..MaxClock /\ Range(thread_buffers) \subseteq Threads
  /\ walk.op \in {"none", "flush", "clear"}

(* However tracing threads, flushes and clears cross: an accepted event is in  *)
(* one place, its buffer, the flush that took it, one output or the cleared,   *)
(* and each output is in the order of the timestamps.                          *)
Copies(e) ==
  Len(SelectSeq(events[e.t] \o walk.all \o FlattenSeq(output), LAMBDA x : x = e)) + (IF e \in cleared THEN 1 ELSE 0)
FlushedOnce ==
  /\ \A e \in added : Copies(e) = 1
  /\ \A f \in DOMAIN output : \A i \in 1..(Len(output[f]) - 1) : output[f][i].ts <= output[f][i + 1].ts

(* Violated: TRACE_EVENT0 "records a complete event, its duration computed     *)
(* automatically": the scope object ends with the macro, not with the body.    *)
ScopeIsTimed == left # <<>> => \A e \in added : e.ph = "X" /\ e.t = left[1] /\ e.ts = left[2] => e.dur = left[3] - left[2]
=============================================================================
