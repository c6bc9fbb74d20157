------------------------------- MODULE NeiCore -------------------------------
(***************************************************************************)
(* The C core (src/nei): flake ids, xdr encoding and path functions.       *)
(***************************************************************************)
EXTENDS Sequences, Integers, SequencesExt, FiniteSets, FiniteSetsExt

-----------------------------------------------------------------------------
(***************************************************************************)
(* The 64-bit ids of nei_flake_next_id (flake_id.c): a millisecond         *)
(* timestamp, the tag of the calling thread and a sequence number of that  *)
(* thread.  Nothing is shared but the counter that hands out the tags, so  *)
(* that ids differ rests on each thread's own last_ms and sequence, on a   *)
(* clock that may stand still or be set back, and on the tags.             *)
(***************************************************************************)
CONSTANTS Threads,      \* threads that ask for ids
          Tags,         \* 2^NEI_FLAKE_THREAD_TAG_BITS
          Numbers,      \* 2^NEI_FLAKE_SEQUENCE_BITS
          Stamps,       \* 2^NEI_FLAKE_TIMESTAMP_BITS
          Epoch,        \* NEI_FLAKE_EPOCH_MS
          MaxClock,     \* bound on the clock
          MaxIds        \* bound on the ids of one thread

VARIABLES clock,        \* what nei_flake_now_ms returns
          tags,         \* s_thread_tag_counter
          tls,          \* s_tls of every thread
          ids           \* the ids every thread got, in order

flakeVars == <<clock, tags, tls, ids>>

Init == /\ clock \in 0..MaxClock
        /\ tags = 0
        /\ tls = [t \in Threads |-> [initialized |-> FALSE, spins |-> FALSE,
                                     tag |-> 0, last_ms |-> 0, sequence |-> 0]]
        /\ ids = [t \in Threads |-> <<>>]

(* The wall clock behind the QPC anchor: it may be set back. *)
Tick == /\ clock' \in 0..MaxClock
        /\ UNCHANGED <<tags, tls, ids>>

(* The timestamp goes highest, so that a thread's ids grow with time. *)
Id(tag, ms, seq) ==
    ((((ms - Epoch) % Stamps) * Tags + tag) * Numbers) + (seq % Numbers)

Gives(t, st) == /\ tls' = [tls EXCEPT ![t] = st]
                /\ ids' = [ids EXCEPT ![t] = Append(@, Id(st.tag, st.last_ms, st.sequence))]

(* A clock before the epoch reads as the epoch, and one that was set back  *)
(* as the last millisecond in which this thread made an id.                *)
GoesBack(t) == IF clock < Epoch THEN Epoch ELSE clock
NotBack(t) == LET now == IF clock < Epoch THEN Epoch ELSE clock
              IN  IF now < tls[t].last_ms THEN tls[t].last_ms ELSE now

next_thread_tag == tags % Tags

FirstCall(t) ==
    /\ ~tls[t].initialized
    /\ tls' = [tls EXCEPT ![t] = [@ EXCEPT !.initialized = TRUE, !.tag = next_thread_tag]]
    /\ tags' = tags + 1
    /\ UNCHANGED <<clock, ids>>

MayAsk(t) == tls[t].initialized /\ ~tls[t].spins /\ Len(ids[t]) < MaxIds

NewMillisecond(t) ==
    /\ MayAsk(t) /\ NotBack(t) # tls[t].last_ms
    /\ Gives(t, [tls[t] EXCEPT !.last_ms = NotBack(t), !.sequence = 0])
    /\ UNCHANGED <<clock, tags>>

Exhausted(t) == tls[t].sequence >= Numbers - 1

SameMillisecond(t) ==
    /\ MayAsk(t) /\ NotBack(t) = tls[t].last_ms /\ ~Exhausted(t)
    /\ Gives(t, [tls[t] EXCEPT !.sequence = @ + 1])
    /\ UNCHANGED <<clock, tags>>

(* All numbers of this millisecond are used: wait in the call for the next. *)
Spin(t) ==
    /\ MayAsk(t) /\ NotBack(t) = tls[t].last_ms /\ Exhausted(t)
    /\ tls' = [tls EXCEPT ![t].spins = TRUE]
    /\ UNCHANGED <<clock, tags, ids>>

SpinEnds(t) ==
    /\ tls[t].spins /\ clock > tls[t].last_ms
    /\ Gives(t, [tls[t] EXCEPT !.spins = FALSE, !.last_ms = clock, !.sequence = 0])
    /\ UNCHANGED <<clock, tags>>

Next == \/ Tick
        \/ \E t \in Threads : \/ FirstCall(t) \/ NewMillisecond(t) \/ SameMillisecond(t)
                              \/ Spin(t) \/ SpinEnds(t)

Spec == Init /\ [][Next]_flakeVars

TypeOK ==
    /\ clock \in Nat /\ tags \in Nat
    /\ tls \in [Threads -> [initialized : BOOLEAN, spins : BOOLEAN, tag : 0..(Tags - 1),
                            last_ms : Nat, sequence : Nat]]
    /\ ids \in [Threads -> Seq(Nat)]

(***************************************************************************)
(* flake_id.c, nei_flake_next_id: whatever the clock does (stands still,   *)
(* is set back, is before the epoch) no id is ever given twice, not to two *)
(* threads and not to one, and the ids of one thread grow, as the tests    *)
(* SingleThreadIdsAreMonotonic and MultiThreadedGenerationIsUnique want.   *)
(***************************************************************************)
IdsAreUnique ==
    \A t, u \in Threads : \A i \in DOMAIN ids[t], j \in DOMAIN ids[u] :
        /\ ids[t][i] = ids[u][j] => t = u /\ i = j
        /\ t = u /\ i < j => ids[t][i] < ids[u][j]

-----------------------------------------------------------------------------
(***************************************************************************)
(* The XDR codec (xdr.c): a writer over a fixed buffer and a reader over   *)
(* the bytes it wrote, or over bytes that came from elsewhere.  The scale  *)
(* is a byte of one bit: a byte is 0 or 1, a 32-bit word four of them      *)
(* (0..15), a 64-bit word eight; SizeT is the number of values of size_t   *)
(* (256 where it is wider than 32 bits, 16 where it is as wide).  The      *)
(* items are [k, v]: the kind and the value, a sequence of bytes for       *)
(* opaque data, counted bytes and strings.                                 *)
(***************************************************************************)
CONSTANTS Plans, Foreign, Sizes, Capacities, SizeT

VARIABLES
  plan,      \* the items to write, and the kinds to read
  writer,    \* [buffer, size, offset]
  reader,    \* [buffer, size, offset]
  out_capacity,  \* what the caller gives read_bytes and read_string
  pc,        \* "writes", "reads", "done"
  wrote,     \* items written
  got,       \* values read
  rc,        \* the last return code: "ok", "bounds"
  overrun    \* history: memory outside the reader's buffer or the caller's was touched

Digits == 4
U32 == 16

xdrVars == <<plan, writer, reader, out_capacity, pc, wrote, got, rc, overrun>>

Empty(size) == [buffer |-> <<>>, size |-> size, offset |-> 0]
XdrInit ==
  /\ out_capacity \in Capacities /\ wrote = 0 /\ got = <<>> /\ rc = "ok" /\ overrun = FALSE
  /\ \/ /\ plan \in Plans /\ pc = "writes"
        /\ \E size \in Sizes : writer = Empty(size) /\ reader = Empty(0)
     \/ /\ pc = "reads" /\ writer = Empty(0)
        /\ \E k \in {"bytes", "string", "skip"} : plan = <<[k |-> k, n |-> 0, b |-> <<>>]>>
        /\ \E b \in Foreign : reader = [buffer |-> b, size |-> Len(b), offset |-> 0]

has_space(size, offset, need) == offset <= size /\ need <= size - offset
padding(length) == (4 - (length % 4)) % 4
Opaque(length) == (length + padding(length)) % SizeT

(* Big-endian words, and the value of one. *)
Bytes(v, n) == [i \in 1..n |-> (v \div (2 ^ (n - i))) % 2]
Value(b) == FoldSeq(LAMBDA d, a : d + a, 0, [i \in 1..Len(b) |-> b[i] * 2 ^ (Len(b) - i)])

----------------------------------------------------------------------------
(* What one write appends: the words of write_bytes and write_string are       *)
(* written before the data is found not to fit.                                *)
Word(item) ==
  CASE item.k \in {"u32", "i32"} -> Bytes(item.n % U32, Digits)
    [] item.k \in {"u64", "i64"} -> Bytes(item.n % (U32 * U32), 2 * Digits)
    [] item.k \in {"bytes", "string", "skip"} -> Bytes(Len(item.b), Digits)
    [] OTHER -> <<>>
Data(item) == IF item.k \in {"u32", "i32", "u64", "i64"} THEN <<>> ELSE item.b \o [i \in 1..padding(Len(item.b)) |-> 0]
Appended(w, b) == [w EXCEPT !.buffer = @ \o b, !.offset = @ + Len(b)]

Write ==
  /\ pc = "writes" /\ wrote < Len(plan)
  /\ LET item == plan[wrote + 1]
         words == has_space(writer.size, writer.offset, Len(Word(item)))
         w == IF words THEN Appended(writer, Word(item)) ELSE writer
         fits == words /\ has_space(w.size, w.offset, Len(Data(item)))
     IN /\ writer' = IF fits THEN Appended(w, Data(item)) ELSE w
        /\ wrote' = IF fits THEN wrote + 1 ELSE wrote
        /\ rc' = IF fits THEN "ok" ELSE "bounds"
        /\ pc' = IF fits THEN pc ELSE "written"
  /\ UNCHANGED <<plan, reader, out_capacity, got, overrun>>

(* The buffer of offset bytes is handed to a reader. *)
reader_init ==
  /\ pc = "written" \/ (pc = "writes" /\ wrote = Len(plan))
  /\ pc' = "reads" /\ reader' = [buffer |-> writer.buffer, size |-> writer.offset, offset |-> 0] /\ rc' = "ok"
  /\ UNCHANGED <<plan, writer, out_capacity, wrote, got, overrun>>

----------------------------------------------------------------------------
Fails(at) == pc' = "done" /\ rc' = "bounds" /\ reader' = [reader EXCEPT !.offset = at] /\ UNCHANGED <<got, overrun>>
Taken(from, n) == SubSeq(reader.buffer, from + 1, from + n)
XdrGives(v, to) == got' = Append(got, v) /\ rc' = "ok" /\ reader' = [reader EXCEPT !.offset = to]
Signed(v, range) == IF v >= range \div 2 THEN v - range ELSE v

ReadWord(k) ==
  LET n == IF k \in {"u64", "i64"} THEN 2 * Digits ELSE Digits
      v == Value(Taken(reader.offset, n))
  IN IF ~has_space(reader.size, reader.offset, n) THEN Fails(reader.offset)
     ELSE XdrGives(IF k \in {"i32", "i64"} THEN Signed(v, 2 ^ n) ELSE v, reader.offset + n) /\ UNCHANGED <<pc, overrun>>

(* read_opaque: room is the size of the caller's buffer. *)
ReadOpaque(from, length, room) ==
  IF ~has_space(reader.size, from, Opaque(length)) THEN Fails(from)
  ELSE /\ overrun' = (overrun \/ length > room \/ from + length > reader.size)
       /\ XdrGives(IF from + length > reader.size THEN <<>> ELSE Taken(from, length), from + Opaque(length)) /\ UNCHANGED pc

(* The length check of read_bytes and read_string, which writes a              *)
(* terminator, the sum taken in 32 bits.                                       *)
Fits(k, length) == IF k = "string" THEN (length + 1) % U32 <= out_capacity ELSE length <= out_capacity
Room(k) == IF k = "string" THEN out_capacity - 1 ELSE out_capacity

ReadCounted(k) ==
  LET length == Value(Taken(reader.offset, Digits))
      data == reader.offset + Digits
  IN IF ~has_space(reader.size, reader.offset, Digits) THEN Fails(reader.offset)
     ELSE IF k # "skip" /\ ~Fits(k, length) THEN Fails(data)
     ELSE IF k = "skip"
     THEN IF has_space(reader.size, data, Opaque(length)) THEN XdrGives(<<>>, data + Opaque(length)) /\ UNCHANGED <<pc, overrun>>
          ELSE Fails(data)
     ELSE ReadOpaque(data, length, Room(k))

Read ==
  /\ pc = "reads" /\ Len(got) < Len(plan)
  /\ LET item == plan[Len(got) + 1] IN
     CASE item.k \in {"u32", "i32", "u64", "i64"} -> ReadWord(item.k)
       [] item.k = "opaque" -> ReadOpaque(reader.offset, Len(item.b), Len(item.b))
       [] OTHER -> ReadCounted(item.k)
  /\ UNCHANGED <<plan, writer, out_capacity, wrote>>

XdrNext == Write \/ reader_init \/ Read

XdrSpec == XdrInit /\ [][XdrNext]_xdrVars

----------------------------------------------------------------------------
XdrTypeOK == pc \in {"writes", "written", "reads", "done"} /\ rc \in {"ok", "bounds"} /\ overrun \in BOOLEAN

(* For every sequence of items and every size of the buffers: what a reader    *)
(* gives is what was written, it fails only past what was written or at a      *)
(* value longer than the caller's buffer, the offset stays a multiple of four, *)
(* and no byte outside a buffer is touched, for foreign bytes as well.         *)
Stored(item) == IF item.k = "skip" THEN <<>>
                ELSE IF item.k \in {"u32", "i32", "u64", "i64"} THEN item.n ELSE item.b
ReadsWhatWasWritten ==
  /\ ~overrun /\ writer.offset <= writer.size /\ writer.offset % 4 = 0
  /\ writer.size > 0 =>
       /\ \A i \in DOMAIN got : i <= wrote => got[i] = Stored(plan[i])
       /\ pc = "done" => LET i == Len(got) + 1 IN i > wrote \/ ~Fits(plan[i].k, Len(plan[i].b))

-----------------------------------------------------------------------------
(***************************************************************************)
(* The string operations of path_util.c: joining two paths, taking one     *)
(* apart (dirname, basename, stem, extension) and normalising it, each     *)
(* into a buffer of the caller's.  A path is a sequence of characters: "/" *)
(* and "\\" are separators, "c" is a letter, "a" stands for the characters *)
(* that mean nothing here.  A behaviour makes one call.                    *)
(***************************************************************************)
CONSTANTS Paths,        \* the paths the calls are made with
          Seconds,      \* second arguments of nei_path_join
          PathSizes         \* sizes of the caller's buffer

VARIABLES path,         \* the argument
          second,       \* the second argument of a join
          called,       \* the function called, "" before the call
          buf,          \* the caller's buffer after the call
          pathSize,         \* its size
          pathRc            \* what the call returned

pathVars == <<path, second, called, buf, pathSize, pathRc>>

is_separator(c) == c \in {"/", "\\"}
HasDrive(p) == Len(p) > 1 /\ p[1] = "c" /\ p[2] = ":"
is_absolute(p) == p # <<>> /\ (is_separator(p[1]) \/ HasDrive(p))

(* At most size - 1 characters, and the terminator; the mutant leaves no room  *)
(* for the terminator.                                                         *)
buf_copyUnterminated(s) == SubSeq(s, 1, IF Len(s) < pathSize THEN Len(s) ELSE pathSize)
buf_copy(s) == SubSeq(s, 1, IF Len(s) < pathSize - 1 THEN Len(s) ELSE pathSize - 1)

LastOf(S) == Max(S \cup {0})
find_last_sep(p, n) == LastOf({i \in 1..n : is_separator(p[i])})

(* The end of p without its trailing separators, but with its first character. *)
End(p) == LastOf({i \in 1..Len(p) : i = 1 \/ ~is_separator(p[i])})

Dirname(p) ==
    LET sep == find_last_sep(p, End(p))
        dir == LastOf({i \in 1..(sep - 1) : ~is_separator(p[i])})
    IN  IF sep = 0 THEN <<".">>
        ELSE IF sep = 3 /\ p[2] = ":" THEN SubSeq(p, 1, 3)
        ELSE IF dir = 0 THEN SubSeq(p, 1, 1)
        ELSE SubSeq(p, 1, dir)

Basename(p) == SubSeq(p, find_last_sep(p, End(p)) + 1, End(p))

Dots(s) == {i \in 1..Len(s) : s[i] = "."}
LeadingDots(s) == LastOf({n \in 1..Len(s) : \A i \in 1..n : s[i] = "."})
Hidden(s) == s # <<>> /\ s[1] = "."

(* Up to the first dot that is not one of the leading ones. *)
Stem(p) ==
    LET base == Basename(p)
        dots == {i \in Dots(base) : i > LeadingDots(base)}
    IN  IF dots = {} THEN base ELSE SubSeq(base, 1, Min(dots) - 1)

Extension(p) ==
    LET base == Basename(p)
        dots == Dots(base) \ {1}
    IN  IF Hidden(base) \/ dots = {} THEN <<>> ELSE SubSeq(base, Max(dots), Len(base))

Extensions(p) ==
    LET base == Basename(p)
    IN  IF Hidden(base) \/ Dots(base) = {} THEN <<>>
        ELSE SubSeq(base, Min(Dots(base)), Len(base))

Separated(a) == IF a # <<>> /\ ~is_separator(a[Len(a)]) THEN Append(a, "/") ELSE a
Joined(a, b) == IF is_absolute(b) THEN b ELSE Separated(a) \o b

(* A join that may not fit returns the size with a separator, used or not. *)
JoinReturns(a, b) ==
    LET total == Len(a) + 1 + Len(b)
    IN  IF pathSize = 0 THEN (IF is_absolute(b) THEN Len(b) ELSE total) + 1
        ELSE IF ~is_absolute(b) /\ total >= pathSize THEN total
        ELSE Len(Joined(a, b))

Root(p) == IF p # <<>> /\ is_separator(p[1]) THEN <<"/">>
           ELSE IF HasDrive(p) THEN SubSeq(p, 1, IF Len(p) > 2 /\ is_separator(p[3]) THEN 3 ELSE 2)
           ELSE <<>>

(* The components of p from position k on, in order. *)
Components(p, k) ==
    LET starts == {i \in k..Len(p) : ~is_separator(p[i]) /\ (i = k \/ is_separator(p[i - 1]))}
        stop(i) == LastOf({j \in i..Len(p) : \A n \in i..j : ~is_separator(p[n])})
        order == SetToSortSeq(starts, <)
    IN  [n \in DOMAIN order |-> SubSeq(p, order[n], stop(order[n]))]

(* ".." takes back the last component, and its separator stays behind. *)
Up(out, root) ==
    IF Len(out) = Len(root) THEN out
    ELSE SubSeq(out, 1, Max({Len(root)} \cup {i \in (Len(root) + 1)..(Len(out) - 1) :
                                                 is_separator(out[i])}))

Normalize(p) ==
    LET root == Root(p)
        step(out, comp) ==
            IF comp = <<".">> THEN out
            ELSE IF comp = <<".", ".">> THEN Up(out, root)
            ELSE (IF Len(out) > Len(root) THEN Separated(out) ELSE out) \o comp
        out == FoldLeft(step, root, Components(p, Len(root) + 1))
    IN  IF out = <<>> THEN <<".">> ELSE out

PathInit == /\ path \in Paths /\ second = <<>> /\ called = ""
        /\ buf = <<>> /\ pathSize \in PathSizes /\ pathRc = 0

Call(name, result) ==
    /\ called = "" /\ called' = name
    /\ buf' = buf_copy(result) /\ pathRc' = Len(result)
    /\ UNCHANGED <<path, second, pathSize>>

nei_path_dirname == Call("dirname", Dirname(path))
nei_path_basename == Call("basename", Basename(path))
nei_path_stem == Call("stem", Stem(path))
nei_path_extension == Call("extension", Extension(path))
nei_path_extensions == Call("extensions", Extensions(path))
nei_path_normalize == Call("normalize", Normalize(path))

nei_path_join ==
    /\ called = "" /\ called' = "join"
    /\ \E b \in Seconds : /\ second' = b
                          /\ buf' = buf_copy(Joined(path, b))
                          /\ pathRc' = JoinReturns(path, b)
    /\ UNCHANGED <<path, pathSize>>

PathNext == \/ nei_path_dirname \/ nei_path_basename \/ nei_path_stem \/ nei_path_extension
        \/ nei_path_extensions \/ nei_path_normalize \/ nei_path_join

PathSpec == PathInit /\ [][PathNext]_pathVars

PathTypeOK == /\ path \in Paths /\ pathSize \in PathSizes /\ pathRc \in Nat /\ Len(buf) < pathSize
          /\ called \in {"", "dirname", "basename", "stem", "extension", "extensions",
                         "normalize", "join"}

-----------------------------------------------------------------------------
(* What a path means: its root, how far it climbs above where it starts,  *)
(* and the names below that.                                              *)
Meaning(p) ==
    LET walk(m, comp) ==
            IF comp = <<".">> THEN m
            ELSE IF comp # <<".", ".">> THEN [m EXCEPT !.names = Append(@, comp)]
            ELSE IF m.names # <<>> THEN [m EXCEPT !.names = Front(@)]
            ELSE IF m.root # <<>> THEN m
            ELSE [m EXCEPT !.ups = @ + 1]
    IN  FoldLeft(walk, [root |-> Root(p), ups |-> 0, names |-> <<>>],
                 Components(p, Len(Root(p)) + 1))

Whole == called # "" /\ pathRc < pathSize

(***************************************************************************)
(* path_util.c, when the buffer was large enough: what dirname and         *)
(* basename take apart names the same file when it is put together again   *)
(* (a drive letter may be lost: DriveRootStays);                           *)
(* stem and extensions are the two halves of the basename, unless that     *)
(* starts with a dot; and nei_path_normalize keeps the meaning of every    *)
(* path that does not climb above a relative start, and leaves neither "." *)
(* components nor doubled separators.                                      *)
(***************************************************************************)
PathsKeepMeaning ==
    /\ Whole /\ called = "dirname" /\ Basename(path) \notin {<<>>, <<".", ".">>} /\ ~HasDrive(path) =>
          Meaning(Joined(buf, Basename(path))) = Meaning(path)
    /\ Whole /\ called = "stem" /\ ~Hidden(Basename(path)) =>
          buf \o Extensions(path) = Basename(path)
    /\ Whole /\ called = "normalize" /\ Meaning(path).ups = 0 =>
          /\ Meaning(buf) = Meaning(path)
          /\ \A i \in 2..Len(buf) : ~(is_separator(buf[i - 1]) /\ is_separator(buf[i]))
          /\ buf = <<".">> \/ \A comp \in Range(Components(buf, 1)) : comp # <<".">>

(* path_util.c:128: "Windows drive letter root: "C:\" -> "C:\"".           *)
DriveRootStays == Whole /\ called = "dirname" /\ path = <<"c", ":", "\\">> => buf = path

(* path_util.h: "resolves relative components where possible": "../a" is   *)
(* not "a".                                                                *)
ClimbsAreKept == Whole /\ called = "normalize" => Meaning(buf) = Meaning(path)

(* path_util.h: "Number of bytes written (excluding null), or required     *)
(* size if dst is too small".                                              *)
CountsAreRight == called = "join" /\ buf = Joined(path, second) => pathRc = Len(buf)
=============================================================================
