------------------------------- MODULE MCHost --------------------------------
(***************************************************************************)
(* The host services for model checking: what the log writes, conversions, *)
(* memory, callbacks and threads.  One behaviour is about one of them; they*)
(* share the variables s1 to s11.                                          *)
(***************************************************************************)
EXTENDS Integers, Sequences

CONSTANT Parts         \* the parts this instance checks

(* The part a behaviour is about, and room for the variables of any one part. *)
VARIABLES part, s1, s2, s3, s4, s5, s6, s7, s8, s9, s10, s11

vars == <<part, s1, s2, s3, s4, s5, s6, s7, s8, s9, s10, s11>>

Pair == {1, 2}
Three == {1, 2, 3}
Builds == {"posix", "win"}
ShmBackends == {"memfd", "shm", "section"}

(* Log calls: a call site, its format and arguments.  A directive is a record; *)
(* together they use every conversion, both stars, and a caught precision.     *)
Directive(c) == [c |-> c, len |-> "", w |-> FALSE, p |-> FALSE]
Letter == Directive("text")
LogCalls == {
  [addr |-> "a", fmt |-> <<Letter, Letter>>, args |-> <<>>],
  [addr |-> "b", fmt |-> <<Directive("d"), Directive("pct"), Directive("s")>>, args |-> <<5, 3>>],
  [addr |-> "c", fmt |-> <<[Directive("s") EXCEPT !.w = TRUE, !.p = TRUE], Letter, Directive("f")>>,
   args |-> <<3, 1, 2, 5>>],
  [addr |-> "d", fmt |-> <<[Directive("s") EXCEPT !.p = TRUE], [Directive("d") EXCEPT !.len = "h"]>>,
   args |-> <<-1, 2, 3>>],
  [addr |-> "d", fmt |-> <<[Directive("d") EXCEPT !.len = "h"], Directive("x")>>, args |-> <<5, 1>>],
  [addr |-> "f", fmt |-> <<[Directive("u") EXCEPT !.len = "l"], Directive("c"), Directive("p"), Directive("u")>>,
   args |-> <<5, 1, 1, 1>>],
  [addr |-> "f", fmt |-> <<Directive("s"), Directive("n")>>, args |-> <<5, 1>>],
  [addr |-> "a", fmt |-> <<Directive("s"), Directive("s"), Letter>>, args |-> <<7, 6>>],
  [addr |-> "h", fmt |-> <<Letter, Directive("d"), Directive("d"), Directive("m"), Directive("d"), Directive("d")>>,
   args |-> <<1, 2, 3, 4>>],
  [addr |-> "literal", fmt |-> <<>>, args |-> <<9>>] }
LogStyles == {"default", "rfc"}
LogSeconds == {0, 1}
SinkOption(max, backups, interval, batch) ==
  [max |-> max, backups |-> backups, interval |-> interval, batch |-> batch]
SinkOptions == {SinkOption(3, 2, 3, 2), SinkOption(0, 0, 3, 2), SinkOption(4, 2, 1, 0), SinkOption(3, 3, 1, 3)}
LineSizes == {1, 3}

(* Command lines: repeated switches, all prefixes, and switches after "--". *)
Tok(prefix, name, sep, value) == [prefix |-> prefix, name |-> name, sep |-> sep, value |-> value]
Word(w) == Tok("", <<w>>, "", "")
Stop == Tok("--", <<>>, "", "")
Argvs == {<<>>, <<Word("prog")>>,
          <<Word("prog"), Tok("--", <<"a">>, "=", "2"), Tok("-", <<"A">>, "", ""), Word("x"),
            Tok("/", <<"b">>, ":", "3"), Stop, Tok("--", <<"a">>, "", "")>>}
Sources == {<<Word("wrap"), Tok("--", <<"A">>, "=", "3"), Tok("--", <<"b">>, "", ""), Word("y")>>,
            <<Word("p"), Tok("-", <<"b">>, ":", "3"), Stop, Word("z")>>}
Arguments == {Word("w"), Tok("--", <<"c">>, "", "")}
Quotables == UNION {[1..n -> {"w", "\\", "q", " "}] : n \in 0..3}
PrintedWords == {<<u>> : u \in Quotables} \cup {<<u, v>> : u, v \in {w \in Quotables : Len(w) < 3}}

RunnerModes == {"sequenced", "parallel"}
TwoWorkers == {"w1", "w2"}
SequenceTokens == {0, 7, 8}
SlotOwner == <<1, 2>>

Reading(commit, phys, cache, kernel) == [commit |-> commit, phys |-> phys, cache |-> cache, kernel |-> kernel]
Readings == {Reading(50, 80, 20, 0), Reading(75, 90, 0, 1), Reading(80, 92, 3, 1), Reading(90, 95, 0, 2),
             Reading(60, 97, 20, 2)}
Platforms == {"win", "mac", "linux", "other"}

ShortBytes == {<<>>, <<1>>, <<1, 0>>, <<1, 1, 1>>, <<0, 1, 1, 1>>, <<1, 0, 0, 1, 1>>}
Number(kind, values) == [k : {kind}, n : values, b : {<<>>}]
Items == Number("u32", {0, 9, 15}) \cup Number("i32", {-8, -1, 7}) \cup Number("u64", {0, 77, 255})
         \cup Number("i64", {-128, 3}) \cup [k : {"opaque", "bytes", "string", "skip"}, n : {0}, b : ShortBytes]
Plans == {<<a, b>> : a \in Items, b \in Items}
ForeignBytes == UNION {[1..n -> 0..1] : n \in {3, 4, 8, 9}}
BufferSizes == {11, 12, 40}
StringRooms == {1, 3, 5}

PathTexts == UNION {[1..n -> {"a", ".", "/"}] : n \in 0..6}
             \cup {<<"c", ":">> \o s : s \in UNION {[1..n -> {"a", ".", "\\"}] : n \in 0..4}}
SecondPaths == {<<>>, <<"a">>, <<"/", "a">>, <<".", ".">>}
PathRooms == {3, 9}

Http(s) == <<"http", ":", "/", "/">> \o s
UrlBases == {Http(<<"a", "/", "b", "/", "c">>), Http(<<"A", ":", "8", "/", "b", "?", "q">>),
             Http(<<"u", ":", "p", "@", "a", ":", "80", "/">>), Http(<<"a">>)}
Authorities == {<<"A">>, <<"A", ":", "8">>, <<"u", ":", "p", "@", "A">>, <<"u", "@", "A", ":", "80">>,
                <<"[", "A", "]", ":", "8">>}
Tails == {<<>>} \cup {<<d>> \o t : d \in {"/", "?", "#"},
                                   t \in UNION {[1..n -> {"b", ":", "/", "?", "#", "@"}] : n \in 0..2}}
UrlTexts == {Http(a \o r) : a \in Authorities, r \in Tails} \cup {<<"http", ":", "b", "@", "a">>, <<"b">>}
UrlReferences == UNION {[1..n -> {"b", "..", ".", "/"}] : n \in 0..5}
                 \cup {<<"?", "q">>, <<"#", "f">>, <<"?", "q", "#", "f">>, <<"b", "?", "q">>, Http(<<"b", "/">>)}

-----------------------------------------------------------------------------
Mem == INSTANCE Memory WITH
    Threads <- Pair, Chunks <- Pair, BatchSize <- 2, ThreadCacheCap <- 2, AllocBatch <- 2,
    MaxPartitions <- 2, MaxDecommitted <- 1, MaxOps <- 6, Backends <- ShmBackends,
    Slots <- Three, Descriptors <- Pair, Builds <- Platforms, Memory <- Readings,
    Pollers <- {1}, Listeners <- Pair, parts <- s1, created <- s2, chunk <- s3, cache <- s4,
    allocs <- s5, out <- s6, at <- s7, exited <- s8, done <- s9, backend <- s1, object <- s2,
    fds <- s3, slot <- s4, maps <- s5, reclosed <- s6, system <- s1, memory <- s2,
    current_level <- s3, listeners <- s4, poll <- s5, told <- s6, returned <- s7, late <- s8
Output == INSTANCE LogOutput WITH
    Calls <- LogCalls, Slots <- 2, PlanOps <- 3, FmtCopy <- 10, StrCopy <- 8, EventCap <- 18,
    LineCap <- 13, TmpCap <- 8, Narrow <- 4, Styles <- LogStyles, Seconds <- LogSeconds,
    Options <- SinkOptions, Sizes <- LineSizes, MaxLines <- 4, MaxFaults <- 2, Threads <- Pair,
    Instants <- {"B"}, MaxEvents <- 1, MaxClock <- 1, MaxFlushes <- 2, records <- s1,
    place <- s2, planCache <- s3, metaCache <- s4, tsCache <- s5, line <- s6, opt <- s1,
    sink <- s2, batch <- s3, files <- s4, logged <- s5, faults <- s6, lost <- s7, fatal <- s8,
    enabled <- s1, clock <- s2, thread <- s3, thread_buffers <- s4, events <- s5, walk <- s6,
    output <- s7, added <- s8, cleared <- s9, left <- s10
Core == INSTANCE NeiCore WITH
    Threads <- Pair, Tags <- 2, Numbers <- 2, Stamps <- 4, Epoch <- 1, MaxClock <- 4,
    MaxIds <- 3, Plans <- Plans, Foreign <- ForeignBytes, Sizes <- BufferSizes,
    Capacities <- StringRooms, SizeT <- 256, Paths <- PathTexts, Seconds <- SecondPaths,
    PathSizes <- PathRooms, clock <- s1, tags <- s2, tls <- s3, ids <- s4, plan <- s1,
    writer <- s2, reader <- s3, out_capacity <- s4, pc <- s5, wrote <- s6, got <- s7, rc <- s8,
    overrun <- s9, path <- s1, second <- s2, called <- s3, buf <- s4, pathSize <- s5,
    pathRc <- s6
Command == INSTANCE CommandLine WITH
    Builds <- Builds, Argvs <- Argvs, Sources <- Sources, Arguments <- Arguments,
    Words <- PrintedWords, MaxOps <- 3, Threads <- Pair, built <- s1, cl <- s2, ops <- s3,
    tame <- s4, printed <- s5, global <- s6, user <- s7, again <- s8
Address == INSTANCE Url WITH
    Texts <- UrlTexts, Bases <- UrlBases, References <- UrlReferences, url <- s1, step <- s2
Runner == INSTANCE TaskRunner WITH
    Callbacks <- Pair, Modes <- RunnerModes, Workers <- TwoWorkers, MaxRuns <- 1,
    CallbackThreads <- Pair, Slots <- Pair, Owner <- SlotOwner, MaxStates <- 3, MaxFlags <- 1,
    CallbackMaxRuns <- 1, ThreadIds <- Pair, Tokens <- SequenceTokens, MaxDetaches <- 2,
    MaxChecks <- 4, runs <- s1, up <- s2, rqueue <- s3, later <- s4, working <- s5,
    flavour <- s6, fate <- s7, again <- s8, posted <- s9, replied <- s10, heap <- s1,
    slots <- s2, factory <- s3, flags <- s4, running <- s5, calls <- s6, late <- s7,
    sequence_state <- s1, thread_id <- s2, call <- s3, detaches <- s4, checks <- s5,
    accepted <- s6
Thread == INSTANCE Threads WITH
    Callers <- Pair, Owners <- {1}, MaxStarts <- 2, MaxTasks <- 3, Threads <- Pair,
    Workers <- {2}, SlotOwners <- Pair, LongLived <- {2}, MaxSlots <- 2, Rounds <- 2,
    ExitThreads <- Pair, MaxCallbacks <- 3, object <- s1, os <- s2, call <- s3, signalled <- s4,
    created <- s5, posted <- s6, ran <- s7, slot_states <- s1, slot_destructors <- s2,
    index <- s3, slotCall <- s4, values <- s5, exit <- s6, made <- s7, freedBy <- s8,
    seen <- s9, destroyed <- s10, manager <- s1, stack <- s2, local <- s3, closing <- s4,
    instance <- s5, getting <- s6, exitMade <- s7, drained <- s8, exitRan <- s9, got <- s10,
    processed <- s11

(* The room a part with k variables leaves is empty and stays so. *)
Empty11 == s11 = 0
Empty10 == s10 = 0 /\ Empty11
Empty9 == s9 = 0 /\ Empty10
Empty8 == s8 = 0 /\ Empty9
Empty7 == s7 = 0 /\ Empty8
Empty6 == s6 = 0 /\ Empty7
Empty5 == s5 = 0 /\ Empty6
Empty4 == s4 = 0 /\ Empty5
Empty3 == s3 = 0 /\ Empty4
After2 == <<s3, s4, s5, s6, s7, s8, s9, s10, s11>>
After4 == <<s5, s6, s7, s8, s9, s10, s11>>
After6 == <<s7, s8, s9, s10, s11>>
After7 == <<s8, s9, s10, s11>>
After8 == <<s9, s10, s11>>
After9 == <<s10, s11>>
After10 == <<s11>>

Init ==
  /\ part \in Parts
  /\ \/ part = "pressure" /\ Mem!MonitorInit /\ Empty9
     \/ part = "record" /\ Output!Init /\ Empty7
     \/ part = "sink" /\ Output!SinkInit /\ Empty9
     \/ part = "trace" /\ Output!TraceInit /\ Empty11
     \/ part = "flake" /\ Core!Init /\ Empty5
     \/ part \in {"command_object", "command_print", "command_current"} /\ Command!Init /\ Empty9
     \/ part = "path" /\ Core!PathInit /\ Empty7
     \/ part = "url" /\ Address!Init /\ Empty3
     \/ part = "xdr" /\ Core!XdrInit /\ Empty10
     \/ part = "shared_memory" /\ Mem!ShmInit /\ Empty7
     \/ part = "allocator" /\ Mem!Init /\ Empty10
     \/ part = "callbacks" /\ Runner!CallbackInit /\ Empty8
     \/ part = "slots" /\ Thread!SlotInit /\ Empty11
     \/ part = "runner" /\ Runner!Init /\ Empty11
     \/ part = "checker" /\ Runner!CheckerInit /\ Empty7
     \/ part = "at_exit" /\ Thread!ExitInit
     \/ part = "thread" /\ Thread!Init /\ Empty8

Next ==
  /\ UNCHANGED part
  /\ \/ part = "pressure" /\ Mem!MonitorNext /\ UNCHANGED After8
     \/ part = "record" /\ Output!Next /\ UNCHANGED After6
     \/ part = "sink" /\ Output!SinkNext /\ UNCHANGED After8
     \/ part = "trace" /\ Output!TraceNext /\ UNCHANGED After10
     \/ part = "flake" /\ Core!Next /\ UNCHANGED After4
     \/ part = "command_object" /\ Command!NextObject /\ UNCHANGED After8
     \/ part = "command_print" /\ Command!NextPrint /\ UNCHANGED After8
     \/ part = "command_current" /\ Command!NextCurrent /\ UNCHANGED After8
     \/ part = "path" /\ Core!PathNext /\ UNCHANGED After6
     \/ part = "url" /\ Address!Next /\ UNCHANGED After2
     \/ part = "xdr" /\ Core!XdrNext /\ UNCHANGED After9
     \/ part = "shared_memory" /\ Mem!ShmNext /\ UNCHANGED After6
     \/ part = "allocator" /\ Mem!Next /\ UNCHANGED After9
     \/ part = "callbacks" /\ Runner!CallbackNext /\ UNCHANGED After7
     \/ part = "slots" /\ Thread!SlotNext /\ UNCHANGED After10
     \/ part = "runner" /\ Runner!Next /\ UNCHANGED After10
     \/ part = "checker" /\ Runner!CheckerNext /\ UNCHANGED After6
     \/ part = "at_exit" /\ Thread!ExitNext
     \/ part = "thread" /\ Thread!Next /\ UNCHANGED After7

Spec == Init /\ [][Next]_vars

-----------------------------------------------------------------------------
(***************************************************************************)
(* Every variable of every part has its type.                              *)
(***************************************************************************)
TypesOK ==
  /\ part = "pressure" => Mem!MonitorTypeOK
  /\ part = "record" => Output!TypeOK
  /\ part = "sink" => Output!SinkTypeOK
  /\ part = "trace" => Output!TraceTypeOK
  /\ part = "flake" => Core!TypeOK
  /\ part = "command_object" => Command!TypeOK
  /\ part = "path" => Core!PathTypeOK
  /\ part = "url" => Address!TypeOK
  /\ part = "xdr" => Core!XdrTypeOK
  /\ part = "shared_memory" => Mem!ShmTypeOK
  /\ part = "allocator" => Mem!TypeOK
  /\ part = "callbacks" => Runner!CallbackTypeOK
  /\ part = "slots" => Thread!SlotTypeOK
  /\ part = "runner" => Runner!TypeOK
  /\ part = "checker" => Runner!CheckerTypeOK
  /\ part = "at_exit" => Thread!ExitTypeOK
  /\ part = "thread" => Thread!TypeOK

(***************************************************************************)
(* What is written is what is read back: a log record renders as printf    *)
(* would, the rotated files are the log, a trace is flushed once, ids are  *)
(* unique, a printed command line, an encoded record, a url and a path mean*)
(* what they meant.                                                        *)
(***************************************************************************)
WrittenIsRead ==
  /\ part = "record" => Output!RendersAsPrintf
  /\ part = "sink" => Output!FilesAreTheLog /\ Output!FilesAreBounded
  /\ part = "trace" => Output!FlushedOnce
  /\ part = "flake" => Core!IdsAreUnique
  /\ part = "command_object" => Command!ViewsAgree
  /\ part = "command_print" => Command!PrintsItself
  /\ part = "path" => Core!PathsKeepMeaning
  /\ part = "url" => Address!ParsesAsRfc /\ Address!ResolvesAsRfc
  /\ part = "xdr" => Core!ReadsWhatWasWritten

(***************************************************************************)
(* Memory has one owner: a region's handle, a chunk of the allocator, the  *)
(* bound state of a callback, a thread-local slot and the process's command*)
(* line are each in one place, and stay while they are used.               *)
(***************************************************************************)
OwnedOnce ==
  /\ part = "shared_memory" => Mem!OneOwner /\ Mem!ReadOnlyStays
  /\ part = "allocator" => Mem!OnePlace /\ Mem!OwnPartition
  /\ part = "callbacks" => Runner!HeldWhileUsed
  /\ part = "slots" => Thread!SlotsAreSeparate
  /\ part = "command_current" => Command!OneCurrent

(***************************************************************************)
(* Callbacks run, and die, on the sequence they belong to and in order;    *)
(* a sequence checker accepts one sequence; exit callbacks run once, the last*)
(* first; a thread that is stopped has run what it was given; and the      *)
(* listeners of memory pressure have been told the level the monitor holds.*)
(***************************************************************************)
RunsAtHome ==
  /\ part = "runner" => Runner!DiesAtHome /\ Runner!OnTheWay /\ Runner!RepliesInOrder
  /\ part = "checker" => Runner!OneSequence
  /\ part = "at_exit" => Thread!ExitInOrder
  /\ part = "thread" => Thread!StopsCleanly
  /\ part = "pressure" => Mem!ToldTheLevel
=============================================================================
