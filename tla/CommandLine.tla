----------------------------- MODULE CommandLine -----------------------------
(***************************************************************************)
(* Command lines (command_line.cpp): the three views of one argv - raw     *)
(* tokens, switch map, positional arguments - kept in step by hand while   *)
(* switches, arguments, wrappers and other command lines are added; the    *)
(* cached full argv; the quoted string; and the process-wide instance that *)
(* any thread reads without a lock.  A token is what its spelling is made  *)
(* of: a prefix, a name (with what follows a colon no separator claims), a *)
(* separator and a value.  A letter of a name is upper or lower case.      *)
(***************************************************************************)
EXTENDS Integers, Sequences, SequencesExt, FiniteSets, FiniteSetsExt

CONSTANTS Builds, Argvs, Sources, Arguments, Words, MaxOps, Threads

VARIABLES
  built,     \* "posix" or "win"
  cl,        \* Impl: [wrapper_argv, argv, switches, args, full, dirty]
  ops,       \* calls made
  tame,      \* history: argv[0] is the program and arguments look like arguments
  printed,   \* a printed command line and the words it stands for
  global,    \* [current, cached, born]: the instance, its cache, instances made
  user,      \* threads: their step in Init or ForCurrentProcess, the reference they hold
  again      \* history: Init replaced an instance

commandVars == <<built, cl, ops, tame, printed, global, user, again>>

Token(prefix, name, sep, value) == [prefix |-> prefix, name |-> name, sep |-> sep, value |-> value]
Dashes == Token("--", <<>>, "", "")

ToLowerASCII(name) == [i \in DOMAIN name |-> IF name[i] = "A" THEN "a" ELSE name[i]]

----------------------------------------------------------------------------
(* FindSwitchValueSeparator: a colon separates only on Windows, after a slash. *)
FindSwitchValueSeparator(t) == t.sep = "=" \/ (t.sep = ":" /\ built = "win" /\ t.prefix = "/")
IsSwitchToken(t) == t.prefix \in {"-", "--"} \cup (IF built = "win" THEN {"/"} ELSE {})

NormalizeSwitchName(t) ==
  ToLowerASCII(IF FindSwitchValueSeparator(t) \/ t.sep = "" THEN t.name ELSE t.name \o <<t.sep, t.value>>)

ParseSwitchToken(t) == IsSwitchToken(t) /\ NormalizeSwitchName(t) # <<>>
SwitchValue(t) == IF FindSwitchValueSeparator(t) THEN t.value ELSE ""

(* ParseFromUTF16Argv: later switches win, "--" ends them. *)
Ends(argv) == {i \in 2..Len(argv) : argv[i] = Dashes}
SwitchAt(argv) == {i \in 2..Len(argv) : ParseSwitchToken(argv[i]) /\ \A j \in Ends(argv) : i < j}
Switches(argv) ==
  LET names == {NormalizeSwitchName(argv[i]) : i \in SwitchAt(argv)}
      last(n) == Max({i \in SwitchAt(argv) : NormalizeSwitchName(argv[i]) = n})
  IN [n \in names |-> SwitchValue(argv[last(n)])]
Args(argv) ==
  LET first == IF Ends(argv) = {} THEN 0 ELSE Min(Ends(argv))
      at == SelectSeq([i \in 1..Len(argv) |-> i], LAMBDA i : i > 1 /\ i # first /\ i \notin SwitchAt(argv))
  IN [k \in DOMAIN at |-> argv[at[k]]]

ParseFromArgv(wrapper, argv) ==
  [wrapper_argv |-> wrapper, argv |-> argv, switches |-> Switches(argv), args |-> Args(argv), full |-> <<>>, dirty |-> TRUE]

Init ==
  /\ built \in Builds /\ (\E a \in Argvs : cl = ParseFromArgv(<<>>, a) /\ tame = (a # <<>>))
  /\ ops = 0 /\ printed = [words |-> <<>>, text |-> <<>>]
  /\ global = [current |-> 0, cached |-> 0, born |-> 0] /\ again = FALSE
  /\ user = [t \in Threads |-> [at |-> "idle", ref |-> 0, made |-> 0]]

Calls == ops < MaxOps /\ ops' = ops + 1 /\ UNCHANGED <<built, printed, global, user, again>>

----------------------------------------------------------------------------
(* AppendSwitchToken: the switch's other tokens go - but not what follows      *)
(* "--" - and one token is put before the first that is not a switch.          *)
RemoveSwitchTokens(argv, n) ==
  LET mine == {i \in SwitchAt(argv) : NormalizeSwitchName(argv[i]) = n}
      kept == SelectSeq([i \in 1..Len(argv) |-> i], LAMBDA i : i \notin mine)
  IN [k \in DOMAIN kept |-> argv[kept[k]]]

FindSwitchInsertionIndex(argv) ==
  IF argv = <<>> THEN 1 ELSE Min({i \in 2..Len(argv) : ~ParseSwitchToken(argv[i])} \cup {Len(argv) + 1})

AppendSwitchToken(c, n, v, preserve) ==
  IF preserve /\ n \in DOMAIN c.switches THEN c
  ELSE LET left == RemoveSwitchTokens(c.argv, n)
           token == Token("--", n, IF v = "" THEN "" ELSE "=", v)
       IN [c EXCEPT !.switches = [m \in DOMAIN @ \cup {n} |-> IF m = n THEN v ELSE @[m]],
                    !.argv = InsertAt(left, FindSwitchInsertionIndex(left), token)]

(* MarkFullArgvDirty. *)
MarkFullArgvDirty(c) == [c EXCEPT !.dirty = TRUE]

AppendSwitch(n, v, preserve) ==
  /\ Calls /\ cl' = MarkFullArgvDirty(AppendSwitchToken(cl, ToLowerASCII(n), v, preserve))
  /\ tame' = (tame /\ cl.argv # <<>>)

(* CopySwitchesFrom, switch by switch in one fixed order; an empty list allows *)
(* every switch.                                                               *)
Copied(source, allow, deny, filter) ==
  {n \in DOMAIN Switches(source) : /\ (allow # {} => n \in allow) /\ n \notin deny
                                   /\ (filter = "with" => Switches(source)[n] # "") /\ (filter = "without" => Switches(source)[n] = "")}
CopySwitchesFrom(source, allow, deny, filter, preserve) ==
  /\ Calls /\ tame' = (tame /\ cl.argv # <<>>)
  /\ LET Copy(n, c) == AppendSwitchToken(c, n, Switches(source)[n], preserve)
     IN cl' = MarkFullArgvDirty(FoldLeft(LAMBDA c, n : Copy(n, c), cl, SetToSeq(Copied(source, allow, deny, filter))))

PrependWrapper(source) ==
  /\ Calls /\ source # <<>> /\ cl' = MarkFullArgvDirty([cl EXCEPT !.wrapper_argv = source \o @]) /\ UNCHANGED tame

AppendArg(t) ==
  /\ Calls /\ cl' = MarkFullArgvDirty([cl EXCEPT !.args = Append(@, t), !.argv = Append(@, t)])
  /\ tame' = (tame /\ cl.argv # <<>> /\ ~ParseSwitchToken(t) /\ t # Dashes)

(* AppendArguments parses everything again. *)
AppendArguments(source, include_program) ==
  /\ Calls /\ tame' = (cl.argv # <<>> /\ tame)
  /\ cl' = ParseFromArgv(cl.wrapper_argv, cl.argv \o (IF include_program \/ source = <<>> THEN source ELSE Tail(source)))

(* GetFullArgv, GetCachedFullArgv. *)
GetFullArgv ==
  /\ cl.dirty /\ cl' = [cl EXCEPT !.full = cl.wrapper_argv \o cl.argv, !.dirty = FALSE]
  /\ UNCHANGED <<built, ops, tame, printed, global, user, again>>

----------------------------------------------------------------------------
(* QuoteForCommandLine: backslashes double before a quote and at the end of    *)
(* a quoted word.                                                              *)
Backslashes(n) == [i \in 1..n |-> "\\"]
ClosesQuoted(n) == Backslashes(2 * n)

QuoteForCommandLine(word) ==
  LET Step(s, ch) ==
        IF ch = "\\" THEN [s EXCEPT !.slashes = @ + 1]
        ELSE [out |-> s.out \o Backslashes(IF ch = "q" THEN 2 * s.slashes + 1 ELSE s.slashes) \o <<ch>>, slashes |-> 0]
      end == FoldLeft(Step, [out |-> <<"q">>, slashes |-> 0], word)
  IN IF word = <<>> THEN <<"q", "q">>
     ELSE IF ToSet(word) \cap {" ", "q"} = {} THEN word
     ELSE end.out \o ClosesQuoted(end.slashes) \o <<"q">>

(* GetCommandLineString, of the words after the program. *)
GetCommandLineString(words) ==
  /\ printed' = [words |-> words, text |-> FoldLeft(LAMBDA s, w : s \o <<" ">> \o QuoteForCommandLine(w), <<>>, words)]
  /\ UNCHANGED <<built, cl, ops, tame, global, user, again>>

(* How the child's run time (CommandLineToArgvW) takes a string apart. *)
CommandLineToArgvW(text) ==
  LET Put(s, chars) == [s EXCEPT !.word = @ \o chars, !.slashes = 0, !.open = TRUE]
      Step(s, ch) ==
        CASE ch = "\\" -> [s EXCEPT !.slashes = @ + 1, !.open = TRUE]
          [] ch = "q" /\ s.slashes % 2 = 1 -> Put(s, Backslashes(s.slashes \div 2) \o <<"q">>)
          [] ch = "q" /\ s.slashes % 2 = 0 -> [Put(s, Backslashes(s.slashes \div 2)) EXCEPT !.quoted = ~@]
          [] ch = " " /\ ~s.quoted -> LET t == Put(s, Backslashes(s.slashes))
                                      IN [t EXCEPT !.words = IF s.open THEN Append(@, t.word) ELSE @, !.word = <<>>, !.open = FALSE]
          [] OTHER -> Put(s, Backslashes(s.slashes) \o <<ch>>)
      end == FoldLeft(Step, [words |-> <<>>, word |-> <<>>, slashes |-> 0, quoted |-> FALSE, open |-> FALSE], text)
  IN IF end.open THEN Append(end.words, end.word \o Backslashes(end.slashes)) ELSE end.words

----------------------------------------------------------------------------
(* The process's instance.  Publishing destroys the old one, then stores the   *)
(* pointer that the others read without the lock.                              *)
Unlocked == \A t \in Threads : user[t].at \in {"idle", "wait", "has"}
Goes(t, at, ref, made) == user' = [user EXCEPT ![t] = [at |-> at, ref |-> ref, made |-> made]]

ForCurrentProcess(t) ==
  /\ user[t].at = "idle" /\ IF global.cached # 0 THEN Goes(t, "has", global.cached, 0) ELSE Goes(t, "wait", 0, 0)
  /\ UNCHANGED <<built, cl, ops, tame, printed, global, again>>

(* The check under the lock. *)
Creates == global.current = 0

Locked(t) ==
  /\ user[t].at = "wait" /\ Unlocked
  /\ global' = IF Creates THEN [global EXCEPT !.current = global.born + 1, !.born = @ + 1] ELSE global
  /\ Goes(t, "store", 0, 0) /\ UNCHANGED <<built, cl, ops, tame, printed, again>>

InitCurrent(t) ==
  /\ user[t].at = "idle" /\ Unlocked /\ global.born < 3
  /\ global' = [global EXCEPT !.current = global.born + 1, !.born = @ + 1] /\ again' = (again \/ global.current # 0)
  /\ Goes(t, "publish", 0, 0) /\ UNCHANGED <<built, cl, ops, tame, printed>>

Publish(t) ==
  /\ user[t].at \in {"store", "publish"} /\ global' = [global EXCEPT !.cached = global.current]
  /\ IF user[t].at = "store" THEN Goes(t, "has", global.current, 0) ELSE Goes(t, "idle", 0, 0)
  /\ UNCHANGED <<built, cl, ops, tame, printed, again>>

Names == {<<"a">>, <<"A">>}

(* The object, the printed string and the process's instance share no state:   *)
(* each has its steps.                                                         *)
NextObject ==
  \/ \E n \in Names, v \in {"", "1"}, p \in BOOLEAN : AppendSwitch(n, v, p)
  \/ \E s \in Sources : \/ PrependWrapper(s) \/ \E b \in BOOLEAN : AppendArguments(s, b)
                        \/ \E a, d \in {{}, {<<"a">>}}, f \in {"all", "with", "without"}, p \in BOOLEAN : CopySwitchesFrom(s, a, d, f, p)
  \/ \E t \in Arguments : AppendArg(t)
  \/ GetFullArgv
NextPrint == printed.words = <<>> /\ \E words \in Words : GetCommandLineString(words)
NextCurrent == \E t \in Threads : ForCurrentProcess(t) \/ Locked(t) \/ InitCurrent(t) \/ Publish(t)
Next == NextObject \/ NextPrint \/ NextCurrent

Spec == Init /\ [][Next]_commandVars

----------------------------------------------------------------------------
TypeOK == cl.dirty \in BOOLEAN /\ ops \in 0..MaxOps /\ \A t \in Threads : user[t].ref \in 0..global.born

(* The three views agree: what a child that is given the raw argv parses out   *)
(* of it is the switch map and the arguments that this object reports, and the *)
(* cached full argv, when it is taken, is the wrapper and the raw argv.        *)
ViewsAgree ==
  /\ tame => cl.switches = Switches(cl.argv) /\ cl.args = Args(cl.argv)
  /\ ~cl.dirty => cl.full = cl.wrapper_argv \o cl.argv

(* A printed command line, taken apart by the rules of the platform's own      *)
(* parser, gives back the arguments, quotes and trailing backslashes included. *)
PrintsItself == printed.words # <<>> => CommandLineToArgvW(printed.text) = printed.words

(* Everybody who asked for the process's command line got the same living one, *)
(* however their first calls interleaved with each other and with one Init.    *)
OneCurrent == ~again => \A t \in Threads : user[t].at = "has" => user[t].ref = global.current

(* Violated: "Appends positional argument": a value that begins with a dash is *)
(* a switch of the child.                                                      *)
ArgsArePositional == cl.argv # <<>> => cl.args = Args(cl.argv)

(* Violated: a second Init destroys the instance others hold, and between the  *)
(* destruction and the store others are still given it.                        *)
RefsLive == \A t \in Threads : user[t].at = "has" => user[t].ref = global.current
=============================================================================
