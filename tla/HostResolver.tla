---------------------------- MODULE HostResolver ----------------------------
(***************************************************************************)
(* Name resolution (host_resolver_impl.cpp, cares_context.cpp): a resolver *)
(* hands each query to the process-wide CaresContext, which keeps one      *)
(* c-ares channel per set of options; c-ares answers on its own event      *)
(* thread, and the answer is posted to the caller's runner unless the      *)
(* resolver is gone.  An answer is a sequence of address kinds.            *)
(***************************************************************************)
EXTENDS Integers, Sequences, SequencesExt

CONSTANTS Queries, Options, Answers

VARIABLES
  query,       \* query -> [st, opt, entry, list]
  channels,    \* options -> "none", "live", "destroyed"
  context,     \* CaresContext: "up", "down" (Shutdown ran)
  resolver,    \* HostResolver::Impl is alive (weak_self)
  runner,      \* target_runner accepts tasks
  answered,    \* history: query -> number of calls of its callback
  orphaned,    \* history: queries whose answer came after the resolver died
  unfreed,     \* history: results that were not given back to c-ares
  dangling     \* history: a channel was used after it was destroyed

resolveVars == <<query, channels, context, resolver, runner, answered, orphaned, unfreed, dangling>>

NoQuery == [st |-> "none", opt |-> 0, list |-> <<>>, raw |-> <<>>]

Init ==
  /\ query = [q \in Queries |-> NoQuery] /\ channels = [o \in Options |-> "none"]
  /\ context = "up" /\ resolver = TRUE /\ runner = TRUE
  /\ answered = [q \in Queries |-> 0] /\ orphaned = {} /\ unfreed = {} /\ dangling = FALSE

(* ConvertAresAddrInfo: addresses of an unknown family convert to the          *)
(* unspecified address, and those are left out.                                *)
Unspecified(kind) == kind \in {"any", "other"}
ConvertAresAddrInfo(raw) == SelectSeq(raw, LAMBDA k : ~Unspecified(k))

(* BindPostTask(target_runner, callback): lost when the runner takes no task.  *)
Deliver(q, list, raw) == [query[q] EXCEPT !.st = IF runner THEN "posted" ELSE "lost", !.list = list, !.raw = raw]

----------------------------------------------------------------------------
(* HostResolver::Resolve; an empty name is answered at once.                   *)
ResolveEmpty(q) ==
  /\ resolver /\ query[q].st = "none" /\ query' = [query EXCEPT ![q] = Deliver(q, <<>>, <<>>)]
  /\ UNCHANGED <<channels, context, resolver, runner, answered, orphaned, unfreed, dangling>>

(* CaresContext::Resolve: the channel, under lock_; ares_init_options may fail *)
(* and the error is posted through the runner.                                 *)
Resolve(q, o, made) ==
  /\ resolver /\ query[q].st = "none" /\ (made \/ channels[o] # "live")
  /\ channels' = [channels EXCEPT ![o] = IF made THEN "live" ELSE @]
  /\ query' = [query EXCEPT ![q] = [NoQuery EXCEPT !.opt = o, !.st = IF made THEN "found" ELSE IF runner THEN "refused" ELSE "lost"]]
  /\ UNCHANGED <<context, resolver, runner, answered, orphaned, unfreed, dangling>>

(* ares_getaddrinfo, after the unlock. *)
Ask(q) ==
  /\ query[q].st = "found" /\ query' = [query EXCEPT ![q].st = "asked"]
  /\ dangling' = (dangling \/ channels[query[q].opt] # "live")
  /\ UNCHANGED <<channels, context, resolver, runner, answered, orphaned, unfreed>>

(* OnAresCallback: dropped, its result not freed, when the resolver is gone. *)
Drops == ~resolver
OnAresCallback(q, raw) ==
  /\ query' = [query EXCEPT ![q] = IF Drops THEN [@ EXCEPT !.st = "lost"] ELSE Deliver(q, ConvertAresAddrInfo(raw), raw)]
  /\ unfreed' = IF Drops /\ raw # <<>> THEN unfreed \cup {q} ELSE unfreed
  /\ orphaned' = IF resolver THEN orphaned ELSE orphaned \cup {q}
  /\ UNCHANGED <<context, resolver, runner, answered, dangling>>
Answer(q, raw) == query[q].st = "asked" /\ channels[query[q].opt] = "live" /\ OnAresCallback(q, raw) /\ UNCHANGED channels
Refused(q) == query[q].st = "refused" /\ OnAresCallback(q, <<>>) /\ UNCHANGED channels

(* The posted callback runs on the runner. *)
RunCallback(q) ==
  /\ query[q].st = "posted" /\ query' = [query EXCEPT ![q].st = "answered"] /\ answered' = [answered EXCEPT ![q] = @ + 1]
  /\ UNCHANGED <<channels, context, resolver, runner, orphaned, unfreed, dangling>>

----------------------------------------------------------------------------
Destroy == resolver /\ resolver' = FALSE /\ UNCHANGED <<query, channels, context, runner, answered, orphaned, unfreed, dangling>>
RunnerStops ==
  /\ runner /\ runner' = FALSE
  /\ query' = [q \in Queries |-> IF query[q].st \in {"posted", "refused"} THEN [query[q] EXCEPT !.st = "lost"] ELSE query[q]]
  /\ UNCHANGED <<channels, context, resolver, answered, orphaned, unfreed, dangling>>

(* ~CaresContext at process exit: ares_destroy calls back every query that is  *)
(* on the channel with an error.                                               *)
Shutdown ==
  /\ context = "up" /\ context' = "down" /\ channels' = [o \in Options |-> IF channels[o] = "live" THEN "destroyed" ELSE channels[o]]
  /\ query' = [q \in Queries |-> IF query[q].st = "asked" THEN IF Drops THEN [query[q] EXCEPT !.st = "lost"] ELSE Deliver(q, <<>>, <<>>) ELSE query[q]]
  /\ orphaned' = IF resolver THEN orphaned ELSE orphaned \cup {q \in Queries : query[q].st = "asked"}
  /\ UNCHANGED <<resolver, runner, answered, unfreed, dangling>>

Next ==
  \/ Destroy \/ RunnerStops \/ Shutdown
  \/ \E q \in Queries :
       \/ ResolveEmpty(q) \/ Ask(q) \/ Refused(q) \/ RunCallback(q)
       \/ \E o \in Options, made \in BOOLEAN : Resolve(q, o, made)
       \/ \E raw \in Answers : Answer(q, raw)

Spec == Init /\ [][Next]_resolveVars

----------------------------------------------------------------------------
TypeOK ==
  /\ \A q \in Queries : query[q].st \in {"none", "found", "refused", "asked", "posted", "lost", "answered"}
  /\ channels \in [Options -> {"none", "live", "destroyed"}] /\ unfreed \subseteq Queries

(* However queries, answers, the end of the resolver, of the runner and of the *)
(* process cross: a callback runs once, with every usable address of its       *)
(* answer in order, never for an answer that came after the resolver died, and *)
(* a query is lost only when the resolver or the runner is gone.               *)
ResolvesOnce ==
  \A q \in Queries :
    /\ answered[q] <= 1 /\ (query[q].st = "lost" => ~resolver \/ ~runner)
    /\ (answered[q] > 0 => q \notin orphaned)
    /\ (query[q].st = "answered" => query[q].list = SelectSeq(query[q].raw, LAMBDA k : k \in {"v4", "v6"}))

(* Violated: "The ChannelEntry is owned by channels_ and is only destroyed by  *)
(* Shutdown() (which joins all in-flight queries first), so the raw pointer    *)
(* remains valid for the duration of the ares_getaddrinfo call".               *)
EntryIsAlive == ~dangling

(* Violated: a result that arrives after the resolver is gone is not freed.    *)
ResultsAreFreed == unfreed = {}
=============================================================================
