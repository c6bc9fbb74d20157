--------------------------------- MODULE Url ---------------------------------
(***************************************************************************)
(* URLs (url.cpp): parsing into offsets, the origin, and the resolution of *)
(* relative references, against the grammar and the algorithm of RFC 3986. *)
(* A text is a sequence of tokens: the delimiters, and words that stand    *)
(* for runs of characters that are no delimiter ("A" is a host in capital  *)
(* letters, "8" a port that differs from the default, "80" the default).   *)
(* Offsets count tokens; a component is <<begin, end>>, as in Impl.        *)
(***************************************************************************)
EXTENDS Integers, Sequences, SequencesExt, FiniteSets, FiniteSetsExt

CONSTANTS Texts, Bases, References

VARIABLES
  url,       \* the URL at hand
  step       \* what was done: parsed a text, resolved a reference; its arguments

urlVars == <<url, step>>

npos == 1000
Find(s, chars, from) == Min({i \in from..Len(s) - 1 : s[i + 1] \in chars} \cup {npos})
Slice(s, c) == IF c[1] < c[2] THEN SubSeq(s, c[1] + 1, c[2]) ELSE <<>>

Delimiters == {":", "/", "?", "#", "@", "[", "]"}
SchemeEnd(s) == Min({Find(s, Delimiters, 0), Len(s)})
EatHost(s, pos) == Min({Find(s, {":", "/", "?", "#"}, pos), Len(s)})
EatIPv6Literal(s, pos) == IF Find(s, {"]"}, pos) = npos THEN npos ELSE Find(s, {"]"}, pos) + 1
DefaultPortForScheme(scheme) == IF scheme = <<"http">> THEN "80" ELSE "0"

Nothing == <<0, 0>>
Blank == [scheme |-> Nothing, user |-> Nothing, pass |-> Nothing, host |-> Nothing, port |-> "0", explicit |-> FALSE,
          path |-> Nothing, query |-> Nothing, frag |-> Nothing, valid |-> FALSE, spec |-> <<>>]

----------------------------------------------------------------------------
(* The authority: user and password, host, port.  pos is where the rest begins. *)
Port(s, u, pos, portEnd, port) ==
  [pos |-> portEnd, url |-> [u EXCEPT !.port = IF port \in {<<"8">>, <<"80">>} THEN port[1] ELSE "0", !.explicit = port \in {<<"8">>, <<"80">>}]]
Host(s, u, pos, hostEnd, end) ==
  LET v == [u EXCEPT !.host = IF pos < hostEnd THEN <<pos, hostEnd>> ELSE Nothing,
                     !.spec = [i \in DOMAIN s |-> IF i \in pos + 1..hostEnd /\ s[i] = "A" THEN "a" ELSE s[i]]]
  IN IF hostEnd < end /\ s[hostEnd + 1] = ":"
     THEN Port(s, v, pos, EatHost(s, hostEnd + 1), Slice(s, <<hostEnd + 1, EatHost(s, hostEnd + 1)>>)) ELSE [pos |-> hostEnd, url |-> v]
HostEnd(s, pos, end) ==
  IF pos < end /\ s[pos + 1] = "[" THEN (IF EatIPv6Literal(s, pos) = npos THEN pos ELSE EatIPv6Literal(s, pos)) ELSE EatHost(s, pos)
HostAt(s, u, pos, end) == Host(s, u, pos, HostEnd(s, pos, end), end)
UserInfo(s, u, start, end, at, colon) ==
  IF at >= end THEN HostAt(s, u, start, end)
  ELSE HostAt(s, [u EXCEPT !.user = <<start, Min({colon, at})>>, !.pass = IF colon < at THEN <<colon + 1, at>> ELSE Nothing], at + 1, end)
Authority(s, u, start) ==
  UserInfo(s, u, start, Min({Find(s, {"/", "?", "#"}, start), Len(s)}), Find(s, {"@"}, start), Find(s, {":"}, start))

(* Path, query and fragment from pos on; a URL that ends before its path       *)
(* keeps the offsets 0.                                                        *)
FragmentFrom(path, query) == IF query[1] > 0 THEN query[1] ELSE path[1]

Fragment(s, u, path, query, f) ==
  [u EXCEPT !.query = IF f # npos /\ query[1] > 0 THEN <<query[1], f>> ELSE query,
            !.path = IF f # npos /\ query[1] = 0 THEN <<path[1], f>> ELSE path,
            !.frag = IF f = npos THEN Nothing ELSE <<f + 1, Len(s)>>,
            !.port = IF u.explicit THEN @ ELSE DefaultPortForScheme(Slice(s, u.scheme)), !.valid = TRUE]
Query(s, u, path, query) == Fragment(s, u, path, query, Find(s, {"#"}, FragmentFrom(path, query)))
Path(s, u, path, q) == IF q = npos THEN Query(s, u, path, Nothing) ELSE Query(s, u, <<path[1], q>>, <<q + 1, Len(s)>>)
Components(s, u, pos) ==
  IF pos < Len(s) THEN Path(s, u, <<pos, Len(s)>>, Find(s, {"?"}, pos)) ELSE Path(s, u, Nothing, Find(s, {"?"}, 0))
Rest(a) == Components(a.url.spec, a.url, a.pos)

(* Impl::Parse.  Without a scheme all is a path, or all a query or a fragment. *)
WithScheme(s, u, colon) ==
  IF Slice(s, <<colon + 1, Min({colon + 3, Len(s)})>>) = <<"/", "/">>
  THEN Rest(Authority(s, [u EXCEPT !.scheme = <<0, colon>>], colon + 3))
  ELSE Components(s, [u EXCEPT !.scheme = <<0, colon>>], colon + 1)
WithoutScheme(s, u) ==
  [u EXCEPT !.valid = TRUE, !.query = IF s[1] = "?" THEN <<1, Len(s)>> ELSE Nothing,
            !.frag = IF s[1] = "#" THEN <<1, Len(s)>> ELSE Nothing,
            !.path = IF s[1] \in {"?", "#"} THEN Nothing ELSE <<0, Len(s)>>]
Parse(s) ==
  CASE s = <<>> -> Blank
    [] s # <<>> /\ SchemeEnd(s) \in 1..Len(s) - 1 /\ s[SchemeEnd(s) + 1] = ":" -> WithScheme(s, [Blank EXCEPT !.spec = s], SchemeEnd(s))
    [] OTHER -> WithoutScheme(s, [Blank EXCEPT !.spec = s])

Part(u, c) == Slice(u.spec, u[c])

(* origin(). *)
Root(u) == Part(u, "scheme") \o <<":", "/", "/">> \o Part(u, "host")
           \o (IF u.explicit /\ u.port # DefaultPortForScheme(Part(u, "scheme")) THEN <<":", u.port>> ELSE <<>>)
Origin(u) == IF Part(u, "scheme") = <<>> \/ Part(u, "host") = <<>> THEN <<>> ELSE Root(u)

----------------------------------------------------------------------------
(* The segments between slashes. *)
Segments(path) ==
  LET Step(acc, c) == IF c = "/" THEN Append(acc, <<>>) ELSE [acc EXCEPT ![Len(acc)] = Append(@, c)]
  IN FoldLeft(Step, <<<<>>>>, path)
Joined(segments) == FoldLeft(LAMBDA s, seg : IF s = <<>> THEN seg ELSE s \o <<"/">> \o seg, <<>>, segments)

(* NormalizePathSegments. *)
Pops(segments) == IF segments = <<>> THEN <<>> ELSE Front(segments)

NormalizePathSegments(path) ==
  LET Step(acc, seg) == CASE seg = <<"..">> -> Pops(acc) [] seg \in {<<".">>, <<>>} -> acc [] OTHER -> Append(acc, seg)
      kept == Joined(FoldLeft(Step, <<>>, Segments(path)))
      rooted == IF path = <<>> \/ path[1] = "/" THEN <<"/">> \o kept ELSE kept
  IN IF path # <<>> /\ Last(path) = "/" /\ rooted # <<>> /\ Last(rooted) # "/" THEN Append(rooted, "/") ELSE rooted

Prefixed(delimiter, part) == IF part = <<>> THEN <<>> ELSE <<delimiter>> \o part

MergedPath(base, path) ==
  LET mine == Part(base, "path")
      slashes == {i \in DOMAIN mine : mine[i] = "/"}
  IN NormalizePathSegments((IF slashes = {} THEN <<"/">> ELSE SubSeq(mine, 1, Max(slashes))) \o path)

(* Url::Resolve: the text of the result, before it is parsed. *)
Resolved(base, ref, path) ==
  CASE ref.spec = <<>> -> base.spec
    [] ref.spec # <<>> /\ Part(ref, "scheme") # <<>> -> ref.spec
    [] ref.spec # <<>> /\ Part(ref, "scheme") = <<>> /\ path = <<>> ->
         SubSeq(base.spec, 1, base.path[2]) \o Prefixed("?", Part(ref, "query")) \o Prefixed("#", Part(ref, "frag"))
    [] OTHER -> Root(base) \o (IF path[1] = "/" THEN Slice(ref.spec, <<ref.path[1], Len(ref.spec)>>)
                               ELSE MergedPath(base, path) \o Prefixed("?", Part(ref, "query")) \o Prefixed("#", Part(ref, "frag")))
ResolvedBy(base, ref) == Resolved(base, ref, Part(ref, "path"))

----------------------------------------------------------------------------
(* The default constructor, or a base. *)
Init == (\E b \in Bases \cup {<<>>} : url = Parse(b)) /\ step = [op |-> "base", arg |-> url.spec, base |-> url]

Becomes(op, arg, text) == url' = Parse(text) /\ step' = [op |-> op, arg |-> arg, base |-> url]
Construct(text) == Becomes("parse", text, text)
Resolve(relative) == Becomes("resolve", relative, ResolvedBy(url, Parse(relative)))

Next == step.op = "base" /\ (IF url.spec = <<>> THEN \E t \in Texts : Construct(t) ELSE \E r \in References : Resolve(r))
Spec == Init /\ [][Next]_urlVars

----------------------------------------------------------------------------
(* RFC 3986, appendix B: the components of a text with a scheme. *)
RfcParts(s) ==
  LET f == Min({Find(s, {"#"}, 0), Len(s)})
      q == Min({Find(SubSeq(s, 1, f), {"?"}, 0), f})
      colon == Find(s, {":"}, 0)
      authority == Slice(s, <<colon + 1, Min({colon + 3, q})>>) = <<"/", "/">>
      start == IF authority THEN Min({Find(s, {"/", "?", "#"}, colon + 3), Len(s)}) ELSE colon + 1
  IN [path |-> Slice(s, <<start, q>>), query |-> Slice(s, <<q + 1, f>>), frag |-> Slice(s, <<f + 1, Len(s)>>)]

(* Section 5.2.4, remove_dot_segments, of an absolute path. *)
RfcRemoveDots(path) ==
  LET segs == Tail(Segments(path))
      n == Len(segs)
      Step(acc, i) == CASE segs[i] = <<"..">> -> (IF acc = <<>> THEN <<>> ELSE Front(acc)) \o (IF i = n THEN <<<<>>>> ELSE <<>>)
                        [] segs[i] = <<".">> -> (IF i = n THEN Append(acc, <<>>) ELSE acc)
                        [] OTHER -> Append(acc, segs[i])
      out == FoldLeft(Step, <<>>, [i \in 1..n |-> i])
  IN FoldLeft(LAMBDA s, seg : s \o <<"/">> \o seg, <<>>, out)

TypeOK == url.valid = (url.spec # <<>>) /\ step.op \in {"base", "parse", "resolve"}

(* Parsing a text with a scheme finds the path, query and fragment that RFC    *)
(* 3986 says it has, whatever its authority; the exception is a question       *)
(* mark in the fragment.                                                       *)
QuestionInFragment(s) == \E i, j \in DOMAIN s : i < j /\ s[i] = "#" /\ s[j] = "?"
ParsesAsRfc ==
  step.op = "parse" /\ Part(url, "scheme") # <<>> /\ ~QuestionInFragment(step.arg) =>
    \A c \in {"path", "query", "frag"} : Part(url, c) = RfcParts(step.arg)[c]

(* A reference that is a path without empty segments, that ends in a name or a *)
(* slash, goes where RFC 3986 takes it, within the origin of a base that has a *)
(* path; a reference with a scheme replaces everything.                        *)
Plain(path) == ToSet(path) \cap {"?", "#", ":"} = {} /\ Last(path) \notin {".", ".."} /\ \A i \in 1..Len(path) - 1 : path[i] = "/" => path[i + 1] # "/"
ResolvesAsRfc ==
  step.op = "resolve" /\ step.arg # <<>> /\ Plain(step.arg) =>
    LET mine == Part(step.base, "path")
        merged == IF step.arg[1] = "/" THEN step.arg
                  ELSE (IF mine = <<>> THEN <<"/">> ELSE SubSeq(mine, 1, Max({i \in DOMAIN mine : mine[i] = "/"}))) \o step.arg
    IN /\ Origin(url) = Origin(step.base)
       /\ step.arg[1] # "/" => Part(url, "path") = RfcRemoveDots(merged)

(* Violated: "RFC 3986 relative reference resolution": a reference that is     *)
(* only a fragment loses the base's query, and one that is only a query loses  *)
(* the whole base when the base has no path.                                   *)
FragmentKeepsQuery ==
  step.op = "resolve" /\ step.arg # <<>> /\ step.arg[1] = "#" => Part(url, "query") = Part(step.base, "query")
QueryKeepsOrigin ==
  step.op = "resolve" /\ step.arg # <<>> /\ step.arg[1] \in {"?", "#"} => Origin(url) = Origin(step.base)
=============================================================================
