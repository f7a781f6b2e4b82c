---------------------------- MODULE SettingsForm ----------------------------
(***************************************************************************)
(* What a settings form is normalised to (handler/settings.go), how the    *)
(* page shows it again, and how the scheduler reads what was stored        *)
(* (prefetch/scheduler.go), which parses the same text with code of its    *)
(* own.  The crawl list and the per-sub overrides come from one text field *)
(* cut at every "+"; a "+" inside depth:l2+l3 cuts too, and the parsers    *)
(* must put the two pieces together again.                                 *)
(*                                                                         *)
(* A piece is [name, eq, kv]: what precedes "=" (or the whole of it), if   *)
(* there is a "=", and the key:value pairs joined by "&".  A name with a   *)
(* "-" or a blank in it, where ParseSubList would cut again, is left out.  *)
(***************************************************************************)
EXTENDS SearchQuery

CONSTANTS
  SFPieces,    \* pieces that can be typed
  SFLength,    \* bound on the pieces of a text
  SFValidName  \* names that match validSubName

VARIABLE sfText
sfVars == <<sfText>>

\* A depth is the sequence of its parts, any other value a word.
Pairs  == [k : {"depth"}, v : Seq(STRING)] \cup [k : STRING \ {"depth"}, v : STRING]
Clause == [name : STRING, eq : BOOLEAN, kv : Seq(Pairs)]
NoName == "&"  \* stands for any text that is not a name

ASSUME SFAssumption == SFPieces \subseteq Clause /\ NoName \notin SFValidName

ValidSorts == {"hot", "new", "top", "rising", "controversial"}
Timeframes == {"hour", "day", "week", "month", "year", "all"}
Piece(n, kv) == [name |-> n, eq |-> TRUE, kv |-> kv]
Bare(n) == [name |-> n, eq |-> FALSE, kv |-> <<>>]
KV(k, v) == [k |-> k, v |-> v]

\* Also the scheduler's canonDepth, which has the same cases.
CanonicalizeDepth(v) ==
    CASE v \in {<<"none">>, <<"off">>, <<"l1">>} -> "none"
      [] v = <<"l2">> -> "l2"
      [] v = <<"l3">> -> "l3"
      [] v \in {<<"l2", "l3">>, <<"l3", "l2">>} -> "l2+l3"
      [] OTHER -> "bad"

LastOf(s) == s[Len(s)]
FrontOf(s) == SubSeq(s, 1, Len(s) - 1)
Listed(x, s) == \E i \in DOMAIN s : s[i] = x

(***************************************************************************)
(* Cutting the text.                                                       *)
(***************************************************************************)

\* isDepthValueJoin: what is left of the "+" ends with a depth of one layer,
\* also where no "=" precedes it, and the next piece begins with a layer.
JoinsDepth(clause, piece) ==
    /\ clause.kv # <<>>
    /\ LastOf(clause.kv).k = "depth" /\ LastOf(clause.kv).v \in {<<"l2">>, <<"l3">>}
    /\ ~piece.eq /\ piece.name \in {"l2", "l3"}

JoinDepth(clause, piece) ==
    [clause EXCEPT !.kv = FrontOf(@)
        \o <<KV("depth", Append(LastOf(@).v, piece.name))>> \o piece.kv]

\* Mutant: a plain split at every "+".
JoinsNever(clause, piece) == FALSE

\* The scheduler's own copy of isDepthValueJoin.
SchedulerJoins(clause, piece) == JoinsDepth(clause, piece)

\* splitTopLevelClauses, in both copies.
CutSoFar(text, Joins(_, _)) ==
    Turns(Len(text), <<>>, LAMBDA cut, i :
      IF cut # <<>> /\ Joins(LastOf(cut), text[i])
      THEN Append(FrontOf(cut), JoinDepth(LastOf(cut), text[i]))
      ELSE Append(cut, text[i]))
Clauses(text) == CutSoFar(text, JoinsDepth)[Len(text)]
SchedulerClauses(text) == CutSoFar(text, SchedulerJoins)[Len(text)]

(***************************************************************************)
(* The form.                                                               *)
(***************************************************************************)
NoOverride(n) == [sub |-> n, sort |-> "", time |-> "", depth |-> ""]
UsablePair(kv) ==
    CASE kv.k = "sort"  -> kv.v \in ValidSorts
      [] kv.k = "time"  -> kv.v \in Timeframes
      [] kv.k = "depth" -> CanonicalizeDepth(kv.v) # "bad"
      [] OTHER -> FALSE
Meaning(kv) == IF kv.k = "depth" THEN CanonicalizeDepth(kv.v) ELSE kv.v

\* One clause of ParsePrefetchSubModes: the last usable pair of a key counts.
Setting(kv, k) ==
    LET at == {j \in DOMAIN kv : kv[j].k = k /\ UsablePair(kv[j])}
    IN  IF at = {} THEN "" ELSE Meaning(kv[Greatest(at)])
Override(clause) ==
    [sub |-> clause.name, sort |-> Setting(clause.kv, "sort"),
     time |-> Setting(clause.kv, "time"), depth |-> Setting(clause.kv, "depth")]
Accepted(clause) ==
    clause.eq /\ clause.name \in SFValidName /\ Override(clause) # NoOverride(clause.name)

\* Of several clauses for a sub the last one counts, at the place of the first.
ParsePrefetchSubModes(clauses) ==
    LET ok == Only(clauses, {c \in Elements(clauses) : Accepted(c)})
        order == FirstSeen(NamesOf(ok))
        byName(n) == ok[Greatest({i \in DOMAIN ok : ok[i].name = n})]
    IN  [h \in DOMAIN order |-> Override(byName(order[h]))]

\* What splitPrefetchUnified takes for the name of a clause: what precedes "=",
\* or all of it, which with a "&" in it is none.
NameIn(clause) == IF clause.eq \/ clause.kv = <<>> THEN clause.name ELSE NoName
\* ParseSubList over the names of all clauses, then the valid ones.
SubNames(clauses) ==
    Only(FirstSeen([i \in DOMAIN clauses |-> NameIn(clauses[i])]), SFValidName)

\* splitPrefetchUnified and the two branches of NormalizeSettings behind it.
\* The clauses with a "=", put together again by "+", are cut as before.
Normalize(text) ==
    [subs |-> SubNames(Clauses(text)), modes |-> ParsePrefetchSubModes(Clauses(text))]

\* CanonicalPrefetchSubModes: one clause per override; a depth of two layers
\* is two pieces again.
PiecesOf(o) ==
    LET short == (IF o.sort = "" THEN <<>> ELSE <<KV("sort", o.sort)>>)
                   \o (IF o.time = "" THEN <<>> ELSE <<KV("time", o.time)>>)
    IN  CASE o.depth = "" -> <<Piece(o.sub, short)>>
          [] o.depth = "l2+l3" ->
               <<Piece(o.sub, Append(short, KV("depth", <<"l2">>))), Bare("l3")>>
          [] OTHER -> <<Piece(o.sub, Append(short, KV("depth", <<o.depth>>)))>>
WrittenSoFar(modes) == Turns(Len(modes), <<>>, LAMBDA all, i : all \o PiecesOf(modes[i]))
CanonicalPrefetchSubModes(modes) == WrittenSoFar(modes)[Len(modes)]

\* ComposePrefetchUnified: the page shows the subs without an override first.
Bares(names) == [i \in DOMAIN names |-> Bare(names[i])]
Compose(stored) ==
    LET text == CanonicalPrefetchSubModes(stored.modes)
        overrideSet == {c.name : c \in {x \in Elements(Clauses(text)) : x.eq}}
    IN  Bares(Only(stored.subs, Elements(stored.subs) \ overrideSet)) \o text

(***************************************************************************)
(* The scheduler, which reads the stored text.                             *)
(***************************************************************************)
\* The pairs of the first clause for a sub.
FirstFor(clauses, sub) ==
    LET at == {i \in DOMAIN clauses : clauses[i].eq /\ clauses[i].name = sub}
    IN  IF at = {} THEN <<>> ELSE clauses[Least(at)].kv

\* resolveSubParams: per field, the last pair of the override, else the global
\* setting.
ResolveSubParams(text, sub, global) ==
    LET kv == FirstFor(SchedulerClauses(text), sub)
        pick(k, default) == LET at == {j \in DOMAIN kv : kv[j].k = k}
                            IN  IF at = {} THEN default ELSE kv[Greatest(at)].v
    IN  [sort |-> pick("sort", global.sort), time |-> pick("time", global.time)]

\* resolveSubMode: only top and controversial take a timeframe upstream.
ResolveSubMode(text, sub, global) ==
    LET p == ResolveSubParams(text, sub, global)
    IN  IF p.sort \in {"top", "controversial"} THEN p ELSE [p EXCEPT !.time = ""]

\* resolveSubBucket keeps the timeframe the user meant.
ResolveSubBucket(text, sub, global) ==
    LET t == ResolveSubParams(text, sub, global).time
    IN  IF t \in Timeframes THEN t ELSE "day"

\* resolveSubDepth: the first depth of the clause that is one.
ResolveSubDepth(text, sub, global) ==
    LET kv == FirstFor(SchedulerClauses(text), sub)
        at == {j \in DOMAIN kv : kv[j].k = "depth" /\ CanonicalizeDepth(kv[j].v) # "bad"}
    IN  IF at = {} THEN global.depth ELSE CanonicalizeDepth(kv[Least(at)].v)

DepthCoversLayer(layer, depth) ==
    \/ layer = "L2" /\ depth \in {"l2", "l2+l3"}
    \/ layer = "L3" /\ depth \in {"l3", "l2+l3"}

\* effectiveL2Enabled, effectiveL3Enabled: some sub of the list runs the layer.
EffectiveEnabled(layer, text, subs, global) ==
    IF subs = <<>> THEN DepthCoversLayer(layer, global.depth)
    ELSE \E i \in DOMAIN subs :
           DepthCoversLayer(layer, ResolveSubDepth(text, subs[i], global))

(***************************************************************************)
(* Typing a text.                                                          *)
(***************************************************************************)
SFInit == sfText = <<>>
SFType(p) == Len(sfText) < SFLength /\ sfText' = Append(sfText, p)
SFNext == \E p \in SFPieces : SFType(p)
SFSpec == SFInit /\ [][SFNext]_sfVars

Global == [sort |-> "hot", time |-> "day", depth |-> "none"]
Else(v, default) == IF v = "" THEN default ELSE v

\* A form that is saved as the page shows it changes neither the set of subs
\* nor an override, and from then on not a character: handleSettingsSave takes
\* any difference for a vote of the user.  And the scheduler reads the stored
\* text as the form meant it.
EchoStable ==
    LET stored == Normalize(sfText)
        again == Normalize(Compose(stored))
        text == CanonicalPrefetchSubModes(stored.modes)
    IN  /\ \A n \in SFValidName : Listed(n, again.subs) <=> Listed(n, stored.subs)
        /\ again.modes = stored.modes
        /\ Normalize(Compose(again)) = again
        /\ \A i \in DOMAIN stored.modes : LET o == stored.modes[i] IN
             /\ ResolveSubParams(text, o.sub, Global)
                  = [sort |-> Else(o.sort, "hot"), time |-> Else(o.time, "day")]
             /\ ResolveSubMode(text, o.sub, Global).time
                  = IF o.sort \in {"top", "controversial"} THEN Else(o.time, "day") ELSE ""
             /\ ResolveSubBucket(text, o.sub, Global) = Else(o.time, "day")
             /\ ResolveSubDepth(text, o.sub, Global) = Else(o.depth, "none")
        /\ \A layer \in {"L2", "L3"} :
             EffectiveEnabled(layer, text, stored.subs, Global) <=>
               \E i \in DOMAIN stored.modes : DepthCoversLayer(layer, stored.modes[i].depth)

\* A text that is written down and read again says the same: the settings form
\* as the page echoes it, and the box of a search in its canonical form.
TextsRoundTrip == EchoStable /\ CanonicalStable
=============================================================================
