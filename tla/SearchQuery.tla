----------------------------- MODULE SearchQuery -----------------------------
(***************************************************************************)
(* The grammar of the search box (searchquery/searchquery.go) and of the   *)
(* archive filter (archive/control.go), as functions.  A box is a sequence *)
(* of tokens, already cut at blanks; what the regular expressions tell     *)
(* apart is the token's kind.  "text" stands for free text and for every   *)
(* token whose value its key does not accept.  A moment is a day and a     *)
(* part of it: "start" and "end" are midnight and 23:59:59, "mid" is what  *)
(* a relative offset from now gives.                                       *)
(*                                                                         *)
(* The state machine types a box token by token, so that TLC visits every  *)
(* box of up to SQLength tokens.                                           *)
(***************************************************************************)
EXTENDS Integers, Sequences, FiniteSets, NoneValue

CONSTANTS
  SQTokens,  \* tokens that can be typed
  SQLength,  \* bound on the tokens of a box
  SQToday    \* the day of nowFn()

VARIABLE sqBox
sqVars == <<sqBox>>

AllMediaTypes == <<"image", "video", "gif">>
Signs == [name : STRING, inc : BOOLEAN]
Dates == [grain : {"day", "month", "ago"}, n : Int]
Moments == Int \X {"start", "mid", "end"}

\* The fields of Parsed, by what a token does with one: it adds to a list,
\* sets a value, or sets a moment.
Lists  == {"subs", "types", "terms"}
Values == {"rating", "author", "flair", "instant", "score", "cached",
           "comments", "timeframe", "sort"}
Fields == Lists \cup Values \cup {"after", "before"}
NoQuery == [f \in Fields |-> IF f \in Lists THEN <<>> ELSE None]

ASSUME SQAssumption ==
  /\ None \notin Moments /\ SQToday \in Int
  /\ \A tok \in SQTokens :
       \/ tok.k \in (Values \ {"author"}) \cup {"quoted", "text"}
       \/ tok.k = "author" /\ tok.v \in Seq(STRING) /\ tok.v # <<>>   \* its words
       \/ tok.k \in {"sub", "type"} /\ tok.v \in Seq(Signs)
       \/ tok.k \in {"date", "after", "before", ">", "<"} /\ tok.v \in Dates

InSeq(x, s) == \E i \in DOMAIN s : s[i] = x
Elements(s) == {s[i] : i \in DOMAIN s}
NamesOf(e) == [i \in DOMAIN e |-> e[i].name]
Greatest(S) == CHOOSE i \in S : \A j \in S : j <= i
Least(S)    == CHOOSE i \in S : \A j \in S : i <= j

(* A loop over n places: what it has after each of them. *)
Turns(n, base, Turn(_, _)) ==
  LET after[i \in 0 .. n] == IF i = 0 THEN base ELSE Turn(after[i - 1], i) IN after

\* The sequence without the later occurrences of an element.
SeenSoFar(s) ==
    Turns(Len(s), <<>>, LAMBDA seen, i : IF InSeq(s[i], seen) THEN seen ELSE Append(seen, s[i]))
FirstSeen(s) == SeenSoFar(s)[Len(s)]
\* The elements that are in S, in their order.
KeptSoFar(s, S) ==
    Turns(Len(s), <<>>, LAMBDA kept, i : IF s[i] \in S THEN Append(kept, s[i]) ELSE kept)
Only(s, S) == KeptSoFar(s, S)[Len(s)]

(***************************************************************************)
(* Reading a box.                                                          *)
(***************************************************************************)

\* resolveSubs: the last sign of a name decides, the first place orders it.
LastSign(e, n) == e[Greatest({i \in DOMAIN e : e[i].name = n})].inc
Signed(e, inc) ==
    LET order == FirstSeen(NamesOf(e))
    IN  Only(order, {n \in Elements(order) : LastSign(e, n) = inc})
WhiteSubs(p) == Signed(p.subs, TRUE)
BlackSubs(p) == Signed(p.subs, FALSE)

\* parseSignedMediaTypes: excludes subtract from the includes, or from all.
Included(seg) == FirstSeen(NamesOf(Only(seg, {e \in Elements(seg) : e.inc})))
Excluded(seg) == {e.name : e \in {x \in Elements(seg) : ~x.inc}}
TypesOf(seg) ==
    LET base == IF Included(seg) = <<>> /\ Excluded(seg) # {} THEN AllMediaTypes ELSE Included(seg)
    IN  Only(base, Elements(base) \ Excluded(seg))

\* resolveDateValue, as a start and an end; a relative offset has no end.
Bounds(d) ==
    CASE d.grain = "day"   -> [from |-> <<d.n, "start">>, to |-> <<d.n, "end">>]
      [] d.grain = "month" -> [from |-> <<30 * d.n + 1, "start">>,
                               to |-> <<30 * d.n + 30, "end">>]
      [] d.grain = "ago"   -> [from |-> <<SQToday - d.n, "mid">>, to |-> None]

\* applyDateOp: both sides are inclusive.
DateOp(p, op, d) ==
    IF op = ">" THEN [p EXCEPT !.after = Bounds(d).from]
    ELSE [p EXCEPT !.before = IF Bounds(d).to # None THEN Bounds(d).to ELSE Bounds(d).from]

\* applyDateEq.
DateEq(p, d) ==
    LET q == [p EXCEPT !.after = Bounds(d).from] IN
    IF Bounds(d).to = None THEN q ELSE [q EXCEPT !.before = Bounds(d).to]

Text(p, tok) == [p EXCEPT !.terms = Append(@, tok)]

\* One token of Parse and applyKV.
Read(p, tok) ==
    CASE tok.k = "sub"    -> [p EXCEPT !.subs = @ \o tok.v]
      [] tok.k = "type"   -> IF TypesOf(tok.v) = <<>> THEN Text(p, tok)
                             ELSE [p EXCEPT !.types = FirstSeen(@ \o TypesOf(tok.v))]
      [] tok.k \in Values -> [p EXCEPT ![tok.k] = tok.v]
      [] tok.k = "date"   -> DateEq(p, tok.v)
      [] tok.k = "after"  -> IF tok.v.grain = "month" THEN Text(p, tok)
                             ELSE DateOp(p, ">", tok.v)
      [] tok.k = "before" -> IF tok.v.grain = "month" THEN Text(p, tok)
                             ELSE DateOp(p, "<", tok.v)
      [] tok.k \in {">", "<"} -> DateOp(p, tok.k, tok.v)
      [] tok.k = "quoted" -> Text(p, tok)
      [] tok.k = "text"   -> Text(p, tok)

ReadSoFar(p, box) == Turns(Len(box), p, LAMBDA q, i : Read(q, box[i]))
ReadFrom(p, box) == ReadSoFar(p, box)[Len(box)]
Parse(box) == ReadFrom(NoQuery, box)

(***************************************************************************)
(* Writing it back.                                                        *)
(***************************************************************************)
Tok(k, v) == [k |-> k, v |-> v]
Opt(p, k) == IF p[k] = None THEN <<>> ELSE <<Tok(k, p[k])>>

\* SubClause: includes first, then excludes.
As(names, inc) == [i \in DOMAIN names |-> [name |-> names[i], inc |-> inc]]
Scope(p) == As(WhiteSubs(p), TRUE) \o As(BlackSubs(p), FALSE)
SubClause(p) == IF Scope(p) = <<>> THEN <<>> ELSE <<Tok("sub", Scope(p))>>
TypeClause(p) == IF p.types = <<>> THEN <<>> ELSE <<Tok("type", As(p.types, TRUE))>>
\* A date keeps its day only.
DateClause(op, t) == IF t = None THEN <<>> ELSE <<Tok(op, [grain |-> "day", n |-> t[1]])>>
\* An author is written without quotes: all but the first word become text.
AuthorClause(p) ==
    IF p.author = None THEN <<>>
    ELSE <<Tok("author", <<Head(p.author)>>)>>
           \o [i \in 1 .. Len(p.author) - 1 |-> Tok("text", p.author[i + 1])]
\* A term loses its quotes unless it holds a blank.
Unquoted(tok) == IF tok.k = "quoted" THEN tok.v ELSE tok
Written(terms) == [i \in DOMAIN terms |-> Unquoted(terms[i])]

Canonical(p) ==
    SubClause(p) \o AuthorClause(p) \o Opt(p, "flair") \o Opt(p, "rating")
      \o TypeClause(p) \o Opt(p, "instant") \o Opt(p, "score") \o Opt(p, "cached")
      \o Opt(p, "comments") \o Opt(p, "sort") \o Opt(p, "timeframe")
      \o DateClause(">", p.after) \o DateClause("<", p.before) \o Written(p.terms)

LiveDisplayQuery(p) ==
    Canonical([p EXCEPT !.score = None, !.comments = None, !.cached = None,
                        !.types = <<>>, !.after = None, !.before = None])

\* What reaches Reddit's q; everything else is a local filter.
RedditQuery(p) ==
    [any |-> WhiteSubs(p), none |-> BlackSubs(p), author |-> p.author,
     flair |-> p.flair, rating |-> p.rating, terms |-> p.terms]

SortForSearch(s) ==
    CASE s \in {"relevance", "top", "new", "comments"} -> s
      [] s = "controversial" -> "top"
      [] s \in {"hot", "rising"} -> "relevance"
      [] OTHER -> None
SortForSub(s) ==
    CASE s \in {"hot", "new", "top", "rising", "controversial"} -> s
      [] s \in {"relevance", "comments"} -> "hot"
      [] OTHER -> None
SortForArchive(s) ==
    CASE s \in {"new", "top", "all"} -> s
      [] s \in {"hot", "rising", "relevance"} -> "new"
      [] s \in {"comments", "controversial"} -> "top"
      [] OTHER -> None

Days == [day |-> 1, week |-> 7, month |-> 30, year |-> 365]
\* hour is less than a day: it starts today.
ArchiveAfter(p) ==
    IF p.after # None THEN p.after
    ELSE CASE p.timeframe \in {None, "all"} -> None
           [] p.timeframe = "hour" -> <<SQToday, "mid">>
           [] OTHER -> <<SQToday - Days[p.timeframe], "mid">>

\* The order each of the three sources is asked for, and the archive's oldest day.
Upstream(p) == <<SortForSearch(p.sort), SortForSub(p.sort), SortForArchive(p.sort),
                 IF ArchiveAfter(p) = None THEN None ELSE ArchiveAfter(p)[1]>>

(***************************************************************************)
(* The archive filter: signed names, in any order.                         *)
(***************************************************************************)

\* ParseControl: a name given twice is dropped, one include voids the excludes.
ParseControl(e) ==
    LET once == {e[i] : i \in {k \in DOMAIN e :
                   \A j \in DOMAIN e \ {k} : e[j].name # e[k].name}}
        whites == {x.name : x \in {y \in once : y.inc}}
        blacks == {x.name : x \in {y \in once : ~y.inc}}
    IN  [whites |-> whites, blacks |-> IF whites # {} THEN {} ELSE blacks]

Allow(c, n) ==
    IF c.whites # {} THEN n \in c.whites
    ELSE c.blacks = {} \/ n \notin c.blacks

\* Canonical of a Control, up to the order of the names.
ControlTokens(c) ==
    {[name |-> n, inc |-> TRUE] : n \in c.whites} \cup {[name |-> n, inc |-> FALSE] : n \in c.blacks}

(***************************************************************************)
(* Typing a box.                                                           *)
(***************************************************************************)
SQInit == sqBox = <<>>
SQType(tok) == Len(sqBox) < SQLength /\ sqBox' = Append(sqBox, tok)
SQNext == \E tok \in SQTokens : SQType(tok)
SQSpec == SQInit /\ [][SQNext]_sqVars

\* A sequence of the elements of a set, in some order.
Enumerated(S) == CHOOSE f \in [1..Cardinality(S) -> S] : \A i, j \in DOMAIN f : f[i] = f[j] => i = j

\* "Round-trips through Parse to itself" (Canonical's comment): writing a box
\* down and reading it again gives the same text and the same scope, but for
\* the two tokens that lose quotes they need, a term that looks like a key and
\* an author of several words; all sources are asked for the same, and an
\* archive filter lets the same pass.
LosesQuotes(tok) == tok.k = "quoted" \/ (tok.k = "author" /\ Len(tok.v) > 1)
CanonicalStable ==
    LET p == Parse(sqBox)  q == Parse(Canonical(p)) IN
    (\A i \in DOMAIN sqBox : ~LosesQuotes(sqBox[i])) =>
        /\ Canonical(q) = Canonical(p)
        /\ RedditQuery(q) = RedditQuery(p)
        /\ Upstream(q) = Upstream(p)
        /\ Canonical(Parse(LiveDisplayQuery(p))) = LiveDisplayQuery(p)
        /\ q.types = p.types
        /\ LET c == ParseControl(p.subs)
               d == ParseControl(Enumerated(ControlTokens(c)))
           IN  \A i \in DOMAIN p.subs :
                 Allow(d, p.subs[i].name) <=> Allow(c, p.subs[i].name)
=============================================================================
