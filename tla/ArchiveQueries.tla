--------------------------- MODULE ArchiveQueries ---------------------------
(***************************************************************************)
(* The reads of the posts table (store/post.go) as functions of its rows,   *)
(* and the way a parsed search box becomes one (handler/search.go).  A row  *)
(* is [id, sub, words, author, flair, kind, nsfw, score, comments, created, *)
(* seen, key]: words of its title, times as numbers, key the column that    *)
(* says which rows are reposts of each other (None: of no other).           *)
(***************************************************************************)
EXTENDS Integers, FiniteSets, NoneValue

(* parsedToArchiveOpts: NSFW of "safe" is "sfw", and a timeframe is a date. *)
AnyPost == [text |-> {}, after |-> None, before |-> None, nsfw |-> None, media |-> {},
            author |-> None, flair |-> None, score |-> None, comments |-> None,
            white |-> {}, black |-> {}]
Opts(parsed) ==
  [f \in DOMAIN AnyPost |->
     IF f = "nsfw" THEN CASE parsed.rating = "nsfw" -> "nsfw"
                          [] parsed.rating = "safe" -> "sfw"
                          [] OTHER -> None
     ELSE IF f \in DOMAIN parsed THEN parsed[f] ELSE AnyPost[f]]

(* show_nsfw dominates what the box says. *)
Dominated(opts, showNSFW) == IF showNSFW THEN opts ELSE [opts EXCEPT !.nsfw = "sfw"]

MediaPostTypes(media) ==
  UNION {CASE m = "image" -> {"image", "gallery"} [] OTHER -> {m} : m \in media}

Compare(v, c) == CASE c.op = ">" -> v > c.val [] c.op = "<" -> v < c.val
                   [] c.op = ">=" -> v >= c.val [] c.op = "<=" -> v <= c.val
                   [] OTHER -> v = c.val

(* archiveFilterClauses; a row whose comments are not a number is out when  *)
(* their count matters.                                                     *)
Satisfies(p, o) ==
  /\ o.text \subseteq p.words
  /\ o.after # None => p.created >= o.after
  /\ o.before # None => p.created <= o.before
  /\ o.nsfw = "nsfw" => p.nsfw
  /\ o.nsfw = "sfw" => ~p.nsfw
  /\ o.media # {} => p.kind \in MediaPostTypes(o.media)
  /\ o.author # None => p.author = o.author
  /\ o.flair # None => p.flair = o.flair
  /\ o.score # None => Compare(p.score, o.score)
  /\ o.comments # None => p.comments # None /\ Compare(p.comments, o.comments)
  /\ o.white # {} => p.sub \in o.white
  /\ p.sub \notin o.black

-----------------------------------------------------------------------------
(* The row that stands for its reposts: the best by score, then the newest, *)
(* and of rows alike in both, any one.                                      *)
Better(p, q) == p.score > q.score \/ (p.score = q.score /\ p.created > q.created)
Cluster(rows, p) == IF p.key = None THEN {p} ELSE {q \in rows : q.key = p.key}
Best(cluster) == CHOOSE p \in cluster : \A q \in cluster : ~Better(q, p)
Folded(rows) == {Best(Cluster(rows, p)) : p \in rows}

Before(sort, p, q) ==
  CASE sort = "top" -> p.score > q.score
    [] sort = "notorious" -> p.score < q.score
    [] sort \in {"all", "new_archive"} -> p.seen > q.seen
    [] OTHER -> p.created > q.created

(* LIMIT and OFFSET: the rows that have as many before them, when no two    *)
(* rows sort alike.                                                         *)
Rank(rows, sort, p) == Cardinality({q \in rows : Before(sort, q, p)})
OnPage(rows, sort, limit, offset) ==
  {p \in rows : offset <= Rank(rows, sort, p) /\ Rank(rows, sort, p) < offset + limit}

\* Mutant: the count of the rows, not of their clusters.
ArchiveSearchRows(rows, o, sort, limit, offset) ==
  LET in == {p \in rows : Satisfies(p, o)}
  IN  [page |-> OnPage(Folded(in), sort, limit, offset), total |-> Cardinality(in)]

ArchiveSearch(rows, o, sort, limit, offset) ==
  LET in == {p \in rows : Satisfies(p, o)}
  IN  [page |-> OnPage(Folded(in), sort, limit, offset),
       total |-> Cardinality({Cluster(in, p) : p \in in})]

(* archiveCacheScoreSearch: what the other constraints match, up to a cap,  *)
(* newest first or as asked, filtered by the score of its medium and cut    *)
(* here; held are the rows whose media are resident and score enough.       *)
CacheScoreSearch(rows, o, sort, scanCap, held, limit, offset) ==
  LET kept == {p \in ArchiveSearch(rows, o, sort, scanCap, 0).page : p.id \in held}
  IN  [page |-> OnPage(kept, sort, limit, offset), total |-> Cardinality(kept)]

(* ListHomepage: no folding; all but "new" look back thirty days. *)
ListHomepage(rows, o, sort, now, limit, offset) ==
  LET base == {p \in rows : /\ sort \in {"new_archive", "top", "notorious"} => p.seen >= now - 30
                            /\ sort = "notorious" => p.score < 0}
  IN  OnPage({p \in base : Satisfies(p, o)}, sort, limit, offset)

InSub(rows, sub, showNSFW) == {p \in rows : p.sub = sub /\ (showNSFW \/ ~p.nsfw)}
ListBySubreddit(rows, sub, limit, offset, showNSFW) ==
  OnPage(InSub(rows, sub, showNSFW), "new", limit, offset)
CountBySubreddit(rows, sub, showNSFW) == Cardinality(InSub(rows, sub, showNSFW))

=============================================================================
