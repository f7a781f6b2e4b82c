--------------------------- MODULE SearchSession ---------------------------
(***************************************************************************)
(* One visitor's search (handler/search.go, search_session.go): pages of    *)
(* live results by their cursor and of the archive by their offset, folded  *)
(* within a page and against what the session has shown on other pages.     *)
(* The session is a value in Redis that a page loads, extends and saves.    *)
(***************************************************************************)
EXTENDS RepostFold

CONSTANTS SSListings,    \* what a fetch or a query of the archive may return
          SSCursors,     \* the cursors of live pages, "" the first
          SSBefores,     \* the ?before= of pages reached backwards
          SSOffsets,     \* "archive:<n>": the pages of the archive
          SSTabs,        \* requests of this visitor at once
          SSAsks, SSFaults   \* bounds: requests; keys Redis loses

VARIABLES ssSeen,    \* the session: entries [cur, post]
          ssTab,     \* what each request is doing
          ssCache,   \* rendered pages, by the cursor in the URL
          ssPuts,    \* pages on their way to the cache
          ssShown,   \* what the visitor saw last, by cursor
          ssBroken,  \* ghost: renders overlapped, or the session and the pages parted
          ssLeft
ssVars == <<ssSeen, ssTab, ssCache, ssPuts, ssShown, ssBroken, ssLeft>>

(* A page reached backwards has a URL of its own, and no ?after=: it takes   *)
(* the cursor of the first page.                                            *)
SSUrls == SSCursors \cup SSBefores
CursorOf(u) == IF u \in SSBefores THEN "" ELSE u
SearchPages == SSCursors \cup SSOffsets \cup {"archive:0"}
FoundPosts == UNION {{l[i] : i \in DOMAIN l} : l \in SSListings}
(* The words of a title are finitely many; a score is a number, or hidden. *)
ASSUME SSAssumption ==
  /\ "" \in SSCursors
  /\ \A l \in SSListings : l \in Seq(FoundPosts)
  /\ \A p \in FoundPosts : IsFiniteSet(p.toks) /\ p.score \in Int \cup {None}

Tab(at, cur, listing, posts, seen, url) ==
  [at |-> at, cur |-> cur, listing |-> listing, posts |-> posts, seen |-> seen, url |-> url]
Quiet == Tab("idle", "", << >>, << >>, {}, None)

SSTypeOK ==
  /\ \A e \in ssSeen : e.cur \in SearchPages
  /\ \A t \in SSTabs : ssTab[t].at \in {"idle", "fetched", "loaded"}
  /\ \A c \in SSUrls : ssCache[c] # None => ssCache[c].cur \in SearchPages
  /\ \A p \in ssPuts : p.url \in SSUrls /\ p.cur \in SearchPages
  /\ ssBroken \in BOOLEAN /\ ssLeft \in [asks : 0 .. SSAsks, faults : 0 .. SSFaults]

-----------------------------------------------------------------------------
(* applySessionDedup: what this cursor showed before is forgotten first,    *)
(* then each post is kept and entered unless something like it is there; an *)
(* empty page leaves the session as it is.                                  *)
(* Of the posts, which are where they were in the listing, those at K stay. *)
Terse(p) == TitleTokens(p.toks) = {}
Elsewhere(seen, cur) == {e \in seen : e.cur # cur}
\* Mutant: a post is held only against its own page.
StayByPage(K, posts, seen, cur) ==
  \A i \in DOMAIN posts : i \in K <=> \A j \in K : j < i => ~Matches(posts[i], posts[j])
Stay(K, posts, seen, cur) ==
  \A i \in DOMAIN posts : i \in K <=>
    /\ \A e \in Elsewhere(seen, cur) : ~Matches(posts[i], e.post)
    /\ \A j \in K : j < i => ~Matches(posts[i], posts[j])
Entered(K, posts, seen, cur) ==
  IF DOMAIN posts = {} THEN seen
  ELSE Elsewhere(seen, cur) \cup {[cur |-> cur, post |-> posts[i]] : i \in {j \in K : ~Terse(posts[j])}}

(* serveSearch: a page that is cached is shown as it is ... *)
CacheHit(c) ==
  /\ ssLeft.asks > 0 /\ ssLeft' = [ssLeft EXCEPT !.asks = @ - 1]
  /\ ssCache[c] # None
  /\ ssShown' = [ssShown EXCEPT ![ssCache[c].cur] = ssCache[c].posts]
  /\ ssBroken' = (ssBroken \/ ssShown' # ssShown)
  /\ UNCHANGED <<ssSeen, ssTab, ssCache, ssPuts>>

Overlaps == ssPuts # {} \/ \E t \in SSTabs : ssTab[t].at # "idle"
Fetched(t, url, c, listing, posts) ==
  /\ ssLeft.asks > 0 /\ ssLeft' = [ssLeft EXCEPT !.asks = @ - 1]
  /\ ssTab[t].at = "idle"
  /\ ssTab' = [ssTab EXCEPT ![t] = Tab("fetched", c, listing, posts, {}, url)]
  /\ ssBroken' = (ssBroken \/ Overlaps)
  /\ UNCHANGED <<ssSeen, ssCache, ssPuts, ssShown>>

(* ... else Reddit is asked, and its answer folded; ...  *)
Live(t, u) == /\ ssCache[u] = None
              /\ \E l \in SSListings : Fetched(t, u, CursorOf(u), l, FoldReposts(l))
(* ... when that is not allowed or failed, the archive, which has folded    *)
(* what it returns by equal titles.                                         *)
FromArchive(t, u) == /\ ssCache[u] = None
                     /\ \E l \in SSListings : Fetched(t, u, "archive:0", l, l)
(* serveSearchMore and serveSearchArchivePartial: neither is cached. *)
LoadMore(t, c) == \E l \in SSListings : Fetched(t, None, c, l, FoldReposts(l))
ArchiveMore(t, c) == \E l \in SSListings : Fetched(t, None, c, l, l)

LoadSeen(t) ==
  LET tab == ssTab[t] IN
  /\ tab.at = "fetched"
  /\ ssTab' = [ssTab EXCEPT ![t] = Tab("loaded", tab.cur, tab.listing, tab.posts, ssSeen, tab.url)]
  /\ UNCHANGED <<ssSeen, ssCache, ssPuts, ssShown, ssBroken, ssLeft>>

(* saveSeenTitles keeps the old value when the new one is empty. *)
SaveSeen(t) ==
  LET tab == ssTab[t]
  IN  /\ tab.at = "loaded"
      /\ \E K \in SUBSET DOMAIN tab.posts :
           LET out  == [i \in K |-> tab.posts[i]]
               seen == Entered(K, tab.posts, tab.seen, tab.cur)
           IN  /\ Stay(K, tab.posts, tab.seen, tab.cur)
               /\ ssSeen' = IF seen = {} THEN ssSeen ELSE seen
               /\ ssShown' = [ssShown EXCEPT ![tab.cur] = out]
               /\ ssPuts' = IF tab.url = None THEN ssPuts
                            ELSE ssPuts \cup {[url |-> tab.url, cur |-> tab.cur, posts |-> out]}
      /\ ssTab' = [ssTab EXCEPT ![t] = Quiet]
      /\ UNCHANGED <<ssCache, ssBroken, ssLeft>>

(* cacheHTMLAsync, and the end of the entry's time. *)
PutPage(p) ==
  /\ p \in ssPuts /\ ssPuts' = ssPuts \ {p}
  /\ ssCache' = [ssCache EXCEPT ![p.url] = [cur |-> p.cur, posts |-> p.posts]]
  /\ UNCHANGED <<ssSeen, ssTab, ssShown, ssBroken, ssLeft>>
CacheGone(c) ==
  /\ ssCache[c] # None /\ ssCache' = [ssCache EXCEPT ![c] = None]
  /\ UNCHANGED <<ssSeen, ssTab, ssPuts, ssShown, ssBroken, ssLeft>>
SessionLost ==
  /\ ssLeft.faults > 0 /\ ssLeft' = [ssLeft EXCEPT !.faults = @ - 1]
  /\ ssSeen' = {} /\ ssBroken' = TRUE
  /\ UNCHANGED <<ssTab, ssCache, ssPuts, ssShown>>

SSInit ==
  /\ ssSeen = {} /\ ssTab = [t \in SSTabs |-> Quiet] /\ ssPuts = {}
  /\ ssCache = [u \in SSUrls |-> None] /\ ssShown = [c \in SearchPages |-> << >>]
  /\ ssBroken = FALSE /\ ssLeft = [asks |-> SSAsks, faults |-> SSFaults]
SSNext ==
  \/ \E t \in SSTabs : \/ LoadSeen(t) \/ SaveSeen(t)
                       \/ \E u \in SSUrls : Live(t, u) \/ FromArchive(t, u)
                       \/ \E c \in SSCursors : LoadMore(t, c)
                       \/ \E c \in SSOffsets : ArchiveMore(t, c)
  \/ \E u \in SSUrls : CacheHit(u) \/ CacheGone(u)
  \/ \E p \in ssPuts : PutPage(p)
  \/ SessionLost
SSSpec == SSInit /\ [][SSNext]_ssVars

-----------------------------------------------------------------------------
(* Nothing the visitor has in front of him, over all the pages of a search, *)
(* repeats content of another of its pages or of its own, as long as the    *)
(* renders did not overlap, the session was kept and no cached page is      *)
(* older than the last render of its cursor (search_session.go); the pages  *)
(* that share the first page's cursor count as one, the last shown; and     *)
(* folding loses nothing and keeps the best: every post of a listing is     *)
(* under exactly one survivor, once, and no member outscores its survivor   *)
(* (repost.go FoldReposts).                                                 *)
NoReplay ==
  ~ssBroken =>
    \A c, d \in SearchPages : \A i \in DOMAIN ssShown[c], j \in DOMAIN ssShown[d] :
      <<c, i>> # <<d, j>> => ~Matches(ssShown[c][i], ssShown[d][j])
FoldAccounts ==
  \A t \in SSTabs : LET l == ssTab[t].listing IN
    ssTab[t].at = "fetched" => Accounted(l, Clusters(l), Len(l))
PageAccounts == NoReplay /\ FoldAccounts

(* What every step keeps: of a listing that is under way the posts are      *)
(* Reddit's; and as long as nothing broke one request is under way and has  *)
(* the session as it is, no two entries are alike, and what is shown is     *)
(* entered, if it can be, and unlike the rest of its page.                  *)
TabsKept ==
  /\ ssTab = [t \in SSTabs |-> ssTab[t]] /\ ssShown = [c \in SearchPages |-> ssShown[c]]
  /\ \A t \in SSTabs : LET tab == ssTab[t] IN
       tab.at # "idle" => /\ tab.cur \in SearchPages /\ tab.listing \in SSListings
                          /\ DOMAIN tab.posts \subseteq Int
                          /\ \A i \in DOMAIN tab.posts : tab.posts[i] \in FoundPosts
OneAsks ==
  \A t \in SSTabs :
    /\ ssTab[t].at # "idle" => \A u \in SSTabs \ {t} : ssTab[u].at = "idle"
    /\ ssTab[t].at = "loaded" => ssTab[t].seen = ssSeen
EntriesApart ==
  /\ ssSeen \subseteq [cur : SearchPages, post : FoundPosts]
  /\ \A e, f \in ssSeen : e # f => ~Matches(e.post, f.post)
ShownEntered ==
  \A c \in SearchPages : \A i \in DOMAIN ssShown[c] :
    /\ Terse(ssShown[c][i]) \/ [cur |-> c, post |-> ssShown[c][i]] \in ssSeen
    /\ \A j \in DOMAIN ssShown[c] : i # j => ~Matches(ssShown[c][i], ssShown[c][j])
SearchKept ==
  TabsKept /\ ssBroken \in BOOLEAN /\ (~ssBroken => OneAsks /\ EntriesApart /\ ShownEntered)
=============================================================================
