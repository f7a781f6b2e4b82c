------------------------------ MODULE Listings ------------------------------
(***************************************************************************)
(* The pages that list posts (handler/subreddit.go, archive.go, user.go,    *)
(* cache_key.go): a subreddit's page goes from the cache to Reddit, where   *)
(* equal fetches are one, to the archive; the front page, the hub and the   *)
(* archive's own pages read the archive only.  RenderAndCache pages are cached    *)
(* under their address and the visitor's preferences, off the request, and  *)
(* a save of the settings flushes them all.                                 *)
(***************************************************************************)
EXTENDS ArchiveQueries

CONSTANTS LSRows,       \* rows the archive holds or may come to hold
          LSVisitors,   \* requests at once
          LSPages,      \* addresses: [sub, sort, t]
          LSQueries,    \* boxes of the hub
          LSLimit, LSScan,   \* archivePageSize and archiveCacheScoreScanCap, made small
          LSHeld,       \* rows whose media are on disk and score enough
          LSAsks, LSSaves    \* bounds: requests and saves of the settings
ASSUME LSAssumption ==
  /\ IsFiniteSet(LSRows) /\ \A p \in LSRows : p.score \in Int /\ p.created \in Int /\ p.seen \in Int
  /\ LSLimit \in Nat \ {0} /\ LSAsks \in Nat /\ LSSaves \in Nat

VARIABLES lsArch,     \* the rows of the archive
          lsShow,     \* show_nsfw of the site
          lsUp,       \* whether Reddit may be and can be reached
          lsReq,      \* per request: its page, its preferences, how far it is
          lsFlight,   \* upstreamFlight: the fetch of each address under way
          lsCache, lsPuts,   \* rendered pages, and those on their way
          lsFlush,    \* a save that has not flushed the pages yet
          lsLeft
lsVars == <<lsArch, lsShow, lsUp, lsReq, lsFlight, lsCache, lsPuts, lsFlush, lsLeft>>

Nothing == [at |-> "idle", page |-> None, show |-> FALSE, got |-> {}]

\* Mutant: the key does not tell preferences apart.
KeyByAddress(page, show) == <<page.sub, page.sort, TRUE>>
(* htmlCacheKey of serveSubreddit: the path, the cursors and prefsCacheTag; *)
(* the timeframe is not in it.                                              *)
HtmlCacheKey(page, show) == <<page.sub, page.sort, show>>

LSTypeOK ==
  /\ lsArch \subseteq LSRows /\ lsShow \in BOOLEAN /\ lsUp \in BOOLEAN /\ lsFlush \in BOOLEAN
  /\ lsReq \in [LSVisitors -> [at : {"idle", "reads", "waits", "fetched", "failed", "shown"},
                              page : LSPages \cup {None}, show : BOOLEAN, got : SUBSET LSRows]]
  /\ lsFlight \in [LSPages -> SUBSET LSVisitors]
  /\ \A c \in lsCache \cup lsPuts : c.posts \in SUBSET LSRows
  /\ lsLeft \in [asks : 0 .. LSAsks, saves : 0 .. LSSaves]

(* filterNSFW, the last word of every page that lists posts. *)
FilterNSFW(posts, show) == {p \in posts : show \/ ~p.nsfw}
Shown(v, posts) ==
  lsReq' = [lsReq EXCEPT ![v].at = "shown", ![v].got = FilterNSFW(posts, lsReq[v].show)]

-----------------------------------------------------------------------------
(* readPreferences, at the start of a request. *)
OpenListing(v, page) ==
  /\ lsReq[v].at \in {"idle", "shown"} /\ lsLeft.asks > 0
  /\ lsReq' = [lsReq EXCEPT ![v] = [Nothing EXCEPT !.at = "reads", !.page = page, !.show = lsShow]]
  /\ lsLeft' = [lsLeft EXCEPT !.asks = @ - 1]
  /\ UNCHANGED <<lsArch, lsShow, lsUp, lsFlight, lsCache, lsPuts, lsFlush>>

ListingKey(v) == HtmlCacheKey(lsReq[v].page, lsReq[v].show)
ServeCached(v) ==
  /\ lsReq[v].at = "reads" /\ \E c \in lsCache : c.key = ListingKey(v)
  /\ LET c == CHOOSE x \in lsCache : x.key = ListingKey(v)
     IN  lsReq' = [lsReq EXCEPT ![v].at = "shown", ![v].got = c.posts]
  /\ UNCHANGED <<lsArch, lsShow, lsUp, lsFlight, lsCache, lsPuts, lsFlush, lsLeft>>

(* Not cached: to Reddit as the first who asks for this listing, ... *)
FetchListing(v) ==
  /\ lsReq[v].at = "reads" /\ ~\E c \in lsCache : c.key = ListingKey(v)
  /\ lsUp
  /\ lsReq' = [lsReq EXCEPT ![v].at = "waits"]
  /\ lsFlight' = [lsFlight EXCEPT ![lsReq[v].page] = @ \cup {v}]
  /\ UNCHANGED <<lsArch, lsShow, lsUp, lsCache, lsPuts, lsFlush, lsLeft>>
(* ... or to the archive when the gate is shut. *)
Degrade(v) ==
  /\ lsReq[v].at = "reads" /\ ~\E c \in lsCache : c.key = ListingKey(v)
  /\ ~lsUp /\ lsReq' = [lsReq EXCEPT ![v].at = "failed"]
  /\ UNCHANGED <<lsArch, lsShow, lsUp, lsFlight, lsCache, lsPuts, lsFlush, lsLeft>>

(* The answer of a fetch is that of all who wait for it, and is archived.   *)
LandListing(page, posts) ==
  /\ lsFlight[page] # {} /\ lsUp
  /\ lsReq' = [v \in LSVisitors |->
                IF v \in lsFlight[page] THEN [lsReq[v] EXCEPT !.at = "fetched", !.got = posts]
                ELSE lsReq[v]]
  /\ lsFlight' = [lsFlight EXCEPT ![page] = {}]
  /\ lsArch' = lsArch \cup posts
  /\ UNCHANGED <<lsShow, lsUp, lsCache, lsPuts, lsFlush, lsLeft>>
ListingFails(page) ==
  /\ lsFlight[page] # {}
  /\ lsReq' = [v \in LSVisitors |->
                IF v \in lsFlight[page] THEN [lsReq[v] EXCEPT !.at = "failed"] ELSE lsReq[v]]
  /\ lsFlight' = [lsFlight EXCEPT ![page] = {}]
  /\ UNCHANGED <<lsArch, lsShow, lsUp, lsCache, lsPuts, lsFlush, lsLeft>>

RenderAndCache(v, posts) ==
  /\ Shown(v, posts)
  /\ lsPuts' = lsPuts \cup {[key |-> ListingKey(v), posts |-> FilterNSFW(posts, lsReq[v].show)]}
Render(v) ==
  /\ lsReq[v].at = "fetched" /\ RenderAndCache(v, lsReq[v].got)
  /\ UNCHANGED <<lsArch, lsShow, lsUp, lsFlight, lsCache, lsFlush, lsLeft>>
RenderFromArchive(v) ==
  /\ lsReq[v].at = "failed"
  /\ LET posts == ListBySubreddit(lsArch, lsReq[v].page.sub, LSLimit, 0, lsReq[v].show)
     IN  IF posts # {} THEN RenderAndCache(v, posts)
         ELSE lsReq' = [lsReq EXCEPT ![v] = Nothing] /\ UNCHANGED lsPuts
  /\ UNCHANGED <<lsArch, lsShow, lsUp, lsFlight, lsCache, lsFlush, lsLeft>>

(* The pages of the archive: neither fetched nor cached. *)
ArchivePage(v, posts) ==
  /\ lsReq[v].at \in {"idle", "shown"} /\ lsLeft.asks > 0
  /\ lsLeft' = [lsLeft EXCEPT !.asks = @ - 1]
  /\ lsReq' = [lsReq EXCEPT ![v] = [Nothing EXCEPT !.at = "shown", !.show = lsShow,
                                                   !.got = FilterNSFW(posts, lsShow)]]
  /\ UNCHANGED <<lsArch, lsShow, lsUp, lsFlight, lsCache, lsPuts, lsFlush>>
Sorts == {"new", "top", "all", "new_archive", "notorious"}
FrontPage(v, q, sort) ==
  ArchivePage(v, ListHomepage(lsArch, Dominated(Opts(q), lsShow), sort, 0, LSLimit, 0))
HubSearch(v, q, sort) ==
  ArchivePage(v, ArchiveSearch(lsArch, Dominated(Opts(q), lsShow), sort, LSLimit, 0).page)
ArchiveSub(v, sub) ==
  ArchivePage(v, ListBySubreddit(lsArch, sub, LSLimit, 0, lsShow))

-----------------------------------------------------------------------------
CachePut(p) ==
  /\ p \in lsPuts /\ lsPuts' = lsPuts \ {p}
  /\ lsCache' = {c \in lsCache : c.key # p.key} \cup {p}
  /\ UNCHANGED <<lsArch, lsShow, lsUp, lsReq, lsFlight, lsFlush, lsLeft>>
CacheExpires(c) ==
  /\ c \in lsCache /\ lsCache' = lsCache \ {c}
  /\ UNCHANGED <<lsArch, lsShow, lsUp, lsReq, lsFlight, lsPuts, lsFlush, lsLeft>>

(* handleSettingsSave: the new default, then InvalidateAllHTML, which a     *)
(* page on its way to the cache outlives.                                    *)
SaveShown ==
  /\ lsLeft.saves > 0 /\ lsLeft' = [lsLeft EXCEPT !.saves = @ - 1]
  /\ lsShow' = ~lsShow /\ lsFlush' = TRUE
  /\ UNCHANGED <<lsArch, lsUp, lsReq, lsFlight, lsCache, lsPuts>>
InvalidateAllHTML ==
  /\ lsFlush /\ lsFlush' = FALSE /\ lsCache' = {}
  /\ UNCHANGED <<lsArch, lsShow, lsUp, lsReq, lsFlight, lsPuts, lsLeft>>
Reach == /\ lsUp' = ~lsUp
         /\ UNCHANGED <<lsArch, lsShow, lsReq, lsFlight, lsCache, lsPuts, lsFlush, lsLeft>>

LSInit ==
  /\ lsArch = {} /\ lsShow \in BOOLEAN /\ lsUp = TRUE
  /\ lsReq = [v \in LSVisitors |-> Nothing] /\ lsFlight = [p \in LSPages |-> {}]
  /\ lsCache = {} /\ lsPuts = {} /\ lsFlush = FALSE
  /\ lsLeft = [asks |-> LSAsks, saves |-> LSSaves]
LSNext ==
  \/ \E v \in LSVisitors :
       \/ \E p \in LSPages : OpenListing(v, p)
       \/ ServeCached(v) \/ FetchListing(v) \/ Degrade(v) \/ Render(v) \/ RenderFromArchive(v)
       \/ \E q \in LSQueries, sort \in Sorts : FrontPage(v, q, sort) \/ HubSearch(v, q, sort)
       \/ \E s \in {p.sub : p \in LSPages} : ArchiveSub(v, s)
  \/ \E p \in LSPages : \/ ListingFails(p)
                        \/ \E n \in 1 .. Cardinality(LSRows) :
                             LandListing(p, OnPage(InSub(LSRows, p.sub, TRUE), p.sort, n, 0))
  \/ \E p \in lsPuts : CachePut(p)
  \/ \E c \in lsCache : CacheExpires(c)
  \/ SaveShown \/ InvalidateAllHTML \/ Reach
LSSpec == LSInit /\ [][LSNext]_lsVars

-----------------------------------------------------------------------------
(* No page that lists posts shows an NSFW one to a visitor whose            *)
(* preferences, as the request read them, hide them: not from the cache,    *)
(* whatever was rendered for others or was on its way there when the        *)
(* settings were saved, not from a fetch shared with someone who shows      *)
(* them, not from the archive (render/engine.go filterNSFW, cache_key.go).  *)
NSFWHidden ==
  \A v \in LSVisitors :
    lsReq[v].at = "shown" /\ ~lsReq[v].show => \A p \in lsReq[v].got : ~p.nsfw

(* What every step keeps: a rendered page, in the cache or on its way       *)
(* there, hides what its key says that it hides.                            *)
HiddenStays ==
  /\ LSTypeOK /\ NSFWHidden
  /\ \A c \in lsCache \cup lsPuts : ~c.key[3] => \A p \in c.posts : ~p.nsfw

(* The pages of a search of the archive hold every cluster of matching rows *)
(* once, none more than fits, and together as many as the count beside them *)
(* says, though page and count are two statements, while no two rows sort   *)
(* alike (store/post.go ArchiveSearch; its orders have no tie-breaker); a   *)
(* search by the score of the media counts no more than that, and shows     *)
(* only what is held.                                                       *)
NoTies(rows, sort) == \A p, q \in rows : p # q => Before(sort, p, q) \/ Before(sort, q, p)
Partitions(rows, o, sort) ==
  LET answers == {[no |-> i, said |-> ArchiveSearch(rows, o, sort, LSLimit, i * LSLimit)] :
                    i \in 0 .. Cardinality(rows)}
      shown == UNION {a.said.page : a \in answers}
      held  == CacheScoreSearch(rows, o, sort, LSScan, LSHeld, LSLimit, 0)
  IN  /\ \A a, b \in answers : a.no # b.no => a.said.page \cap b.said.page = {}
      /\ \A a \in answers : /\ Cardinality(a.said.page) <= LSLimit
                            /\ a.said.total = Cardinality(shown)
                            /\ held.total <= a.said.total
      /\ \A p \in rows : Satisfies(p, o) => \E r \in shown : r = p \/ (p.key # None /\ r.key = p.key)
      /\ \A p \in held.page : p.id \in LSHeld
PagesPartition ==
  lsArch # {} =>
    \A q \in LSQueries, sort \in {"new", "top"} :
      NoTies(lsArch, sort) => Partitions(lsArch, Opts(q), sort)
=============================================================================
