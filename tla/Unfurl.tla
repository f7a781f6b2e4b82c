------------------------------- MODULE Unfurl -------------------------------
(***************************************************************************)
(* Link previews (unfurl/, store/link_preview.go, handler/unfurl.go): a    *)
(* reader's browser asks for one link; a row of link_preview answers, or   *)
(* the one fetch of that link that is out, or a fetch of the reader's own, *)
(* under the reader's own request and in one of a few slots.  What fails   *)
(* is remembered for an hour, what succeeds for two weeks.                 *)
(*                                                                         *)
(* A page is what its <head> says: whether there is a title, which image   *)
(* and which video.  Texts and URLs are left out.                          *)
(***************************************************************************)
EXTENDS Integers, FiniteSets

CONSTANTS
  UFReaders, UFLinks,
  UFPublic,   \* the links that isPublicHTTPURL lets through
  UFPages,    \* pages a host or the Jina reader can answer with
  UFJina,     \* is the Jina fallback on?
  UFSlots,    \* outbound fetches at a time (3)
  UFVisits    \* bound: requests of a reader

ASSUME UFAssumption == "-" \notin UFReaders \cup UFLinks

VARIABLES
  ufRows,    \* link_preview: "none" (or past two weeks), "ok", "failed", "stale" (failed, past the hour)
  ufReader   \* the request of each reader
ufVars == <<ufRows, ufReader>>

NoPage == [title |-> FALSE, image |-> "none", video |-> "none"]
Fresh == [at |-> "out", link |-> "-", leader |-> "-", gone |-> FALSE, row |-> "-",
          got |-> "-", blind |-> FALSE, reply |-> "-", visits |-> 0]

UFInit == /\ ufRows = [k \in UFLinks |-> "none"]
          /\ ufReader = [c \in UFReaders |-> Fresh]

(***************************************************************************)
(* The card of a page.                                                     *)
(***************************************************************************)

\* directVideo: an embed page is no video.
DirectVideo(page) == IF page.video = "file" THEN "file" ELSE "none"
\* isWideImage: square avatars never, repository cards always, others by size.
Wide(page) == page.image \in {"repoCard", "landscape"}
Card(page) == [title |-> page.title, image |-> page.image # "none",
               wide |-> Wide(page), video |-> DirectVideo(page) # "none"]
Usable(card) == card.title \/ card.image \/ card.video

Set(c, r) == ufReader' = [ufReader EXCEPT ![c] = r]
R(c) == ufReader[c]
Fetching == {c \in UFReaders : R(c).at \in {"og", "jina", "save"}}
Leading == {"recheck", "slot", "og", "jina", "save", "land"}
LeaderOf(k) == {c \in UFReaders : R(c).at \in Leading /\ R(c).link = k}

(***************************************************************************)
(* handleUnfurl and ResolveOne.                                            *)
(***************************************************************************)
HandleUnfurl(c) == \E k \in UFLinks :
    /\ R(c).at = "out" /\ R(c).visits < UFVisits
    /\ Set(c, [R(c) EXCEPT !.at = "read", !.link = k, !.gone = FALSE, !.blind = FALSE,
                           !.reply = "-", !.visits = @ + 1])
    /\ UNCHANGED ufRows

\* The reader's connection closes, said where the request would find out.
Leave(c) == /\ R(c).at \in {"wait", "slot", "og", "jina", "landed"} /\ ~R(c).gone
            /\ Set(c, [R(c) EXCEPT !.gone = TRUE])
            /\ UNCHANGED ufRows

\* Only "ok" is rendered, and only "ok" may be cached by the browser.
Rendered(r, row) == [r EXCEPT !.at = "out", !.reply = IF row = "ok" THEN "ok" ELSE "failed"]

\* A failed row answers for an hour, no longer; a read that fails is a miss.
ReadRow(c) ==
    /\ R(c).at = "read"
    /\ \/ Set(c, IF ufRows[R(c).link] \in {"ok", "failed"}
                 THEN Rendered(R(c), ufRows[R(c).link])
                 ELSE [R(c) EXCEPT !.at = "ask"])
       \/ Set(c, [R(c) EXCEPT !.at = "ask"])
    /\ UNCHANGED ufRows

\* Mutant: the flight that is out is not looked for.
FetchOneAlone(c) ==
    /\ R(c).at = "ask"
    /\ Set(c, [R(c) EXCEPT !.at = "recheck", !.got = "-"])
    /\ UNCHANGED ufRows

\* fetchOne: aboard the flight that is out, or the leader of one's own.
FetchOne(c) ==
    /\ R(c).at = "ask"
    /\ IF LeaderOf(R(c).link) # {}
       THEN \E l \in LeaderOf(R(c).link) :
                Set(c, [R(c) EXCEPT !.at = "wait", !.leader = l, !.got = "-"])
       ELSE Set(c, [R(c) EXCEPT !.at = "recheck", !.got = "-"])
    /\ UNCHANGED ufRows

GiveUpWait(c) == /\ R(c).at = "wait" /\ R(c).gone
                 /\ Set(c, Rendered(R(c), "nil"))
                 /\ UNCHANGED ufRows

\* The leader looks again: a flight may have landed since its miss.
Recheck(c) ==
    /\ R(c).at = "recheck"
    /\ \/ Set(c, IF ufRows[R(c).link] = "ok"
                 THEN [R(c) EXCEPT !.at = "land", !.row = "ok"]
                 ELSE [R(c) EXCEPT !.at = "slot"])
       \/ Set(c, [R(c) EXCEPT !.at = "slot", !.blind = TRUE])
    /\ UNCHANGED ufRows

(***************************************************************************)
(* doFetch and the fetcher, under the leader's request.                    *)
(***************************************************************************)
TakeSlot(c) ==
    /\ R(c).at = "slot"
    /\ \/ /\ Cardinality(Fetching) < UFSlots
          /\ Set(c, [R(c) EXCEPT !.at = IF R(c).link \in UFPublic THEN "og" ELSE "save", !.row = "failed"])
       \/ R(c).gone /\ Set(c, [R(c) EXCEPT !.at = "land", !.row = "nil"])
    /\ UNCHANGED ufRows

\* The mirror or the host itself; with nothing usable, the Jina reader.  A
\* request whose reader is gone gets nothing from either.
Got(c, page) == IF Usable(Card(page)) THEN "ok" ELSE "failed"
Fetch(c) ==
    \E page \in IF R(c).gone THEN {NoPage} ELSE UFPages \cup {NoPage} :
        /\ \/ R(c).at = "og" /\ Set(c, [R(c) EXCEPT !.row = Got(c, page),
                 !.at = IF UFJina /\ Got(c, page) = "failed" THEN "jina" ELSE "save"])
           \/ R(c).at = "jina" /\ Set(c, [R(c) EXCEPT !.row = Got(c, page), !.at = "save"])
        /\ UNCHANGED ufRows

\* Upsert is not part of the reader's request: a failure that is only the
\* reader's leaving is remembered too.
Save(c) ==
    /\ R(c).at = "save"
    /\ Set(c, [R(c) EXCEPT !.at = "land"])
    /\ ufRows' \in {ufRows, [ufRows EXCEPT ![R(c).link] = R(c).row]}

\* The flight leaves the map and everybody aboard has its row.
LandFlight(c) ==
    /\ R(c).at = "land"
    /\ ufReader' = [d \in UFReaders |->
          IF d = c THEN [Rendered(R(c), R(c).row) EXCEPT !.got = R(c).row]
          ELSE IF R(d).at = "wait" /\ R(d).leader = c
          THEN [R(d) EXCEPT !.at = "landed", !.row = R(c).row, !.got = R(c).row]
          ELSE R(d)]
    /\ UNCHANGED ufRows

\* A follower returns the flight's row, or nothing when its own reader left.
Follow(c) == /\ R(c).at = "landed"
             /\ \/ Set(c, Rendered(R(c), R(c).row))
                \/ R(c).gone /\ Set(c, Rendered(R(c), "nil"))
             /\ UNCHANGED ufRows

\* An hour, or two weeks, pass over a row.
Age(k) == /\ \/ ufRows[k] = "failed" /\ ufRows' = [ufRows EXCEPT ![k] = "stale"]
             \/ ufRows[k] \in {"ok", "stale"} /\ ufRows' = [ufRows EXCEPT ![k] = "none"]
          /\ UNCHANGED ufReader

Step(c) == \/ ReadRow(c) \/ FetchOne(c) \/ GiveUpWait(c) \/ Recheck(c) \/ TakeSlot(c)
           \/ Fetch(c) \/ Save(c) \/ LandFlight(c) \/ Follow(c)
UFNext == \/ \E c \in UFReaders : HandleUnfurl(c) \/ Leave(c) \/ Step(c)
          \/ \E k \in UFLinks : Age(k)

\* Fetches are bounded by perFetch, and a select that is ready is taken.
UFSpec == UFInit /\ [][UFNext]_ufVars /\ \A c \in UFReaders : WF_ufVars(Step(c))

PreviewRequest ==
    [at : {"out", "read", "ask", "wait", "landed"} \cup Leading, link : UFLinks \cup {"-"},
     leader : UFReaders \cup {"-"}, gone : BOOLEAN, row : {"-", "ok", "failed", "nil"},
     got : {"-", "ok", "failed", "nil"}, blind : BOOLEAN, reply : {"-", "ok", "failed"}, visits : Nat]
UFTypeOK == /\ ufRows \in [UFLinks -> {"none", "ok", "failed", "stale"}]
            /\ ufReader \in [UFReaders -> PreviewRequest]

(***************************************************************************)
(* Properties.                                                             *)
(***************************************************************************)

\* Flights: readers of one link coalesce as SingleFlight promises.  One
\* flight per link at a time, its leader is one of those aboard, everybody
\* aboard gets its row, and nobody gets the row of a flight they were not on.
\* (service.go fetchOne)
LeaderIn(who) == IF who = {} THEN "-" ELSE CHOOSE c \in who : TRUE
AboardOf(k) == {c \in UFReaders : R(c).link = k /\ R(c).at \in Leading \cup {"wait"}}
Flights == INSTANCE SingleFlight WITH
    Callers <- UFReaders, Keys <- UFLinks, Results <- {"ok", "failed", "nil"}, Nobody <- "-",
    leads <- [k \in UFLinks |-> LeaderIn(LeaderOf(k))],
    aboard <- [k \in UFLinks |-> AboardOf(k)],
    result <- [c \in UFReaders |-> R(c).got]
UnfurlCoalesces == Flights!Spec

\* What every step keeps: a request is about a link, one reader at most leads
\* for a link, who waits has a leader that flies for the same link, and who is
\* about to save or to land has a row.
Boarded ==
    /\ UFTypeOK
    /\ \A c \in UFReaders :
          /\ R(c).at # "out" => R(c).link \in UFLinks
          /\ R(c).at = "wait" => R(c).leader \in LeaderOf(R(c).link)
          /\ R(c).at \in {"save", "land", "landed"} => R(c).row \in {"ok", "failed", "nil"}
          /\ R(c).at = "save" => R(c).row # "nil"
    /\ \A k \in UFLinks : \A c, d \in LeaderOf(k) : c = d

=============================================================================
