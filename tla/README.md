# Redmemo: specifications, model checking and proofs

Redmemo is a Go program that stands between a reader and Reddit. A page is served by a chain of
fallbacks: the HTML page cache in Redis, then Reddit's API (under the quota of one OAuth session
and a cap on total traffic), then the archive in PostgreSQL, then an apology page. Media goes
through a disk cache addressed by content. A scheduler ("natural prefetch") crawls a list of
subreddits in the background, with what the readers leave of the quota.

This directory specifies, in TLA+, the parts of it that run concurrently, survive crashes or have to wait for
each other, and the parsers, queries and tables whose output another part has to read back. Each specification
is checked by TLC on small instances, and the properties that matter most are proved for every value of the
constants with the TLA+ proof system. `PROJECT.json` lists which lines of the source each definition models.

Contents: [1 the system](#1-the-system) · [2 the modules](#2-the-modules) ·
[3 what is checked](#3-what-is-checked) · [4 what is proved](#4-what-is-proved) ·
[5 disagreements found](#5-disagreements-between-code-and-documentation) ·
[6 what is not modelled](#6-what-is-not-modelled) · [7 plan](#7-plan) · [8 running it](#8-running-it)

## 1 The system

One process (`cmd/redmemo/main.go`), Redis, PostgreSQL and, for media, a directory that nginx may
serve from. Everything below happens in goroutines of the one process; nothing in the code allows
for a second one.

| Component | Source | State | Operations |
|---|---|---|---|
| Media index, evictor | `store/media*.go`, `media/eviction.go`, `store/keyedmutex.go` | `media_url` (key → content), `media_content`, files, per-hash locks | publish (rename, Save in a transaction), evict, delete, startup sweep |
| Media fetch path | `media/proxy.go`, `store/media_unavailable.go` | `dlInflight`, `fetchSem`, 404 memo, ledger of dead media | request, download, strike, revive |
| Muxing | `media/mux.go` | `muxInflight`, `audio_state` | mux video and audio, L5 retries, silent preview |
| Bandwidth | `media/prio.go`, `media/bwlimit.go` | registered writers, token buckets | register, wait for the top priority, spend |
| Dispatch loop, L1–L5 | `prefetch/scheduler.go`, `prefetch/icon.go` | a channel of one item, cursors, `media_done` | submit, wait for budget, pause for visitors, walk a listing, download media, fetch threads, icons |
| Waves | `prefetch/scheduler.go`, `store/prefetch_runs.go` | the run ledger, drivers | plan a cycle, fire a wave, supersede, revive, reconcile |
| OAuth holder | `oauth/holder.go`, `store/token.go` | the active token, `refreshMu`, backoff, rows, `tokenReady` | mint, install, count responses, kick, restore |
| HR rate limit | `hrlimit/hrlimit.go`, `handler/hr_gate.go` | counters and cooldowns of three tumbling windows in Redis, probe backoff | Admit, RecordUpstream, RedisDownReset |
| Post pages and archive | `handler/post.go`, `archive/*.go`, `store/post.go`, `store/comment.go`, `handler/singleflight.go` | posts, comment snapshots, flights, cached pages | view, refresh, load more, prefetch; archive, merge, mark removed |
| Listings, archive pages | `handler/subreddit.go`, `archive.go`, `user.go`, `cache_key.go`, `store/post.go` | rendered pages in Redis by address and preferences, flights of equal fetches | fetch, share, cache off the request, flush on a save; query the archive |
| Search | `handler/search*.go`, `searchquery`, `archive/control.go`, `reddit/repost.go` | per visitor, what the session has been shown | parse the box, fold reposts, suppress what was shown, live or archive pages |
| Random walk | `handler/random*.go`, `store/post.go` | per set of filters, a cursor in Redis; `shuffle_key` of each post | draw a page, serve, end a sweep, reshuffle |
| Media of a post | `reddit/parser.go`, `reddit/url.go`, `render`, L2 | the payload in the archive | parse, rewrite addresses, keep, show |
| Settings | `handler/settings.go`, `store/settings.go`, `legacy`, `config` | the settings table with shadow rows, in-memory defaults | rebuild at startup, save, normalise the forms |
| Unlock gate | `handler/auth.go`, `store/totp.go`, `store/trusted_device.go` | enrolment, sessions, trusted devices, used codes | enrol, unlock, lock out, trust, revoke, reset |
| Bucket schedule, subreddit ledger | `prefetch/scheduler.go`, `store/substatus.go`, `sub_icon.go` | anchors and cursors in the settings table; status, failures, NSFW mark per name | start rounds, resume after a restart; record failures and successes |
| Streams, pictures | `media/proxy.go`, `render/static/imageReload.js` | a body under way; the slot of a picture in a page | fetch in Range chunks, retry, resume; poll, reload, give up |
| Reddit client, caches | `reddit/client.go`, `reddit/etag.go`, `cache/cache.go` | ETag LRU, page cache | request, retry once, redirect, invalidate |
| Link previews | `unfurl/*.go` | flights, slots, preview rows | resolve, fetch, remember failures |
| Schema | `store/migrate.go` | the version row, an advisory lock | upgrade step by step, at every start |

How they interact:

* A handler asks `hrlimit.Admit`, takes the token (`holder.Token`), calls Reddit, reports the
  response to the holder (`OnRequestComplete`, `NotifyUnauthorized`), counts the call
  (`RecordUpstream`), renders, puts the page in the cache in a goroutine and archives in another.
* The prefetcher uses the same client, holder and archiver. Its calls are counted but not gated. It
  reads the holder's remaining quota and leaves a reserve; a handler tells it about a visitor
  through `NotifyUserRequest`.
* L1 archives a listing and opens a cycle of L2 waves (media) and one of L3 waves (threads); L3
  re-arms L2 for media in comments; L2 calls the same `ensureCached` as visitors do.
* The evictor removes files under the publishers' per-hash lock; L2 and the handlers test the disk.
* A settings save changes the table. The scheduler's coordinator and reconcile loops notice by
  comparing signatures; the archiver's filter is swapped in place; all pages are invalidated.
* Redis and the two databases fail independently of the process; main cancels one root context and
  returns when the listener closes, without waiting for goroutines.

What is hard here, and what each part promises:

| Component | Hard behaviour | Correct means |
|---|---|---|
| Media index | a READ COMMITTED transaction against an evictor that works in two steps, against deletes without the lock; crashes between rename and Save | a row that names a file names one that exists; a bigger copy gives way only where two raw URLs of its key race; the cap is restored; no deadlock of row locks |
| Media fetch | waiters of a leader that is about to leave, siblings that write the ledger between check and use | one download per URL; nobody waits for ever; a file that Reddit refuses comes to rest |
| Waves | three producers of drivers (round, reconcile, restart) on one ledger | a wave is fetched at most once, in turn; under a depth that is off one wave of L3 per driver may still begin, no more; each planned wave settles |
| Token holder | five ways to start a refresh, responses to a token that was replaced, restarts among stale rows | the newest token wins, installs are spaced, an outage ends |
| HR rate limit | scripts that run after the window in which their clock was read, outages, contexts that end | the cap is exceeded by what the requests under way may still call; a full window of silence after a trip; the gate reopens |
| Posts | removals upstream against archiver goroutines and a page cache that are behind | a good copy is never overwritten by a removed one; the verdict is sticky; a comment that every merge under way has read stays; every view is answered |
| Bandwidth, audio, streams | a writer at the top that stops reading; several muxes of one video; bodies that break off with an unknown total | every registration ends; a verdict is about the file it is kept with; what is passed on as whole is whole |
| Settings, forms, search box | three writers of one key whose rows are written one by one; texts parsed by one parser and read back by another | the last vote wins; reading back what was written gives the same |
| Listings, search, random | pages shared by flights and caches while preferences change; pages that overlap in a session; draws while the keys change | nobody is shown what his preferences hide; no page repeats another; a sweep hands out every post once |
| Unlock gate, ledger, schema | interruptions between two rows; failures, verdicts and saves on one row; two instances that start at once | the owner always gets in; a code opens once, as it was typed; an instance serves on the schema it needs |
| Dispatch loop | submitters that are cancelled while the loop holds their item; budgets spent by others | owner and item agree; cursors pass no page that was not fetched and handed to the archive; a done post has its media; every submit returns |

`PROJECT.json` lists every hazard with its line and the properties that watch it.

## 2 The modules

Each module has one action per step that another goroutine can see: a critical section, a
statement of a transaction, a call to a database or to Reddit. Waiting is a step not taken yet.
Time, where durations matter, is a tick, and every deadline is the number of ticks left. Payloads
are versions or members of small sets. Comments in the modules name the functions.

### MediaIndex
`content`, `url` and `disk` are the two tables and the files under `root_path`; `hashLock` is
`LockHash`. A publisher (one per raw URL, since `dlInflight` lets one run) goes through
`Stage`, `LockForPublish`, `Place` (the rename), and then Save statement by statement: read the
mapping, upsert the content (its row lock), upsert or keep the URL, release the replaced content,
commit. What a transaction writes is seen by others at its commit. The evictor's `RunOnce` is the
walk or the estimate, the choice of a batch, and lock, remove, mark for each file. Deleters are
`purge` and `dropLegacyPlainRow`; the sweep runs after a start. `Crash` loses locks, transactions
and places, and keeps tables and disk. `faults` bounds crashes and failing statements.

### MediaFetch
A caller is a goroutine in `ensureCached`: disk, memo, ledger, join or lead, slot, download,
strike, unmap, close. `inflight` is `dlInflight`. A download ends well, in a 404/410, or in a
failure that `RecordFailure` counts; `Revive` is the visitor who opens the post again.

### PrefetchWaves
`rows` is `prefetch_runs`, `go` the goroutines that plan or drive waves, `loop` the coordinator and bucket loop,
`seen` the memory of `reconcileLoop`, `snap` what `/debug` shows. A round ends in `FetchEnds`, which opens a
cycle per layer; a driver plans, sleeps, marks and fires. Revived drivers take the rows a former process or a
cancelled driver left. Before a wave a driver looks at the depth (`Looks`, `Rechecks`), takes its row (`Takes`,
`Marks`) and begins (`Fires`, `FiresRevived`), in steps of their own, so that a save may come between any two;
`past` is the history of who had looked before the last one. `Restart(hangover)` keeps the rows and makes an
arbitrary set of cycles count as stale.

### TokenHolder
`active`, `ready`, `since`, `fails` and `held` are the fields of the holder; `work` is where each refresher is
(the loop, and the goroutines kicked off by a missing token, a 401 or a low count); `work` also has how long ago
an installation took its date, since the cooldown runs from the date and not from the moment the token is in
place; `sent` are the requests under way with the token they carry; `rows` and `writes` are `oauth_tokens` and
the `UpdateToken` goroutines. A crash keeps `rows`; a start restores one or begins empty.

### PostArchive
One post with its comments at Reddit (`upstream`), its row, its latest comment snapshot (`tree`), its
page in the cache. A request is a handler (`view`, `refresh`, `more`, `replies`) or a prefetch
fetch (`listing`, `thread`) and carries an archiver goroutine. `leader` is the single flight of
views. Merging of snapshots is an operator on functions from comments to node kinds
(`alive`, `tomb`, `kept`). Edits, removals, approvals and page expiry are the environment's.

### HRLimit
`cur`, `prev`, `cooldown` are the Redis keys of each tier, `backoff` and `probe` the fields of `Manager`. A
caller's script runs up to `Lag` ticks after its clock was read, which may be in the next window. A request asks
`Admit` once and goes on to up to `Calls` calls (a subreddit's posts, then its about with a token and without
one), each recorded by itself (`GoesOn`, `spent`). `Outage` takes Redis away and gives it back. `mine`, `was`
and `held` are history variables for the visitors' share and the silence owed after a trip.

### Dispatcher
`queue`, `phase` and `item` are the channel and the dispatch loop; a worker is an L1 bucket loop,
an L2 wave, an L3 wave or an L4 icon batch, with the scope of its context (bucket, root or none).
A worker whose context ends leaves its item behind: it then belongs to `Nobody` and still runs.
`page` and `saved` are the cursor in memory and in the settings table; `mediaDone` and the images on
disk (`cached`) are what L2 sees. Visitors spend calls and fetch images; saves, shutdowns, restarts and the evictor
interfere. PrefetchWaves decides *which* waves run, Dispatcher what one of them *does*; L5
submits in the same way as L2.

### BandwidthGate, RangedStream, ImageReload
`BandwidthGate` is `prioGate` and the token bucket: a writer registers, waits while a better one is
registered, parks on the gate's channel, takes tokens, writes a chunk, and may be cancelled between
two reads. A channel is its number, so that a waiter parked on a channel that was already closed is
seen. `RangedStream` is one body over `streamRangedTo`: opens, retries, resumes, a known or unknown
total, a refused chunk, and what `reverseProxy` and `Download` make of the result. `ImageReload` is
one `<img>`, the script that polls for it, and the row, ledger, memo and fetch behind it.

### AudioMux, MuxedFile
`AudioMux` is one video and every way to its sound: views, polls, the background job and its slot,
L5's retries, save-as, evictions and restarts. `amJob` is where each mux is, `amRow` the verdict on the
content the key points at. `MuxedFile` is what one mux writes: from the fragments of two files to the sample
tables of one, with the offsets of every byte; a player (`PlayerFindsEverySample`) reads them back. A state is the
pair of source files; what the muxer makes of them is a function, and each of its loops is written as `Turns`, a
recursive function of how many turns the loop has made, so that it can be proved about.

### Settings, SettingsForm
`Settings` has the votes on a key (operator, user, an old instance), each an own row, the rebuild of a start
statement by statement, and saves of two pages that interleave and fail. `SettingsForm` is the grammar of the
crawl list and the overrides: what a save normalises a text to, what the page shows of it, and what the
scheduler reads out of it with its own parser. A text is a sequence of the pieces between its "+". The "+"
inside `depth:l2+l3` cuts too, and `splitTopLevelClauses`, in both copies, puts the two pieces together again
(`JoinsDepth`, also where no "=" precedes the depth).

### SearchQuery, RepostFold, ArchiveQueries
Functions. `SearchQuery`: tokens of the search box to a parsed query, to its canonical text, to live parameters,
with authors of several words, dates and signed lists (the loops of this module and of `SettingsForm` are
written as `Turns`, as in `MuxedFile`); `RepostFold`: which posts are the same, and the clusters that a listing
folds into (a recursive function of how far the loop has come); `ArchiveQueries`: the filtered, ordered, folded
and cut reads of the posts table.

### SearchSession, Listings, RandomWalk
State machines over these functions. `SearchSession`: tabs that load, fold, suppress and save, in any order,
pages reached backwards among them, which share the cursor of the first page, and empty listings, which leave
the session as it is; a page under way is a function from positions of its listing, so folding and suppressing
leave gaps and the order is kept. `Listings`: a page from the cache, a shared flight or the archive,
asynchronous puts, flushes. `RandomWalk`: the page read and the cursor moved under the filter's lock, the end of
a sweep, the reshuffle beside it. A page of the archive or of a walk is the set of the rows on it: a row is on
it by how many rows come before it, which is what `ORDER BY` with `LIMIT` and `OFFSET` says as long as no two
rows sort alike; the order within the page is left out.

### PostMedia
What the parser takes from a payload, the paths the pages ask for, the files L2 keeps (a wave lists the post,
reads its comments, downloads and marks in four steps, between which L3 and readers archive), and who has to
agree with whom: a page shows through `FormatURL` what L2 kept through `UnformatURL`.

### Unfurl, SingleFlight
`SingleFlight` is an abstract specification: one flight per key, whoever asks meanwhile goes aboard,
all aboard get what the leader got, and the key is free again. `Unfurl` is the service with its rows, slots, direct
links, fallback reader and cancelled readers; `UnfurlCoalesces` instantiates the first with a mapping from flights
and waiting readers, and says that every step of the second is one of the first or changes nothing of it.

### BucketSchedule, SubLedger
`BucketSchedule` is the coordinator and the loop of a timeframe bucket: stored anchor and cursors, turns with
gaps, restarts and edits of the list in between; a round here is the `FetchEnds` of PrefetchWaves. `SubLedger` is a
row of `subreddit_status` with its writers and readers.

### UnlockGate, Migrations
`UnlockGate` is an owner with browsers, an authenticator and typing errors against enrolment in stages, codes in
their windows and typed with or without a blank, lock-outs, sessions, trusted devices, stops and the
administrator's reset. `Migrations` is the list of upgrades, each with what it drops, creates and expects, run
by instances that start together and stop anywhere. The table of versions is made before the lock is asked for,
in a statement of its own (`CreateTable`).

### Composite instances
TLC pays a price per run, so small components share one. `MCWaits`, `MCBackground`, `MCPages` and `MCServices`
declare the variables of several components and a variable `focus`: each behaviour follows one component, the
others rest. A composite EXTENDS the components that have theorems, so that a run and a proof speak of one
definition and TLC evaluates their assumptions, and takes the others with INSTANCE. `MCPages` takes in Settings,
Listings, RandomWalk and PostMedia in this way, `MCServices` among others MuxedFile. `NoneValue` is the one
value `None` that several of them use for "nothing here". Nothing is lost, for the components of one composite
share no state in the code either. `MCDispatcher` and `MCPrefetchWaves` do the same with several instances of
one module (`cast`), where one instance with all actors would be too large.

## 3 What is checked

`MC*.tla` name values for the constants; each `.cfg` is one run. Passing runs finish without an
error and explore every reachable state of their instance, deadlocks included: in none of the models can
the system come to a stop.

| Run | Instance | Shows |
|---|---|---|
| MediaIndex | 2 URLs with a key each, 2 contents of different size, evictor, a deleter, the sweep, 1 crash or failed statement, a walk every second pass | `FilesAccounted`: a row that names a file names one that is there, and no placed file goes before its Save commits; `NoRowDeadlock` over every interleaving of the statements of two Saves |
| MediaIndexShared | the same with 2 raw URLs of one key, fair | `BiggerWins`: the key moves to a file that is not bigger only by a Save that commits over the other's, which it had not read; `CapRestored`: eviction ends an excess when nothing was orphaned |
| PrefetchWaves | 2 cycles of 2 waves: each layer over a restart and a save, L2 over 2 saves, L2 and L3 over a save | `OneDriverPerWave`: one driver per row, in turn, and never twice; `OnePlan`: a layer has one plan pending; `OffIsQuiet`: while its depth is off no wave of L2 begins, and of L3 only one per driver that had looked before the save |
| TokenHolder | the loop, 1 kick, 1 caller, 2 mints, 1 crash, failing writes, fair | `InstallsInTurn`: an install keeps the cooldown from the date of the last, the newest token wins, ready means a token; `Recovers`: an outage of the session ends |
| PostArchive | 2 requests of any kind, 3 operations in all, 1 comment, 1 edit, 1 fault | `OneFetchOneCopy`: equal views share a fetch, and a good copy is never overwritten by a removed one; `SettledStays`: a comment that every merge under way has read stays, and its body |
| Dispatcher | a bucket loop of 2 pages beside an L2 wave with a stop or restart and an eviction; beside an L3 wave with a visitor; beside an icon batch with a settings save | `WorkAccounted`: owner and item agree, the cursor passes no page that was not fetched and handed to the archive, a done post has its images |
| Waits | media fetches (2 callers, 2 variants, 1 slot); 2 muxes over any run of outcomes, without evictions; 3 writers at the gate; one picture; 2 subreddits of 2 pages; 1 browser at 2 addresses. Fair | `FlightInv`, `AnchorKept`, `FailuresEnd` (the failures counted against a file come to an end), and that who waits is answered: `Answered`, `AudioReturns` (a failed video gets its sound or is given up, unless muxes end without a verdict again and again), `GateDrains`, `PictureSettles`, `TurnsComeRound` (`EverybodysTurn` of the BucketSchedule), `OwnerGetsIn` |
| Background | HRLimit (1 visitor with up to 3 calls, 1 background fetch, window and threshold 2, lag 1); waves (2 cycles of 1, a restart, a save); L1 with an icon batch and a save; L3 and L2 with a visitor. Fair | `CapKept` (the cap is exceeded by what the requests under way may still call, silence after a trip), and `Recovers`, `WavesSettle`, `Answered` |
| Pages | Settings (2 browsers, 2 starts); forms of 3 pieces out of 14; boxes of 3 tokens out of 23; 2 walks over 2 posts; a session of 3 pages over 6 posts, one more reached backwards, and an empty listing; 2 visitors, 3 rows; every payload of 2 links or fewer and its thread | `LatestVoteWins`, `TextsRoundTrip`, `SweepExact`, `PageAccounts`, `NSFWHidden`, `PagesPartition`, `PageIsKept` |
| Services | 2 readers of 2 links; 2 muxes with an eviction or a restart; files of up to 3 and 1 fragments out of 6; bodies of 1, 4 and 5 bytes in chunks of 2; a subreddit with 2 faults; 2 browsers, skewed codes typed with and without a blank; 2 instances on 10 versions (a database without the table among them), 2 stops | `UnfurlCoalesces`, `SoundIsSound`, `LostOnlyToStale`, `PlayerFindsEverySample`, `WholeUnlessRefused`, `LedgerTruthful`, `OneUnlockPerCode`, `ServesUpright` |
| PostArchiveShown, RangedStreamTruncated | see section 5 | a documented promise that the code does not keep |

Several properties are conjunctions of named parts that one mechanism has to keep together (`FilesAccounted`,
`OneDriverPerWave`, `InstallsInTurn`, `OneFetchOneCopy`, `CapKept`, `WorkAccounted`); the parts have names and
comments in the modules. The type invariants and the inductive invariants behind the theorems were model-checked
as invariants of these instances; the theorems now carry them, and the runs are spent on what else can be wrong.
The composites say `CHECK_DEADLOCK FALSE`: a component whose bounded inputs are used up has stopped, as the code
has when nobody calls it. The other runs check for deadlocks: in none of those models can the system come to a
stop. Every run explores all of its instance's states, at most a few million. A restart in the Dispatcher run
may fall at any point of a shutdown or without one, so that `CursorBehind` is checked over every cut between a
page's fetch, the move of the cursor and its save.

Why the bounds are enough to be interesting. Races in this code are between two actors over one object and a
third that clears up, so two or three actors on one or two objects reach them: two contents for a swap of row
locks, two variants of a key for a lost update, two cycles so that one supersedes another, two waves so that one
can be left behind, a second mint so that an answer can be late, a window longer than the lag so that scripts
cross its end once, three calls of an admitted request because the code makes three, two pages so that a cursor
can run ahead of the page under way. One tier is enough for TLC because tiers share nothing but the probe
backoff; the proofs hold for any number of them. Bounds that only keep the state finite (`MaxFaults`,
`MaxCrashes`, `MaxRestarts`, `MaxChanges`, `MaxOps`, `MaxVersion`, `MaxVisits`, and in the smaller modules the
constants `...Faults`, `...Asks`, `...Saves`, `...Stops`) are guards of the environment's actions and are named
in the modules. The proofs hold for every value of all of them.

Symmetry is used in PostArchive only, for requests and comments, which no property tells apart; the run has no
liveness property.

### Fairness

Goroutines that have a step to take take it: weak fairness of each goroutine's steps. What is stronger,
and why:

* `MediaFetch`: strong fairness of taking a slot. Go hands a channel's capacity to its waiters in the
  order of arrival, and a download has a ceiling on its time.
* `TokenHolder`: strong fairness of `Mint`: Reddit does not refuse every login for ever. This is an
  assumption on the environment, and the property is about nothing else.
* `HRLimit`: strong fairness of a visitor's probe and MGET reaching Redis when it is up again and again;
  weak fairness of polls: somebody looks at the page (nothing in the code probes on its own); weak fairness of
  each caller's record, with which a call under way ends.
* `Dispatcher`: strong fairness of `Send` (the channel serves waiters in order), weak fairness of the end of
  a rate window and of the arrival of a token.
* `PrefetchWaves`: rounds come (`LoopSteps`); a round may be a year away (the `year` bucket), and what a wave
  waits for without rounds is in section 5.
* `AudioMux` (`AMFair`): a mux ends (its context has three minutes), a cooldown ends, L5 comes round.
* `BandwidthGate` (`BGFair`): a read that stays ends by the ceiling of its download, which is what the property needs
  and the code has; a parked writer is promised nothing, it must be woken.
* `ImageReload` (`IRFair`): the server answers, a download ends, an image in view is polled.
* `BucketSchedule` (`BSFair`): the loop is a goroutine that goes on when it can, and time passes.
* `UnlockGate` (`UGFair`): requests end, lock-outs and windows pass; strong fairness of the owner's visits and
  of filling in the form that is shown: he does not give up, which is an assumption on the owner.
* In a composite, a fairness condition is one of the component that moves (`focus = ... /\ ...`). A few strong
  conditions of two components are stated as one disjunction; a step of one leaves the variables of the other
  alone, so this is the conjunction.
* No fairness is assumed of crashes, saves, visitors' arrivals, edits, evictions or failures.

## 4 What is proved

Eight modules of proofs, each checked to the last leaf: one for each of MediaIndex, PrefetchWaves, TokenHolder
and Dispatcher; `PostArchiveProofs` for PostArchive and Migrations; `MediaProofs` for MediaFetch, RangedStream,
BandwidthGate and MuxedFile; `RedditProofs` for HRLimit, BucketSchedule, SubLedger, Listings, RandomWalk,
RepostFold and SearchSession; `ComponentProofs` for UnlockGate, AudioMux, Unfurl, Settings, PostMedia,
SearchQuery and SettingsForm. All results hold for every value of the constants that satisfies the named
`ASSUME`s, so for any number of goroutines, keys, waves, pages. In each, the property follows from an inductive
invariant, and the table says what that one adds and why the property alone would not do.

| Module, theorems | Statement | Argument |
|---|---|---|
| MediaIndexProofs `TypeCorrect`, `Invariance`, `RowsNameFiles`, `PlacedFilesStay`, `FilesStayAccounted` | `[]TypeOK`, `[]IInv`, `[]ResidentOnDisk`, `[]PlacedStays`, together `[]FilesAccounted` | `IInv` adds who holds which hash lock in which place. Without it the evictor's remove could fall between a rename and its Save |
| `SavesInvariance`, `SavesNeverDeadlock`, `BiggerFileWins` | `[]SavesInv`, `[]NoRowDeadlock`, `BiggerWins` | `SavesInv` adds what a Save has read of its mapping, which the transaction does not lock (it still stands while its key has one raw URL; with several, whoever commits over another's commit is seen by `Overtaken`), and that a Save past the URL row replaces a smaller content. Of the Saves that hold a row lock only one that clears an old content's row then waits, for a Save of a smaller file: in a set that waits for itself, the Save of the smallest file (there is one: `NatLessThanWellFounded`) waits for nobody |
| MediaProofs `SingleFlight`, `OneLeaderPerUrl`, `NoLostWaiter` | `[]FlightInv`, `[]OneLeader`, `[]WaitsForLeader` | `FlightInv` ties the map to the place of the leader; a waiter's leader has not closed |
| `StreamInvariance`, `BodiesAreWhole` | `[]Streamed`, `[]WholeUnlessRefused` | `Streamed` says of each byte written which byte of the content it is, through restarts inside a chunk and origins that ignore `Range`, and that what a call reported (status, total) is true of the origin. Without the second half a call that promised too little would end a body early |
| `GateInvariance`, `GateStaysOpen` | `[]GateKept`, `[](NobodyForgotten /\ SomebodyMoves /\ BurstHeld)`, the safety half of `GateDrains` | `GateKept`: who is registered, no writer parks on a channel of the future, and what was granted and not yet paid for is, with what the bucket holds, one burst at most. `Better` is a strict order, so of finitely many registered writers the one that the fewest outrank is outranked by none (`BestExists`), and nobody but the outranked sleeps |
| `MuxTypes`, `MuxedFilePlays` | `[]MFTypeOK`, `[]PlayerFindsEverySample` | the invariant is the type: a muxed file is a function of the two sources. The rest is one lemma per loop: `TurnsExist` gives the recursive function its values, turn by turn, from the least counterexample (`UpTo`); then what the loop has after each turn. `MdatLays`: where every chunk of both tracks lies so far, which the other track's next chunk does not disturb. `RunsFind`: runs say of every value so far what it is. `StscFinds`: the last entry at or before a chunk has its count. `FlatIs`, `FlatOf`: which element of which chunk the n-th sample is. `TrakFinds` puts them together for the player, and `SourceMeets` says the same of the samples as the standard reads them from the source |
| PrefetchWavesProofs `Invariance`, `OneRunner`, `FiredOnce`, `WavesDrivenOnce` | `[]IInv`, `[]RunnersAgree`, `[]FiresOnce`, together `[]OneDriverPerWave` | the invariant says who owns, plans, runs and has fired which row. These fail when `TryMarkRunning` fails (section 5) and are stated under `MaxErrors = 0` |
| `DriversInvariance`, `CyclesSerial`, `OffLayersStayQuiet` | `[]DrivesInv`, `[]SerialWaves`, `OffIsQuiet` | the half of the invariant that no failing statement disturbs, so these need no such assumption: each driver has rows of its own, of one plan. `PastLooked`: who looks at the depth no more before its wave, and finds its layer off, is one that was past its look at the last save; the set only shrinks until the next |
| `PlansInvariance`, `OnePlanPending` | `[]PlansInv`, `[]OnePlan` | while nobody saves settings, which round may hold pending rows, and that every other way to a plan (reconcile, revive) is closed or has superseded them |
| TokenHolderProofs `ReadySignal`, `NewestStays`, `SpacedInstalls`, `InstallsStayInTurn` | `[]ReadyMeansToken`, `NewestWins`, `InstallsSpaced`, together `InstallsInTurn` | `refreshMu` has one holder; who holds it carries the newest token; an attempt began after the cooldown and takes its date after it began, and nothing else dates an install while it holds the lock |
| PostArchiveProofs `Invariance`, `CopiesStayGood`, `FlightsCoalesce`, `FetchesStayShared`, `VerdictSticky`, `SettledComments` | `[]IInv`, `[]GoodCopy`, `[]Coalesced`, together `[]OneFetchOneCopy`, `StickyGone`, `SettledStays` | the leader of a flight is at work, its followers wait; `SettledStays` follows the merges under way: an insert keeps what its reader has read, a later reader reads what was inserted, so once all of them have a comment no order of their inserts loses it |
| RedditProofs `Countdown`, `NoneInWindow`, `CapHolds`, `CapStaysKept` | `[]BackoffShown`, `WindowHeld`, `[]Overshoot`, together `CapKept` | `Covered`: a trip leaves a cooldown that covers what is owed to it, for every lag up to a window. `Capped`: the visitors' share plus what those past the gate may still call is below threshold plus `Calls` for each visitor |
| `ScheduleInvariance`, `RestartKeepsAnchor` | `[]Anchored`, `AnchorKept` | `Anchored`: a loop that runs waits for the persisted time. `AnchorKept` compares the two over a restart, so a loop that drifted from its row before the crash would break it |
| `LedgerInvariance`, `LedgerIsTruthful` | `[]LedgerCounts`, `[]LedgerTruthful` | `LedgerCounts`: the row's counter is the number of failures in a row. `GravestoneEarned` speaks of gravestones only, and the failure that makes one adds to a counter that was written long before |
| `HiddenInvariance`, `NothingHiddenShown` | `[]HiddenStays`, `[]NSFWHidden` | `HiddenStays`: a page that is in the cache, or was rendered and is still to be put there, hides what its key says. `NSFWHidden` speaks of pages that are shown, and a put may be long on its way when the settings change |
| `ArchivePagesPartition` | `[]PagesPartition` | of every archive without ties that the invariant allows. A row's place is the number of rows before it (`Cardinality`), so places are distinct, `LIMIT` and `OFFSET` are intervals of places, and every cluster has one row that stands for it |
| `WalkInvariance`, `SweepsAreExact` | `[]WalksKept`, `[]SweepExact` | `WalksKept`: what a sweep has handed out is what lies between its origin and its cursor, over the top if need be; who walks has the lock and the cursor as it is stored; who has turned at the top holds all that was left there, less than a page. `SweepExact` alone says nothing of where the cursor stands |
| `SearchInvariance`, `SearchRepeatsNothing` | `[]SearchKept`, `[]PageAccounts` | `SearchKept`: the one request under way has the session as it is stored, the entries are pairwise unlike, and what is in front of the visitor is entered. Without it a reload would forget its own page and let another page's copy in. `Matches` is symmetric (`MatchesBothWays`), so what was entered later need not be compared again. Folding is a loop over a listing of any length: `HistoryExists` and `FoldingAccounts` take the least prefix for which the claim fails (`LeastNumber`, from `NatLessThanWellFounded`), and `JoinedAccounts` is the step |
| DispatcherProofs `TypeCorrect`, `OwnersAlwaysAgree`, `CursorNeverAhead`, `DoneMeansArchived`, `WorkStaysAccounted` | `[]TypeOK`, `[]OwnersAgree`, `[]CursorBehind`, `[]BodyArchived`, together `[]WorkAccounted` | `IInv` says, for every worker that waits, where its item is and what it asks for, and what an answer implies. A page fetched may have been taken by the archive or not: `CursorBehind` holds of both, and says no more. `BodyArchived` is stated for a process that is not stopped and loses no file to the evictor: a shutdown breaks it (section 5) |
| ComponentProofs `UnlockInvariance`, `CodesOpenOnce` | `[]CodesMarked`, `[]OneUnlockPerCode` | `CodesMarked`: a code, as it was typed, is in one browser at most, and one that has opened the gate, or is in a browser, is marked until its window is past for every skew. The mark that a tick forgets is then of a code that no longer verifies |
| `MuxInvariance`, `SoundHasSound`, `SoundLostOnlyToStale` | `[]MuxesSound`, `[]SoundIsSound`, `LostOnlyToStale` | `MuxesSound`: one mux flies (slot and flight map together), and a mux between its Save and its verdict finds its copy, or a bigger one, on the key. `SoundIsSound` says nothing of a verdict that is still to be written |
| `PreviewInvariance`, `PreviewsCoalesce` | `[]Boarded`, `UnfurlCoalesces` | the refinement: `Boarded` gives each waiting reader a leader of its link that flies; then initial states map to initial states, and each of the twelve actions is a `Board`, `GiveUp` or `Land` of `SingleFlight`, or a stutter |
| `SettingsInvariance`, `LatestVoteIsKept` | `[]VotesCounted`, `[]LatestVoteWins` | `VotesInOrder` keeps the times of votes, saves under way and the clock in order; `Reconciled` says, statement by statement, what a start without an error has achieved so far |
| `KeptInvariance`, `KeptPagesAreWhole` | `[]PostsKept`, `[]PageIsKept` | `PostsKept`: every file of an archived post has an address of this site, what a wave had read is on disk from its download on, through its mark; a wave that no L3 has overtaken has read the comments as they are, and where L3 found nothing amiss what it archived is on disk. `RoutesAgree` then has `UnformatURL` (which L2 uses) and `pathToCDNURL` (which a request uses) agree on these addresses |
| `TextsSayTheSame` | `[]TextsRoundTrip` | the invariant is the type: a text is a sequence of pieces, a box one of tokens, of any length. `EverySequence` (what holds of `<<>>`, and of one element more, holds of every sequence) comes from the least counterexample, and each fold has a lemma about one element more. Form: `Sound` says what a stored form is (one override for a sub, every one with its sub, no sub twice); `WrittenCut` cuts what the page writes back into one clause for each override, though a depth of two layers is two pieces; so `AgainIs`, that storing what the page shows gives the same, and `ReadsIs`, that the scheduler reads each override as it was meant. Box: `Part` is the query with some fields read back, each clause of `Canonical` adds its own field (an author of one word as it was, `AuthorIs`; of several, its first, and the rest as text, which `LosesQuotes` leaves out; `OptRead`, `SubsRead`, `TypesRead`, `DateRead`, `TermsRead`), so `CanonicalRead`: all of it gives the query with its dates cut to days, which is written the same and asks the sources for the same. The archive filter is read back from the names in any order (`ControlBack`) |
| PostArchiveProofs `UpgradeInvariance`, `InstancesServeUpright` | `[]SchemaKept`, `[]ServesUpright` | `SchemaKept`: whoever is past `CreateTable` finds the table of versions, one who is refused has been forestalled by one who goes on; who upgrades has the lock and knows the version as it is, and the schema of a version is in closed form (what an upgrade added and none after it dropped), so each of the upgrades finds what it expects. `ServesUpright` says nothing of a schema that is under way. The list of upgrades is a constant of the code, so the proof goes through it entry by entry where it must |

Every inductive invariant was model-checked as an invariant of its run before it was proved. Assumptions worth
knowing:

* `TokenHolder!CoolAssumption`: the capped doubling of the cooldown stays between its floor and its cap, a fact about
  exponentiation that the provers' arithmetic cannot derive (TLC evaluates it for each instance).
* `HRLimit` assumes that a script is never later than a window, and that an admitted request makes at least one call
  (`Calls`).
* `STAssumption`: "no row" is not a value that someone votes for; `UFAssumption`: "-" is neither a reader nor a link.
* `BGAssumption`: generations count up from 0 (`NextGen`; an untagged writer has 0), sound is 0 and video 1, and
  a rate, a burst and a chunk are natural numbers.
* `SQAssumption`: a token has a value of its kind, an author is the sequence of its words, and "none" is not a
  moment; `SFAssumption`: a piece is a name with pairs, and a text with a "&" in it is not a name.
* `SSAssumption`: a listing is a sequence of posts, a title has finitely many words, a score is a number or
  hidden, and "" is the cursor of the first page.
* `MFAssumption`: the boxes have fields of their types (numbers of any size, so the 32 and 64 bits of the boxes
  are not a subject), and a run after the first says where its samples are, as Reddit's do (section 5 has what
  happens otherwise).
* `MGAssumption`: the database is at a version that the program knows, 0 to 39, and at least one instance starts
  (`MGRunners # {}`).
* `PMAssumption` says which hosts Reddit uses for what: videos, photos and previews, thumbnails. The
  address that a post links to, and those in its text and comments, are anywhere.
* `NoRowDeadlock` is about keys that one raw URL names. Two raw URLs of one key (two signed variants) do
  deadlock, which PostgreSQL resolves by failing one; TLC shows it when the restriction is dropped. `BiggerWins`
  is about every key, and names the race of two raw URLs that may leave the smaller file.

Only model-checked:

* liveness under fairness (`CapRestored`, `Recovers`, `WavesSettle`, `Answered`, `FailuresEnd`, `AudioReturns`,
  `GateDrains`, `PictureSettles`, `TurnsComeRound`, `OwnerGetsIn`; of `GateDrains` the safety half is proved),
  since the prover does not reason about it.

Every invariant that a passing run checks, and every action property without fairness, is a theorem. Where one
is about texts, tables or listings of any length, induction over data is not to be had (the library's induction
theorems take an operator as a parameter, which the installed provers cannot instantiate): the loops are
recursive functions of how far the loop has come, and the proofs take the least place at which a claim fails
(`NatLessThanWellFounded`).

## 5 Disagreements between code and documentation

Two runs state what a comment of the code says and TLC refutes it with a trace. The quotations are in
`PROJECT.json`.

| Run | Property | Where | What the code does |
|---|---|---|---|
| PostArchiveShown | `ShowsArchive` | `internal/handler/post.go:471` | renderPostFallback looks the row up under the path without the slug and never finds it, so the removed payload is rendered and cached though the post is archived. |
| RangedStreamTruncated | `TruncatedIsNeverKept` | `internal/media/proxy.go:928` | A chunk after the first that is refused (a 403 or 503, not only the 416 past the end that the comment names) ends streamRangedTo without an error, and Download hashes, renames and indexes the bytes it has as the whole file. |

While the modules were written, TLC showed more behaviours that differ from what a comment or a document says.
They are behaviours of the models too, and the reason why some properties above carry a condition or allow an
exception (one raw URL per key, unchanged settings, a process that is not stopped, `MaxErrors = 0`), but no run
of the project is spent on them:

| Where | What the code does |
|---|---|
| `internal/store/media.go:157` | Save clears the file_path of the replaced content and nothing unlinks its file: SelectEvictionBatch reads only rows with file_path IS NOT NULL. |
| `internal/store/media.go:375` | UPDATE ... SET file_path = NULL ... RETURNING file_path returns the new value, NULL, so paths is always empty and the caller unlinks nothing. |
| `internal/store/media.go:134` | Save compares sizes with the mapped content even when that content is evicted, keeps the key on the absent one and leaves the fresh file unmapped: the next request misses again. |
| `internal/media/proxy.go:238` | purge removes the file after its transaction, without LockHash: a publish of the same bytes that found the file in place commits a row for a file that is gone. |
| `internal/store/media.go:133` | The size check reads the mapping without a lock and single flight is per raw URL: two variants of one canonical key both read the old mapping and the smaller may commit last, although "Bigger wins" (131). `BiggerWins` makes an exception of this race. |
| `internal/media/proxy.go:373` | The ledger is read before fetchOnce and not again under its lock or its slot: a caller that read "alive" downloads after a sibling wrote dead_at. |
| `internal/store/media_unavailable.go:211` | Any failure after revived_at kills the row, one of a download that began before the revive too (another signed variant of the key, or a leader still in its slot): the key dies with no attempt since the revive. The comments promise the attempt: "triggers a revive that allows one more attempt" (47–48), "The user gave us a fresh chance and Reddit still refused" (178–181), "has already burned through one user-triggered retry" (249–251). |
| `internal/store/media_unavailable.go:199` | fail_count only grows: a successful download never resets or deletes the row, so three failures months apart mark the URL. |
| `internal/prefetch/scheduler.go:881` | The fan-out goroutine of a round that has just ended has not called driverEnter yet, so driverActive is false; a re-enable seen then rolls a plan of its own and regenerating L2 supersedes nothing, so two plans of one layer are pending and driven. |
| `internal/prefetch/scheduler.go:2301` | The depth is looked at, then the row is taken, then the wave begins. runL2Wave looks again, runL3Wave (2715) does not: a save between the look and the start lets one wave of L3 begin per driver, and a wave that has begun fetches all its posts, although "switching the layer off mid-cycle stops further requests at once" (2296–2298). A revived wave (744) is the same. |
| `internal/prefetch/scheduler.go:623` | Drivers of revived cycles run under the root context and look only at the depth: blanking the crawl list stops the bucket loops and not them. |
| `internal/prefetch/scheduler.go:881` | Any other prefetch setting changes the signature, which cancels every live driver and leaves its rows pending; the depth has not changed, so reconcile sees no transition and the layer waits for the next L1 round. |
| `internal/prefetch/scheduler.go:783` | maybeDropL2Cycle drops the snapshot at wave l2WavesPerCycle only: a revived cycle whose last scheduled wave has a smaller number, or that is superseded before the last, stays on /debug. |
| `internal/prefetch/scheduler.go:718` | resumePendingWave logs a TryMarkRunning error and goes on to fetch and MarkFinished, over a row that a newer round has marked skipped. |
| `internal/oauth/holder.go:349` | The cooldown is measured from lastRefreshAt, which only installToken sets: after a failed attempt nothing holds the next one back (never, when no token was installed yet or the last install is older than the 5 minute cap). |
| `internal/oauth/holder.go:146` | The first listed row is taken whatever its expires_at, the list is ordered by rate_remaining only, and Upsert (no id column) adds a row per mint, so an older expired row can win. |
| `internal/oauth/holder.go:480` | installToken gives the new token the id of the old one (0 for every token minted since the start), so the guard lets a late response of the old token through: its remaining count overwrites the fresh budget. |
| `internal/store/token.go:47` | A token minted by the process has id 0 in memory (Upsert does not return the id), so UpdateToken matches no row. |
| `internal/archive/service.go:313` | A restored comment keeps Removed = true and indexAliveComments leaves removed nodes out, so the next fetch finds no prior body and its tombstone wins the merge. |
| `internal/archive/service.go:216` | ArchiveComments reads the latest snapshot, merges and inserts with no lock or transaction: of two fetches of one post that overlap, the later insert lacks the nodes of the earlier, and where the first had found a body the second's tombstone stands in the snapshot that is read from then on ("never overwrites the good local copy with tombstones", 206). Older snapshots stay in the table and nothing reads them. |
| `internal/archive/service.go:216` | When GetLatest fails ArchiveComments goes on as if there were no snapshot and inserts the fragment it was given. |
| `internal/handler/post.go:147` | handleRefreshPost looks the row up under "/r/<sub>/comments/<id>/" while rows are keyed by the permalink with its slug, so nothing is marked before the answer. |
| `internal/handler/post.go:353` | handleLoadMoreReplies archives under the path without the slug; comments.post_url_path references posts(url_path), the insert fails and is only logged. |
| `internal/handler/cache_key.go:52` | cacheHTMLAsync stores a page rendered earlier whenever it gets to run, also after the InvalidateHTMLPrefix of a refresh. |
| `internal/handler/subreddit.go:329` | The gate is asked once and up to three calls follow and are counted: the posts (366–367), then the about with a token and, when that fails, without one (`archive.go:542–552`). A request let through one call below the cap exceeds it by two. |
| `internal/hrlimit/hrlimit.go:73` | The script sets the cooldown key with the TTL of its own clock reading, whatever the key has left: one whose clock was read at the end of a window and that runs after the next window tripped cuts the cooldown short. |
| `internal/hrlimit/hrlimit.go:131` | Every Admit that passed the backoff check before the first failure calls failClosed when its MGET fails, and each call doubles the backoff: one blip under load goes to the 30 second cap at once. |
| `internal/hrlimit/hrlimit.go:131` | Admit and RedisDownReset run on the request's context and take every error for an outage: a visitor who disconnects before the MGET closes the gate for all visitors. |
| `internal/handler/hr_gate.go:44` | recordUpstream runs on the request's context: when the visitor disconnects during the call to Reddit the script is not run and the call is not counted. |
| `internal/prefetch/scheduler.go:1119` | When the root context ends while the dispatch loop waits for budget or pauses for a visitor it closes done on an item it never ran, and submit returns nil. A passive icon batch, which runs under context.Background(), then takes the empty iconURL for the answer and saves has_icon=false, a verdict that is never looked at again. |
| `internal/prefetch/scheduler.go:1129` | The same close reaches a submitter whose own context ended at the same moment: both arms of its select are ready, and when done is taken l2Download returns (true, nil) for a download that never ran, so the post is marked media_done without its media. (L1 then deletes its cursor and records the round "ok", L3 records an "ok" row that freezes the post.) |
| `internal/prefetch/scheduler.go:1124` | waitForBudget is asked before the pause for an active visitor and not again after it: visitors spend calls during the 25 to 40 seconds, and the item runs with the reserve, or the whole window, gone. |
| `internal/archive/service.go:156` | ArchiveListing only logs a post whose Save fails and returns nothing; runOneSubFetch moves the cursor past the page all the same (`prefetch/scheduler.go:1877`), and the walk does not come back to it before its next cycle. |
| `internal/handler/archive.go:22` | NotifyUserRequest is called on the fetch of a sub's about page only; the visitors' listings, posts, searches and users go upstream without it. |
| `internal/prefetch/scheduler.go:1184` | A submitter whose context ends leaves its item in the channel or in the loop's hands, and the loop runs it under the root context: the page, thread or file that a settings save had called off is fetched all the same, and its result is thrown away. |
| `internal/store/post.go:871` | ListNeedingMedia returns posts with media_done = false only, and nothing clears the flag when a file is evicted. |
| `internal/prefetch/scheduler.go:2483` | requeueForCommentMedia clears media_done so that L2 fetches the images of the comments before their signatures expire. A wave reads the comments once, before it downloads the post's own media; a thread archived after that read clears a flag that is not set yet, the wave sets it at its end, and those images are never fetched. The same holds of any thread archived until the mark (2602–2607): PageIsKept speaks of comments as the wave read them, or as an L3 archived them that met no such wave. |
| `internal/prefetch/scheduler.go:1256` | Blanking the crawl list and restoring it between two polls of the coordinator leaves the signature as it was. A bucket loop that woke in between has returned, and nothing starts it again until another save. WavesSettle is therefore checked with one save. |
| `internal/handler/subreddit.go:312` | The cache key of a subreddit page holds sort, after and before and not t, which the comment at 323–325 makes a parameter of the address: /r/X/top?t=week and ?t=all share a cached page. |
| `internal/handler/settings.go:919` | When SetBatch fails the vote that SetShadow wrote stays. It wins at the next start although the save was answered with an error; saving the old value again casts no vote, since nothing changed. The other way round, a shadow that was not written (only logged) loses the save at the next start. |
| `internal/handler/settings.go:909` | Two saves of the page that overlap write votes, rows, memory and archive control in three places without a lock: the three may end with different winners until the next start. |
| `internal/handler/settings.go:909` | Saving the page as it was shown reorders the crawl list and adds subs that occur in overrides only; the text differs, so the vote is cast that the comment at 897–904 says is not. |
| `internal/searchquery/searchquery.go:592` | Canonical writes a quoted term without its quotes: a term that looks like a key ("rating:safe") is a key when the text is read again. It writes an author without quotes (598–600): of an author of several words only the first is the author when the text is read again, and the others are text. "Round-trips through Parse to itself" (591) holds of neither; TextsRoundTrip leaves both out (`LosesQuotes`). A relative date comes back as an absolute one. |
| `internal/handler/search.go:277` | The fallback of every cursor marks what it shows as archive:0: during an outage page 2 repeats page 1, and a reload after it hides what archive:0 showed. |
| `internal/handler/search.go:186` | A page reached backwards (?before=) is deduplicated under the empty cursor, the one of the first page: what the first page showed is forgotten and may be shown again, and a reload of the first page forgets the page before. The comment (`search_session.go:143`) promises to suppress what was "rendered for a DIFFERENT cursor", which these are not. |
| `internal/handler/search_session.go:131` | Two tabs load, extend and save one session value: the entries of the first to save are lost. |
| `internal/store/post.go:651` | Most orders have no tie-breaker, so that pages cut by LIMIT and OFFSET may repeat or skip posts of equal score or time. PagesPartition is checked without ties. |
| `internal/render/engine.go:132` | markLocalCache writes into the slice that the followers of a shared flight render at the same time. |
| `internal/handler/random_reshuffle.go:59` | A reshuffle cuts every sweep under way, and requests whose pages it empties side by side may answer 503 though a post matches. |
| `internal/unfurl/service.go:127` | The leader fetches under its own request: when its reader leaves, the followers get nil or a failed row, which stays for an hour. A panic in the leader leaves the inflight entry for ever. |
| `internal/media/mux.go:501` | Save and SetAudioState are two statements: a stop in between leaves a muxed file without a verdict. SetAudioState and RecordAudioFailure act on whatever content the key points at by then. |
| `internal/media/mux.go:412` | A video whose download is refused returns before RecordAudioFailure, so an attempt at it is not counted: the row stays 'failed', is never 'abandoned', and L5 (ListAudioFailed, `store/media.go:541`; RetryMuxAudio, 687, does not ask the ledger of dead media) tries it again every round for good. AudioReturns leaves such attempts out. |
| `internal/media/mux.go:302` | Several background jobs for one video pass the check for one in flight, wait for a slot and mux one after the other; a late one that fails turns has_audio into failed. |
| `internal/media/mux.go:530` | SweepSupersededPlainRows removes rows and unlinks nothing. |
| `internal/media/proxy.go:717` | A request that was cancelled before the CDN answered has status 0 and counts as a strike against the file. |
| `internal/store/substatus.go:136` | Three failures of any kind write a name off as dead, and the next save of the settings drops it from the crawl list without a word. |
| `internal/archive/service.go:76` | nsfwKnown is set in memory before the row is written: when the hub has recorded FALSE and the process stops in between, the subreddit stays unmarked until its next NSFW post. Rows keep the case they were written with, lookups are lower case. |
| `internal/media/progressive_mux.go:371` | A trun without a data offset starts at the base again instead of where the run before it ended. |
| `internal/handler/auth.go:294` | Two sign-ins at once both count the trusted devices and may exceed the cap by one. |
| `internal/handler/auth.go:650` | consumeCode marks the string of the form, while `totp/totp.go:68` trims it before it verifies; 'totp' and 'enroll_confirm' (905, 940) pass it untrimmed. The same digits with a blank after them are another code to the mark and open the gate once more within their windows, against the "single-use guarantee" (637). OneUnlockPerCode counts each way of typing. |
| `internal/handler/auth.go:899` | A form of an enrolment that is out of date, filled in with three wrong codes, undoes the enrolment that was confirmed meanwhile. A browser whose address changes between families is asked again unless it is trusted. Used codes, sessions and lock-outs are in memory only. |
| `internal/store/migrate.go:759` | CREATE TABLE IF NOT EXISTS schema_version runs before the advisory lock. Two instances that start at once on a fresh database may both find no table; PostgreSQL refuses the second with a unique violation and RunMigrations fails, although the lock "makes the second runner wait" (767–773). ServesUpright allows it of all instances but one. |
| `internal/store/migrate.go:774` | The advisory lock belongs to a connection of the pool, which store/db.go:26 recycles after 30 minutes: a longer upgrade goes on without the lock. |
| `internal/store/post.go:871` | Archiving an edited post again keeps media_done: a picture that the edit pasted is not fetched by L2. A reader's visit archives comments and does not re-arm L2 either. |
| `internal/reddit/url.go:202` | UnformatURL is not the inverse of FormatURL for emoji, and FormatURL writes /emote/ and /static/ paths that no route serves. |
| `internal/reddit/url.go:160` | CanonicalKey drops ?format=mp4: a preview gif and its mp4 variant share a key. |
| `internal/handler/post.go:544` | reviveMediaForPost leaves out the poster and the comments' pictures. |
| `internal/prefetch/scheduler.go:3277` | L2 skips the thumbnails of self posts since "the template skips" them; the card of a short self post with one external link shows it. PageIsKept leaves these cards out. |

## 6 What is not modelled

* Each module's own omissions: score columns and access statistics of media; headers other than lengths; ranks
  and pacing; the User-Agent signal of the holder; conditional requests; the characters below a token, a clause
  or a name (a "u/" before an author, too); sample entries (codecs); draws of /random from the live front page;
  cryptography. `PROJECT.json` has a note per component.
* The arithmetic of wave plans (`planWaves`, `splitNonUniform`): draws of times and sizes at random within bounds.
  PrefetchWaves takes every plan as possible.
* The Reddit client: one request with its outcomes, which every module that calls it takes as a choice.
* Start and stop of the process: the parts' own starts are in their modules; the order between unrelated parts
  changes nothing that another one reads.
* Device identity, version strings, transport: headers, chosen once. Layout, translations, SEO, compression: text as
  a function of its input, without state.
* The icons' downloads and their rounds (the Dispatcher has what an icon batch does in the loop, SubLedger has
  its verdict).
* The status page's record of what comes next, statistics and the ETag cache: values that nothing else decides by.
* Data races in the Go sense, where the only effect is which of two texts a reader sees.

## 7 Plan

Done, in this order: the core (MediaIndex, MediaFetch, PrefetchWaves, TokenHolder, PostArchive, HRLimit,
Dispatcher) with its proofs; then the components around it (section 2), among them the abstract SingleFlight and
its refinement.

Then, for the safety properties that had been model-checked only, inductive invariants and proofs (section 4), and the
refinement of SingleFlight step by step.

Last, the data that one part writes and another reads back: the tables of a muxed file, the texts of the
settings and of the search box. What would come next is the arithmetic of wave plans and the characters below a
token.

## 8 Running it

    tlc -config MediaIndex.cfg MCMediaIndex.tla
    tlapm MediaIndexProofs.tla

`PROJECT.json` names the module and configuration of each run, the mutants (for every property of a passing run, a
plausible bug in a mapped definition that makes TLC find it violated) and the theorems.
