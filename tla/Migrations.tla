----------------------------- MODULE Migrations -----------------------------
(***************************************************************************)
(* The schema and its upgrades (store/migrate.go), for instances of the     *)
(* program that start against one database, one maybe while the other is    *)
(* upgrading it, and that may be stopped anywhere.  A migration is what it  *)
(* drops, what it then adds, which of that must not be there (a CREATE or   *)
(* ADD without IF NOT EXISTS), and what it does to the rows; a table stands *)
(* for the columns and indexes it is created with.                          *)
(***************************************************************************)
EXTENDS Integers, Sequences

CONSTANTS MGRunners,    \* instances
          MGVersions,   \* versions the database may be at
          MGCrashes     \* bound: stops

VARIABLES mgDB,      \* what is committed: [version, objects, sources, audio, rows]
          mgTable,   \* schema_version is there
          mgLock,    \* the advisory lock: its holder, or "free"
          mgRun,     \* each instance: [at, current, tx]
          mgLeft
mgVars == <<mgDB, mgTable, mgLock, mgRun, mgLeft>>

(* What an upgrade drops, then adds, which of that must not be there, and    *)
(* the values a column takes from then on, if it says.                      *)
Upgrade(drop, add, bare, sources, audio) ==
  [drop |-> drop, add |-> add, bare |-> bare, sources |-> sources, audio |-> audio]
Adds(objects) == Upgrade({}, objects, {}, {}, {})
Sources(values) == Upgrade({}, {}, {}, values, {})
Audio(values, objects) == Upgrade({}, objects, {}, {}, values)

FirstSources == {"redlib_proxy", "oauth_fallback", "prefetch"}
Initial == << Upgrade({}, {"posts", "comments", "subreddits", "media_index", "oauth_tokens",
                           "prefetch_config"}, {}, FirstSources, {}) >>
Listed == FirstSources \cup {"search", "user_listing"}
Natural == Listed \cup {"background", "natural_prefetch"}
(* v2 to v9 *)
Early == << Sources(Listed), Sources(Listed \cup {"background"}), Adds({"site_settings"}),
            Adds({"subreddit_status"}), Upgrade({}, {"posts.media_done"}, {}, Natural, {}),
            Adds({"sub_icons"}), Adds({}), Adds({"oauth_tokens.headers_json"}) >>
(* v11 to v19 *)
About == {"sub_icons.about_json", "sub_icons.about_fetched_at", "sub_icons.about_expires_at"}
AudioColumns == {"media_index.audio_state", "media_index.audio_fail_count",
                 "media_index.last_audio_attempt_at"}
AudioStates == {"has_audio", "silent", "failed", "abandoned"}
Drawn == {"device_profile.os_next_check_at", "device_profile.apk_refresh_remaining",
          "device_profile.apk_checked_at"}
Adopted == {"device_profile.os_adopt_delay_days", "device_profile.os_upgraded_at"}
Lifespan == {"device_profile.device_born_at", "device_profile.device_lifespan_days",
             "device_profile.next_android_version", "device_profile.os_next_check_at"}
Devices == << Adds({"subreddit_status.nsfw"}), Adds(About),
              Audio({"has_audio", "silent"}, {"media_index.audio_state"}),
              Audio({"has_audio", "silent", "failed"}, {"media_index.audio_state"}),
              Audio(AudioStates, AudioColumns), Adds({"device_profile"}), Adds(Drawn \cup Adopted),
              Upgrade(Drawn, {}, {}, {}, {}), Upgrade(Adopted, Lifespan, {}, {}, {}) >>
(* v20 and the indexes of what is safe for work *)
MediaTables == {"media_content", "media_url", "idx_media_url_content", "idx_media_content_eviction"}
ContentStore == << Upgrade({"media_index"} \cup AudioColumns, MediaTables, MediaTables, {}, AudioStates),
              Adds({"posts_sfw_sub_created_idx"}) >>
(* v21 and v22 *)
Scored == << Adds({"media_content.score", "media_content.score_floor", "media_content.last_accessed_at",
                   "update_asset_access", "eviction_candidates"}) >>
Rejudged == << Adds({"update_asset_access"}) >>
(* v23 to v28 *)
Removed == << Adds({"posts.shuffle_key"}), Adds({"pg_trgm"}), Adds({"sub_icons.has_icon"}),
              Adds({"posts.upstream_removed"}), Adds({"media_unavailable"}), Adds({"media_unavailable.dead_at"}) >>
(* v29 to v31 *)
FoldKeys == {"posts.repost_key", "idx_posts_repost_key"}
Folding == << Adds(FoldKeys), Upgrade(FoldKeys, FoldKeys, FoldKeys, {}, {}), Adds({"prefetch_runs"}) >>
(* v32 to v35 *)
Trusted == << Adds({}), Adds({"trusted_devices"}), Adds({"trusted_devices.ip_alt"}),
              Sources(Natural \cup {"manual_refresh"}) >>
(* v36 to v39 *)
Latest == << Adds({"posts.listing_rank", "posts.listing_seen_at"}), Adds({"trusted_devices.ua"}),
             Adds({"link_preview"}), Adds({"link_preview.image_wide", "link_preview.video_url"}) >>
migrations == Initial \o Early \o Devices \o ContentStore \o Scored \o Rejudged \o Removed
                \o Folding \o Trusted \o Latest

ASSUME MGAssumption ==
  /\ MGRunners # {} /\ "free" \notin MGRunners /\ MGVersions \subseteq 0 .. Len(migrations) /\ MGCrashes \in Nat

(* media_initial_score for a size near 10 MB, or far from it. *)
InitialScore(row) == IF row.near THEN 0 ELSE 88
InitialFloor(row) == IF row.near THEN 0 ELSE 75
Score(m)   == [m EXCEPT !.score = InitialScore(m), !.floor = InitialFloor(m)]
FirstScore(m) == IF m.score = 0 THEN Score(m) ELSE m
Rejudge(m) == IF ~m.resident THEN [m EXCEPT !.score = -1, !.floor = -1]
              ELSE IF m.score < 0 THEN Score(m) ELSE m
(* What a migration does to the rows: v6 counts the media of old posts as   *)
(* fetched, v8 has local icons fetched again, v20 drops the media, v21 and  *)
(* v22 score them, v32 takes who has enrolled as confirmed.                 *)
Rows(i, r) ==
  CASE i = 6 -> [r EXCEPT !.done = TRUE]
    [] i = 8 -> [r EXCEPT !.icon = IF r.icon = "local" THEN "expired" ELSE r.icon]
    [] i = 19 -> [r EXCEPT !.media = {}]
    [] i = 21 -> [r EXCEPT !.media = {FirstScore(m) : m \in r.media}]
    [] i = 22 -> [r EXCEPT !.media = {Rejudge(m) : m \in r.media}]
    [] i = 32 -> [r EXCEPT !.confirmed = r.confirmed \/ r.secret]
    [] OTHER -> r

(* One migration, and whether the database accepts it. *)
Fits(db, i) == (migrations[i].bare \ migrations[i].drop) \cap db.objects = {}
Migrated(db, i) ==
  [version |-> i,
   objects |-> (db.objects \ migrations[i].drop) \cup migrations[i].add,
   sources |-> IF migrations[i].sources = {} THEN db.sources ELSE migrations[i].sources,
   audio |-> IF migrations[i].audio = {} THEN db.audio ELSE migrations[i].audio,
   rows |-> Rows(i, db.rows)]

(* What is there at a version: what an upgrade added and none after it       *)
(* dropped; and what the last upgrade that said so lets a column hold.      *)
ObjectsAt(v) ==
  UNION {migrations[i].add \ UNION {migrations[j].drop : j \in i + 1 .. v} : i \in 1 .. v}
SourcesAt(v) ==
  UNION {migrations[i].sources : i \in {k \in 1 .. v : \A j \in k + 1 .. v : migrations[j].sources = {}}}
AudioAt(v) ==
  UNION {migrations[i].audio : i \in {k \in 1 .. v : \A j \in k + 1 .. v : migrations[j].audio = {}}}

(* A database that lived at a version: rows of its time, scored as that    *)
(* version scores them; who enrolled since v32 has the marker already.     *)
Unscored == [near : BOOLEAN, resident : BOOLEAN, score : {0}, floor : {0}]
Kept(v) == IF v < 1 THEN {} ELSE IF v < 21 THEN Unscored
           ELSE IF v < 22 THEN {FirstScore(m) : m \in Unscored}
           ELSE {Rejudge(FirstScore(m)) : m \in Unscored}
Lived(v) ==
  {[version |-> v, objects |-> ObjectsAt(v), sources |-> SourcesAt(v), audio |-> AudioAt(v),
    rows |-> [done |-> FALSE, icon |-> IF v >= 7 THEN "local" ELSE "none", media |-> Kept(v),
              secret |-> v >= 4 /\ enrolled, confirmed |-> v >= 32 /\ enrolled]] : enrolled \in BOOLEAN}

Media == [near : BOOLEAN, resident : BOOLEAN, score : Int, floor : Int]
MGPlaces == {"off", "looked", "refused", "lock", "read", "apply", "serves", "failed"}
MGTypeOK ==
  /\ mgDB \in [version : 0 .. Len(migrations),
               objects : SUBSET UNION {migrations[i].add : i \in 1 .. Len(migrations)},
               sources : SUBSET UNION {migrations[i].sources : i \in 1 .. Len(migrations)},
               audio : SUBSET UNION {migrations[i].audio : i \in 1 .. Len(migrations)},
               rows : [done : BOOLEAN, icon : {"none", "local", "expired"}, media : SUBSET Media,
                       secret : BOOLEAN, confirmed : BOOLEAN]]
  /\ mgTable \in BOOLEAN /\ mgLock \in MGRunners \cup {"free"}
  /\ mgRun \in [MGRunners -> [at : MGPlaces,
                              current : 0 .. Len(migrations)]]
  /\ mgLeft \in 0 .. MGCrashes

MGInit ==
  /\ mgDB \in UNION {Lived(v) : v \in MGVersions}
  /\ mgTable \in IF mgDB.version = 0 THEN BOOLEAN ELSE {TRUE}
  /\ mgLock = "free" /\ mgRun = [r \in MGRunners |-> [at |-> "off", current |-> 0]]
  /\ mgLeft = MGCrashes

Reaches(r, at) == mgRun' = [mgRun EXCEPT ![r].at = at]
(* New: the pool, then RunMigrations, which looks for schema_version before *)
(* it asks for the lock.  An instance that was refused may be started again. *)
Begin(r) ==
  /\ mgRun[r].at \in {"off", "refused"}
  /\ Reaches(r, IF mgTable THEN "lock" ELSE "looked")
  /\ UNCHANGED <<mgDB, mgTable, mgLock, mgLeft>>
(* CREATE TABLE IF NOT EXISTS of one who found none: PostgreSQL refuses the *)
(* second of two, and RunMigrations returns the error.                       *)
CreateTable(r) ==
  /\ mgRun[r].at = "looked"
  /\ Reaches(r, IF mgTable THEN "refused" ELSE "lock") /\ mgTable' = TRUE
  /\ UNCHANGED <<mgDB, mgLock, mgLeft>>
\* Mutant: nobody waits.
LockFreely(r) == mgRun[r].at = "lock" /\ Reaches(r, "read") /\ UNCHANGED <<mgDB, mgTable, mgLock, mgLeft>>
(* pg_advisory_lock, held by the session. *)
Lock(r) ==
  /\ mgRun[r].at = "lock" /\ mgLock = "free"
  /\ mgLock' = r /\ Reaches(r, "read") /\ UNCHANGED <<mgDB, mgTable, mgLeft>>
ReadVersion(r) ==
  /\ mgRun[r].at = "read"
  /\ mgRun' = [mgRun EXCEPT ![r] = [at |-> "apply", current |-> mgDB.version]]
  /\ UNCHANGED <<mgDB, mgTable, mgLock, mgLeft>>
(* One transaction: the statements, the row of schema_version, the commit.  *)
(* A second transaction on the same objects waits, and then finds them.     *)
Apply(r) ==
  /\ mgRun[r].at = "apply" /\ mgRun[r].current < Len(migrations)
  /\ LET i == mgRun[r].current + 1 IN
     IF Fits(mgDB, i)
     THEN /\ mgDB' = [Migrated(mgDB, i) EXCEPT !.version = IF mgDB.version > i THEN mgDB.version ELSE i]
          /\ mgRun' = [mgRun EXCEPT ![r].current = i]
     ELSE Reaches(r, "failed") /\ UNCHANGED mgDB
  /\ UNCHANGED <<mgTable, mgLock, mgLeft>>
Serve(r) ==
  /\ mgRun[r].at = "apply" /\ mgRun[r].current = Len(migrations)
  /\ Reaches(r, "serves") /\ mgLock' = IF mgLock = r THEN "free" ELSE mgLock
  /\ UNCHANGED <<mgDB, mgTable, mgLeft>>
(* A stop anywhere: the transaction is rolled back, the lock released. *)
Crash(r) ==
  /\ mgLeft > 0 /\ mgLeft' = mgLeft - 1
  /\ mgRun[r].at \notin {"off", "refused", "failed"}
  /\ mgRun' = [mgRun EXCEPT ![r] = [at |-> "off", current |-> 0]]
  /\ mgLock' = (IF mgLock = r THEN "free" ELSE mgLock) /\ UNCHANGED <<mgDB, mgTable>>

MGNext ==
  \E r \in MGRunners : \/ Begin(r) \/ CreateTable(r) \/ Lock(r) \/ ReadVersion(r)
                       \/ Apply(r) \/ Serve(r) \/ Crash(r)
MGSpec == MGInit /\ [][MGNext]_mgVars

-----------------------------------------------------------------------------
(* What the stores read and write. *)
Needed == {"posts", "comments", "subreddits", "oauth_tokens", "oauth_tokens.headers_json",
           "site_settings", "subreddit_status", "subreddit_status.nsfw", "sub_icons", "sub_icons.has_icon",
           "media_content", "media_content.score", "media_url", "update_asset_access", "eviction_candidates",
           "media_unavailable", "media_unavailable.dead_at", "device_profile", "prefetch_runs",
           "trusted_devices", "trusted_devices.ip_alt", "trusted_devices.ua", "link_preview",
           "link_preview.video_url"} \cup About \cup Lifespan
          \cup {"posts.media_done", "posts.shuffle_key", "posts.upstream_removed", "posts.repost_key",
                 "posts.listing_rank", "posts.listing_seen_at"}
Written == {"oauth_fallback", "natural_prefetch", "search", "user_listing", "manual_refresh"}

(* Whatever version it was at, however often the upgrade was stopped, and   *)
(* however many instances start at once, none fails on a statement of an    *)
(* upgrade that finds its object there; one that serves finds every column  *)
(* it names, sees each source and verdict it writes accepted, knows a       *)
(* resident file by its score, and takes an owner who had enrolled as       *)
(* enrolled (store/migrate.go RunMigrations, "makes the second runner       *)
(* wait"; v20, v22, v32, v35).  Starts on a fresh database may refuse each  *)
(* other before the lock, over schema_version, but never all of them.       *)
ServesUpright ==
  /\ \E r \in MGRunners : mgRun[r].at # "refused"
  /\ \A r \in MGRunners :
      /\ mgRun[r].at # "failed"
      /\ mgRun[r].at = "serves" =>
           /\ mgDB.version = Len(migrations)
           /\ Needed \subseteq mgDB.objects /\ Written \subseteq mgDB.sources
           /\ AudioStates \subseteq mgDB.audio
           /\ \A m \in mgDB.rows.media : m.resident <=> m.score >= 0
           /\ mgDB.rows.secret => mgDB.rows.confirmed

(* What every step keeps: the schema is what its version says, the rows are *)
(* judged once the upgrade that judges them is in, and who reads the        *)
(* version or upgrades has the lock, and knows the version as it is.  While *)
(* schema_version is not there nobody was refused it, and once it is, who    *)
(* created it will not be.                                                  *)
SchemaGrown ==
  /\ mgDB.objects = ObjectsAt(mgDB.version) /\ mgDB.sources = SourcesAt(mgDB.version)
  /\ mgDB.audio = AudioAt(mgDB.version)
RowsJudged ==
  /\ mgDB.version >= 22 => \A m \in mgDB.rows.media : m.resident <=> m.score >= 0
  /\ mgDB.version >= 32 => (mgDB.rows.secret => mgDB.rows.confirmed)
OneUpgrades ==
  \A r \in MGRunners : LET at == mgRun[r].at IN
    /\ at # "failed"
    /\ at \in {"read", "apply"} => mgLock = r
    /\ at = "apply" => mgRun[r].current = mgDB.version
    /\ at = "serves" => mgDB.version = Len(migrations)
OneCreates ==
  IF mgTable THEN \E r \in MGRunners : mgRun[r].at \notin {"looked", "refused"}
  ELSE \A r \in MGRunners : mgRun[r].at # "refused"
SchemaKept == MGTypeOK /\ SchemaGrown /\ RowsJudged /\ OneUpgrades /\ OneCreates
=============================================================================
