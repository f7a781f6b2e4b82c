----------------------------- MODULE PostMedia -----------------------------
(***************************************************************************)
(* Which files a post is made of: what the parser takes from Reddit's       *)
(* payload (reddit/parser.go), how its addresses become paths of this site  *)
(* and addresses again (reddit/url.go, handler/static.go), which of them    *)
(* the prefetcher keeps (prefetch/scheduler.go ExtractMediaItems and the    *)
(* comment harvest), and which of them the pages then show (render/).       *)
(*                                                                         *)
(* An address is [host, path, height, sig]: the host, or the prefix of a    *)
(* path of this site; the height of a video's rendition, 0 for the rest;    *)
(* the signed query, which no key looks at and which upstream checks.       *)
(***************************************************************************)
EXTENDS Integers, FiniteSets, NoneValue

CONSTANTS PMPayloads,   \* posts as Reddit describes them
          PMThreads,    \* sets of links in the comments of the post
          PMPasted,     \* what an edit may paste into the text
          PMFaults      \* bound: downloads that fail

(* What Reddit's answer holds: videos are at v.redd.it, pictures and        *)
(* previews at three hosts, thumbnails there or at two more; the address a  *)
(* post links to is anywhere.                                               *)
Photos == {"i.redd.it", "preview.redd.it", "external-preview.redd.it"}
Thumbs == Photos \cup {"a.thumbs", "b.thumbs"}
Address(u) == DOMAIN u = {"host", "path", "height", "sig"}
Hosted(u, hosts) == u # None => Address(u) /\ u.host \in hosts
Clipped(v) == v # None => Hosted(v.url, {"v.redd.it"})
Payload(d) ==
  /\ DOMAIN d = {"thumb", "preview", "secure", "parent", "hint", "mp4", "source", "url", "self", "isGallery",
                 "items", "long", "moderated", "links"}
  /\ Clipped(d.preview) /\ Clipped(d.secure) /\ Hosted(d.thumb, Thumbs) /\ Address(d.url)
  /\ Hosted(d.source, Photos) /\ Hosted(d.mp4, Photos) /\ \A u \in d.items : Hosted(u, Photos)
  /\ d.parent # None => /\ Clipped(d.parent.secure) /\ Hosted(d.parent.source, Photos)
                        /\ \A u \in d.parent.items : Hosted(u, Photos)
ASSUME PMAssumption == \A d \in PMPayloads : Payload(d)

VARIABLES pmData,    \* what Reddit holds: [post, comments]
          pmPost,    \* the archived post, None before
          pmThread,  \* links in the archived comments
          pmKept,    \* keys on disk
          pmDone,    \* posts.media_done
          pmWave,    \* the wave that has the post in hand, and what it has read
          pmSeen,    \* post and comments as the wave that marked the post last had read them
          pmTold,    \* L3 archived the comments, between no wave's reading and its mark
          pmLeft
pmVars == <<pmData, pmPost, pmThread, pmKept, pmDone, pmWave, pmSeen, pmTold, pmLeft>>

-----------------------------------------------------------------------------
(* reddit/url.go *)
Pages == {"www.reddit.com", "old.reddit.com"}
Local(host) ==
  CASE host \in Pages -> "/" [] host = "i.redd.it" -> "/img/" [] host = "a.thumbs" -> "/thumb/a/"
    [] host = "b.thumbs" -> "/thumb/b/" [] host = "emoji" -> "/emoji/" [] host = "preview.redd.it" -> "/preview/pre/"
    [] host = "external-preview.redd.it" -> "/preview/external-pre/" [] host = "styles" -> "/style/"
    [] host = "redditstatic" -> "/static/" [] host = "s3" -> "/emote/" [] OTHER -> host
FormatURL(u) ==
  IF u = None THEN None
  ELSE IF u.host = "v.redd.it" THEN [u EXCEPT !.host = IF u.path = "HLSPlaylist" THEN "/hls/" ELSE "/vid/"]
  ELSE [u EXCEPT !.host = Local(u.host)]
(* UnformatURL takes /emoji/ for the S3 bucket, and does not know /emote/. *)
Remote(host) ==
  CASE host = "/img/" -> "i.redd.it" [] host = "/preview/external-pre/" -> "external-preview.redd.it"
    [] host = "/preview/pre/" -> "preview.redd.it" [] host = "/thumb/a/" -> "a.thumbs" [] host = "/thumb/b/" -> "b.thumbs"
    [] host \in {"/vid/", "/hls/"} -> "v.redd.it" [] host = "/emoji/" -> "s3"
    [] host = "/static/" -> "redditstatic" [] host = "/style/" -> "styles" [] OTHER -> host
UnformatURL(u) == [u EXCEPT !.host = Remote(u.host)]
CanonicalKey(u) == [host |-> u.host, path |-> u.path, height |-> u.height]
VideoQualityURL(u, want) == IF want \in 1 .. u.height - 1 THEN [u EXCEPT !.height = want] ELSE u

(* handler/static.go: what a request for a path of this site fetches. *)
pathToCDNURL(host) ==
  CASE host = "/img/" -> "i.redd.it" [] host = "/preview/pre/" -> "preview.redd.it"
    [] host = "/preview/external-pre/" -> "external-preview.redd.it" [] host = "/thumb/a/" -> "a.thumbs"
    [] host = "/thumb/b/" -> "b.thumbs" [] host = "/emoji/" -> "emoji" [] host = "/style/" -> "styles"
VideoRoutes == {"/vid/", "/hls/"}
Routed(u) == u.host \in {"/img/", "/preview/pre/", "/preview/external-pre/", "/thumb/a/", "/thumb/b/", "/emoji/", "/style/"} \cup VideoRoutes
Served(u) == [u EXCEPT !.host = IF u.host \in VideoRoutes THEN "v.redd.it" ELSE pathToCDNURL(u.host)]

(* Bodies: a set of links [url, bare], bare when the text is the address. *)
Inlined == {"preview.redd.it", "external-preview.redd.it", "i.redd.it"}
RewriteURLs(links) ==
  {[l EXCEPT !.url = IF @.host \in Inlined \cup Pages \cup {"redditstatic", "styles"} THEN FormatURL(@) ELSE @] : l \in links}
Pictures == {"/img/", "/preview/pre/", "/preview/external-pre/"}
(* EmbedCommentImages: a bare link to a picture becomes the picture. *)
Embedded(links) == {l.url : l \in {l \in links : l.bare /\ l.url.host \in Pictures}}
ExtractBodyImageURLs(links) == {UnformatURL(l.url) : l \in {l \in links : l.url.host \in Pictures}}

-----------------------------------------------------------------------------
(* reddit/parser.go, for the media of a post. *)
Video(v, poster) == [type |-> IF v.gif THEN "gif" ELSE "video", url |-> FormatURL(v.url), poster |-> FormatURL(poster)]
Plain(type, u) == [type |-> type, url |-> u, poster |-> None]
Image(d) ==
  IF d.mp4 # None THEN Plain("gif", FormatURL(d.mp4))
  ELSE Plain("image", FormatURL(IF d.url.host = "i.redd.it" THEN d.url ELSE d.source))
parseMedia(d) ==
  CASE d.preview # None -> Video(d.preview, d.source)
    [] d.preview = None /\ d.secure # None -> Video(d.secure, d.source)
    [] d.preview = None /\ d.secure = None /\ d.parent # None /\ d.parent.secure # None -> Video(d.parent.secure, d.parent.source)
    [] OTHER -> CASE d.hint -> Image(d)
                  [] ~d.hint /\ d.self -> Plain("self", None)
                  [] ~d.hint /\ ~d.self /\ (d.isGallery \/ (d.parent # None /\ d.parent.isGallery)) -> Plain("gallery", None)
                  [] OTHER -> IF d.url.host = "i.redd.it" THEN Plain("image", FormatURL(d.url)) ELSE Plain("link", d.url)
(* An item whose address is missing stays as an empty one. *)
parseGallery(d) ==
  {FormatURL(u) : u \in IF d.items # {} \/ d.parent = None THEN d.items ELSE d.parent.items}
buildPost(d) ==
  LET m == parseMedia(d) IN
  [type |-> m.type, media |-> m.url, poster |-> m.poster, thumb |-> FormatURL(d.thumb), gallery |-> parseGallery(d),
   long |-> d.long, links |-> IF d.moderated THEN {} ELSE RewriteURLs(d.links)]

-----------------------------------------------------------------------------
(* prefetch/scheduler.go *)
Gathered(p) ==
  {UnformatURL(u) : u \in ({p.poster} \cup p.gallery
     \cup (IF p.type # "link" THEN {p.media} ELSE {})
     \cup (IF p.type \notin {"image", "video", "gif", "self"} THEN {p.thumb} ELSE {})) \ {None}}
ExtractMediaItems(p) == Gathered(p) \cup ExtractBodyImageURLs(p.links)
commentMediaURLs(thread) == ExtractBodyImageURLs(thread)
Keys(urls) == {CanonicalKey(u) : u \in urls}

-----------------------------------------------------------------------------
(* render/: the files a page asks this site for. *)
External(links) == {l.url : l \in {l \in links : l.bare /\ l.url.host = "example.com"}}
listingPreviewURL(p) ==
  CASE p.long -> {}
    [] ~p.long /\ p.type = "link" -> IF p.media.host = "example.com" THEN {p.media} ELSE {}
    [] ~p.long /\ p.type = "self" /\ Cardinality(External(p.links)) = 1 -> External(p.links)
    [] OTHER -> {}
ShowsImage(p) == IF p.type = "image" THEN {p.media} ELSE {}
ShowsVideo(p, want) == IF p.type \in {"gif", "video"} THEN {VideoQualityURL(p.media, want)} ELSE {}
ShowsGallery(p) == IF p.type = "gallery" THEN p.gallery ELSE {}
postDetail(p, want) == (ShowsImage(p) \cup ShowsVideo(p, want) \cup ShowsGallery(p) \cup Embedded(p.links)) \ {None}
CardImage(p) == IF p.type = "image" THEN {p.media} ELSE {}
CardGif(p, want) == IF p.type = "gif" THEN {VideoQualityURL(p.media, want)} ELSE {}
CardVideo(p, want) == IF p.type = "video" THEN {VideoQualityURL(p.media, want), p.poster} ELSE {}
CardGallery(p) == IF p.type = "gallery" THEN p.gallery ELSE {}
CardThumbnail(p) == IF listingPreviewURL(p) # {} THEN {p.thumb} ELSE {}
Cards(p, want) ==
  (CardImage(p) \cup CardGif(p, want) \cup CardVideo(p, want) \cup CardGallery(p)
   \cup (IF p.type = "self" THEN {} ELSE CardThumbnail(p))) \ {None}
Found(u) == Routed(u) /\ CanonicalKey(Served(u)) \in pmKept

-----------------------------------------------------------------------------
PMInit ==
  /\ pmData \in [post : PMPayloads, comments : PMThreads]
  /\ pmPost = None /\ pmThread = {} /\ pmKept = {} /\ pmDone = FALSE
  /\ pmWave = None /\ pmSeen = None /\ pmTold = TRUE /\ pmLeft = PMFaults

(* L1, or a reader, archives the post, again when it has changed: the row   *)
(* keeps its flag.                                                          *)
Archive ==
  /\ pmPost # buildPost(pmData.post) /\ pmPost' = buildPost(pmData.post)
  /\ UNCHANGED <<pmData, pmThread, pmKept, pmDone, pmWave, pmSeen, pmTold, pmLeft>>
(* runL2Wave, for one post, which it has in hand for minutes: the list of   *)
(* posts that need media, ...                                               *)
BeginWave ==
  /\ pmPost # None /\ ~pmDone /\ pmWave = None
  /\ pmWave' = [at |-> "listed", post |-> pmPost, thread |-> {}]
  /\ UNCHANGED <<pmData, pmPost, pmThread, pmKept, pmDone, pmSeen, pmTold, pmLeft>>
(* ... the comments, when the wave comes to the post, ...                   *)
Harvest ==
  /\ pmWave # None /\ pmWave.at = "listed"
  /\ pmWave' = [pmWave EXCEPT !.at = "read", !.thread = pmThread]
  /\ UNCHANGED <<pmData, pmPost, pmThread, pmKept, pmDone, pmSeen, pmTold, pmLeft>>
(* ... what is not there, of which a file may fail, ...                     *)
Needed(w) == Keys(ExtractMediaItems(w.post) \cup commentMediaURLs(w.thread))
Download ==
  /\ pmWave # None /\ pmWave.at = "read"
  /\ \/ /\ pmKept' = pmKept \cup Needed(pmWave)
        /\ pmWave' = [pmWave EXCEPT !.at = "fetched"] /\ UNCHANGED pmLeft
     \/ /\ pmLeft > 0 /\ pmLeft' = pmLeft - 1 /\ pmWave' = None
        /\ \E failed \in Needed(pmWave) \ pmKept : pmKept' = pmKept \cup (Needed(pmWave) \ {failed})
  /\ UNCHANGED <<pmData, pmPost, pmThread, pmDone, pmSeen, pmTold>>
(* ... and the mark, whatever the row has become meanwhile.                 *)
Mark ==
  /\ pmWave # None /\ pmWave.at = "fetched"
  /\ pmDone' = TRUE /\ pmSeen' = [post |-> pmWave.post, thread |-> pmWave.thread] /\ pmWave' = None
  /\ UNCHANGED <<pmData, pmPost, pmThread, pmKept, pmTold, pmLeft>>
(* The wave's context ends. *)
Cancel ==
  /\ pmWave # None /\ pmWave' = None /\ pmLeft > 0 /\ pmLeft' = pmLeft - 1
  /\ UNCHANGED <<pmData, pmPost, pmThread, pmKept, pmDone, pmSeen, pmTold>>
HasRead == pmWave # None /\ pmWave.at \in {"read", "fetched"}
\* Mutant: L3 does not re-arm L2.
RearmedNever == pmDone
(* L3 archives the comments, and has L2 look again for a picture that is    *)
(* not there: a wave that has read the comments already marks over it.      *)
Rearmed == pmDone /\ Keys(commentMediaURLs(pmThread')) \subseteq pmKept
FetchComments ==
  /\ pmPost # None
  /\ pmThread' = RewriteURLs(pmData.comments) /\ pmTold' = ~HasRead /\ pmDone' = Rearmed
  /\ UNCHANGED <<pmData, pmPost, pmKept, pmWave, pmSeen, pmLeft>>
(* A reader's visit archives the comments and tells nobody; the browser     *)
(* asks for the pictures it gets to see.                                    *)
Visit ==
  /\ pmPost # None /\ pmThread = {}
  /\ pmThread' = RewriteURLs(pmData.comments) /\ pmTold' = FALSE
  /\ \E seen \in SUBSET (postDetail(pmPost, 0) \cup Embedded(pmThread')) :
       pmKept' = pmKept \cup {CanonicalKey(Served(u)) : u \in {u \in seen : Routed(u)}}
  /\ UNCHANGED <<pmData, pmPost, pmDone, pmWave, pmSeen, pmLeft>>
(* Someone answers with a picture. *)
Reply ==
  /\ \E t \in PMThreads : pmData.comments \subseteq t /\ t # pmData.comments /\ pmData' = [pmData EXCEPT !.comments = t]
  /\ UNCHANGED <<pmPost, pmThread, pmKept, pmDone, pmWave, pmSeen, pmTold, pmLeft>>
(* The author edits the text. *)
Edit ==
  /\ pmData' = [pmData EXCEPT !.post.links = @ \cup PMPasted] /\ pmData' # pmData
  /\ UNCHANGED <<pmPost, pmThread, pmKept, pmDone, pmWave, pmSeen, pmTold, pmLeft>>

PMNext == Archive \/ BeginWave \/ Harvest \/ Download \/ Mark \/ Cancel \/ FetchComments \/ Visit \/ Reply \/ Edit
PMSpec == PMInit /\ [][PMNext]_pmVars

-----------------------------------------------------------------------------
(* A post marked done has every file its page asks for on disk, under the   *)
(* key the request leads to: while the post is as the wave read it, the     *)
(* media at the source's quality, the gallery and the pictures pasted into  *)
(* its text; and those pasted into the comments, while these are as the     *)
(* wave read them, or when L3 archived them and no wave was then between    *)
(* its reading and its mark (scheduler.go ExtractMediaItems, "otherwise the *)
(* inline image 403s once the s= signature expires").                       *)
PageIsKept ==
  pmPost # None /\ pmDone =>
    /\ pmPost = pmSeen.post => \A u \in postDetail(pmPost, 0) \cup Cards(pmPost, 0) : Found(u)
    /\ pmTold \/ pmThread = pmSeen.thread => \A u \in Embedded(pmThread) : Found(u)

(* What every step keeps: the post Reddit holds is one it can hold, every   *)
(* file of the archived post has an address of this site, and what a wave   *)
(* had read when it fetched, and then when it marked the post, is on disk,  *)
(* as is what L3 told L2 of; a wave that L3 has not overtaken has read the  *)
(* comments as they are.                                                    *)
Ours == {"/img/", "/preview/pre/", "/preview/external-pre/", "/thumb/a/", "/thumb/b/"} \cup VideoRoutes
Parts(p) == {p.poster, p.thumb} \cup p.gallery \cup (IF p.type # "link" THEN {p.media} ELSE {})
PostsKept ==
  /\ DOMAIN pmData = {"post", "comments"} /\ Payload(pmData.post)
  /\ pmPost # None => \A u \in Parts(pmPost) \ {None} : u.host \in Ours
  /\ pmDone => Needed(pmSeen) \subseteq pmKept
  /\ pmWave # None => DOMAIN pmWave = {"at", "post", "thread"}
  /\ HasRead => /\ pmWave.at = "fetched" => Needed(pmWave) \subseteq pmKept
                /\ pmTold => pmWave.thread = pmThread
  /\ pmDone /\ pmTold => Keys(commentMediaURLs(pmThread)) \subseteq pmKept
=============================================================================
