---------------------------- MODULE RangedStream ----------------------------
(***************************************************************************)
(* media/proxy.go: one body fetched from the CDN in Range chunks, either   *)
(* into the staging file of a download or through to a client              *)
(* (streamRangedTo, reverseProxy, Download).  Opening a chunk fails and is *)
(* tried again, a body breaks off and is resumed where it broke, the total *)
(* may not be known, and a chunk after the first may be refused.           *)
(*                                                                         *)
(* The origin is one of three for the whole of a body: it honours Range    *)
(* and says the total ("total"), honours it and does not ("totalless"), or *)
(* ignores it ("whole").  A byte is its number in the content.             *)
(***************************************************************************)
EXTENDS Integers, Sequences

CONSTANTS RSSizes,     \* lengths the content may have
          RSStarts,    \* first bytes a client asks for
          RSChunk,     \* mediaChunkSize
          RSRetries,   \* streamReadRetries
          RSMax        \* maxStreamBytes

ASSUME RSAssumption ==
  /\ RSSizes \subseteq Nat /\ RSStarts \subseteq Nat
  /\ RSChunk \in Nat \ {0} /\ RSRetries \in Nat /\ RSMax \in Nat

VARIABLES rsOrigin,    \* the origin: its kind, the content's size, media or html
          rsUse,       \* "download", or for a client "range" or "plain" (no Range header)
          rsPc,        \* where the goroutine is; at the end how it ended
          rsCall,      \* the running streamRangedTo: status, total, written, resumes
          rsOpens,     \* attempts to open the chunk that have failed
          rsOffset,    \* the next byte to ask for
          rsGot,       \* the bytes written: to the staging file or the client
          rsPromise,   \* Content-Length sent to the client; Unknown: none
          rsRefused    \* ghost: the origin refused a chunk it had more bytes for
rsVars == <<rsOrigin, rsUse, rsPc, rsCall, rsOpens, rsOffset, rsGot, rsPromise, rsRefused>>

Unknown == -1
Ends == {"stored", "rejected", "failed", "gone", "struck", "sent", "short", "aborted", "loader"}
NoCall == [status |-> 0, total |-> Unknown, written |-> 0, resumes |-> 0]

Origins == [kind : {"total", "totalless", "whole"}, size : RSSizes, media : BOOLEAN]
CallType == [status : {0, 200, 206}, total : RSSizes \cup {Unknown}, written : Nat, resumes : Nat]
RSTypeOK ==
  /\ rsOrigin \in Origins
  /\ rsUse \in {"download", "range", "plain"}
  /\ rsPc \in {"peek", "open", "body"} \cup Ends
  /\ rsCall \in CallType /\ rsOpens \in 0 .. RSRetries
  /\ rsOffset \in Nat /\ rsGot \in Seq(Nat)
  /\ rsPromise \in Nat \cup {Unknown} /\ rsRefused \in BOOLEAN

-----------------------------------------------------------------------------
(* The origin's answer to bytes=offset-: a status, its total, its body. *)
StatusAt(offset) == IF rsOrigin.kind = "whole" THEN 200
                    ELSE IF offset >= rsOrigin.size THEN 416 ELSE 206
TotalSaid == IF rsOrigin.kind = "total" THEN rsOrigin.size ELSE Unknown
GetRange(from, upto) == [i \in 1 .. (IF upto > from THEN upto - from ELSE 0) |-> from + i - 1]
BodyAt(offset) ==
  IF rsOrigin.kind = "whole" THEN GetRange(0, rsOrigin.size)
  ELSE GetRange(offset, IF offset + RSChunk < rsOrigin.size THEN offset + RSChunk ELSE rsOrigin.size)

-----------------------------------------------------------------------------
(* Download: what becomes of the staging file. *)

\* A 404 or 410 is remembered; a refusal, or no answer at all, is a strike.
Fail(status) == IF status \in {404, 410} THEN "gone"
                ELSE IF status = 0 \/ status >= 400 THEN "struck" ELSE "failed"
Published == IF rsOrigin.media THEN "stored" ELSE "rejected"

(* The caller of streamRangedTo takes its result: an error, with the status *)
(* of the first chunk, or nil.  A client whose length was promised has its  *)
(* connection broken off, another one sees the body just end.               *)
Return(status, ok) ==
  rsPc' = IF rsUse = "download" THEN (IF ok THEN Published ELSE Fail(status))
          ELSE IF ok THEN "sent"
          ELSE IF rsPromise # Unknown THEN "aborted" ELSE "short"

-----------------------------------------------------------------------------
(* streamRangedTo. *)

\* No connection: again, until the attempts or the caller's patience are gone.
OpenFails(patient) ==
  /\ rsPc = "open"
  /\ IF patient /\ rsOpens < RSRetries
     THEN rsOpens' = rsOpens + 1 /\ UNCHANGED rsPc
     ELSE Return(rsCall.status, FALSE) /\ UNCHANGED rsOpens
  /\ UNCHANGED <<rsOrigin, rsUse, rsCall, rsOffset, rsGot, rsPromise, rsRefused>>

\* An answer that is not a body: an error on the first chunk, after it an end.
Refuse(status) ==
  /\ rsPc = "open"
  /\ status = 416 <=> StatusAt(rsOffset) = 416
  /\ Return(status, rsCall.written > 0)
  /\ rsRefused' = (rsRefused \/ status # 416)
  /\ UNCHANGED <<rsOrigin, rsUse, rsCall, rsOpens, rsOffset, rsGot, rsPromise>>

\* The first answer gives the call its status and its total.
Open ==
  /\ rsPc = "open" /\ StatusAt(rsOffset) \in {200, 206}
  /\ rsCall' = IF rsCall.status # 0 THEN rsCall
               ELSE [rsCall EXCEPT !.status = StatusAt(rsOffset), !.total = TotalSaid]
  /\ rsOpens' = 0 /\ rsPc' = "body"
  /\ UNCHANGED <<rsOrigin, rsUse, rsOffset, rsGot, rsPromise, rsRefused>>

\* Mutant: a chunk that broke off is asked for again from its first byte.
CopiedFromItsStart(n) ==
  /\ rsGot' = rsGot \o SubSeq(BodyAt(rsOffset), 1, n)
  /\ rsOffset' = IF n = Len(BodyAt(rsOffset)) THEN rsOffset + n ELSE rsOffset
(* n bytes of the body come through: they are written and counted. *)
Copied(n) ==
  /\ rsGot' = rsGot \o SubSeq(BodyAt(rsOffset), 1, n)
  /\ rsOffset' = rsOffset + n

TooMuch(n) == rsCall.written + n > RSMax

\* The body breaks off: resumed, when the total says that more is to come.
Resumes(n, patient) == /\ rsCall.total > 0 /\ rsOffset + n < rsCall.total
                       /\ rsCall.resumes < RSRetries /\ patient
BreaksOff(n, patient) ==
  /\ rsPc = "body" /\ n < Len(BodyAt(rsOffset))
  /\ Copied(n)
  /\ IF ~ TooMuch(n) /\ Resumes(n, patient)
     THEN /\ rsPc' = "open"
          /\ rsCall' = [rsCall EXCEPT !.written = @ + n, !.resumes = @ + 1]
     ELSE /\ Return(rsCall.status, FALSE)
          /\ rsCall' = [rsCall EXCEPT !.written = @ + n]
  /\ UNCHANGED <<rsOrigin, rsUse, rsOpens, rsPromise, rsRefused>>

(* A chunk read to its end is the last one of a 200, when it is empty, when *)
(* it reaches the total, or when without a total it is short.               *)
LastChunk(status, total, n) ==
  \/ status = 200
  \/ n = 0
  \/ total >= 0 /\ rsOffset + n >= total
  \/ total < 0 /\ n < RSChunk
ReadToEnd ==
  LET n == Len(BodyAt(rsOffset))
  IN  /\ rsPc = "body"
      /\ Copied(n)
      /\ rsCall' = [rsCall EXCEPT !.written = @ + n]
      /\ IF TooMuch(n) THEN Return(rsCall.status, FALSE)
         ELSE IF LastChunk(rsCall.status, rsCall.total, n) THEN Return(rsCall.status, TRUE)
         ELSE rsPc' = "open"
      /\ UNCHANGED <<rsOrigin, rsUse, rsOpens, rsPromise, rsRefused>>

-----------------------------------------------------------------------------
(* reverseProxy: the first chunk is looked at before the headers are sent. *)

\* No answer, or one without a body: the spinner, and nothing of the content.
PeekFails ==
  /\ rsPc = "peek" /\ rsPc' = "loader"
  /\ UNCHANGED <<rsOrigin, rsUse, rsCall, rsOpens, rsOffset, rsGot, rsPromise, rsRefused>>

Promised == IF TotalSaid = Unknown THEN Unknown
            ELSE TotalSaid - rsOffset     \* with Range and without alike
Peek ==
  /\ rsPc = "peek" /\ rsPromise = Unknown /\ rsGot = <<>>
  /\ StatusAt(rsOffset) \in {200, 206}
  /\ rsPromise' = Promised
  /\ \E n \in 0 .. Len(BodyAt(rsOffset)) :
       /\ Copied(n)
       /\ IF n < Len(BodyAt(rsOffset))
          THEN rsPc' = IF Promised # Unknown THEN "aborted" ELSE "short"
          ELSE rsPc' = IF LastChunk(StatusAt(rsOffset), TotalSaid, n) THEN "sent" ELSE "open"
  /\ UNCHANGED <<rsOrigin, rsUse, rsCall, rsOpens, rsRefused>>

-----------------------------------------------------------------------------
RSInit ==
  /\ rsOrigin \in Origins
  /\ \/ rsUse = "download" /\ rsPc = "open" /\ rsOffset = 0
     \/ rsUse = "plain" /\ rsPc = "peek" /\ rsOffset = 0
     \/ rsUse = "range" /\ rsPc = "peek" /\ rsOffset \in RSStarts
  /\ rsCall = NoCall /\ rsOpens = 0 /\ rsGot = <<>> /\ rsPromise = Unknown /\ rsRefused = FALSE

RSNext ==
  \/ \E patient \in BOOLEAN : OpenFails(patient)
  \/ \E status \in {404, 416, 503} : Refuse(status)
  \/ Open
  \/ \E n \in 0 .. RSChunk, patient \in BOOLEAN : BreaksOff(n, patient)
  \/ ReadToEnd
  \/ PeekFails
  \/ Peek
RSSpec == RSInit /\ [][RSNext]_rsVars

-----------------------------------------------------------------------------
(* What arrives is the content, in its order and without a gap, whichever   *)
(* chunks were opened twice or broke off, and a body that ends as if it     *)
(* were all of it is all of it, unless a later chunk was refused            *)
(* (streamRangedTo, proxy.go: a resume, an unknown total, a 416).           *)
FirstByte == IF rsOrigin.kind = "whole" \/ rsGot = <<>> THEN 0 ELSE Head(rsGot)
InOrder == \A i \in DOMAIN rsGot : rsGot[i] = FirstByte + i - 1
All == /\ InOrder
       /\ Len(rsGot) > 0 => rsGot[Len(rsGot)] = rsOrigin.size - 1
       /\ rsPromise # Unknown => Len(rsGot) = rsPromise
WholeUnlessRefused ==
  /\ InOrder
  /\ rsPc \in {"stored", "sent"} => All \/ rsRefused

(* What every step keeps.  Of an origin that honours Range the bytes lie    *)
(* one after the other up to the next one to ask for; of one that ignores   *)
(* it the first answer ends the body, whatever becomes of it.               *)
Whole == rsOrigin.kind = "whole"
Ahead == rsOffset - Len(rsGot)      \* where the body began
InPlace == \A i \in 1 .. Len(rsGot) : rsGot[i] = (IF Whole THEN 0 ELSE Ahead) + i - 1
CallTrue == /\ rsCall.status \in {0, IF Whole THEN 200 ELSE 206}
            /\ rsCall.total = (IF rsCall.status = 0 THEN Unknown ELSE TotalSaid)
            /\ rsCall.written <= Len(rsGot)
Streamed ==
  /\ RSTypeOK /\ InPlace /\ CallTrue
  /\ Whole /\ rsPc \in {"peek", "open", "body"} => rsGot = <<>>
  /\ ~Whole /\ rsGot # <<>> => rsOffset <= rsOrigin.size
  /\ rsPc = "body" => rsCall.status # 0 /\ (~Whole => rsOffset < rsOrigin.size)
  /\ rsPromise # Unknown => rsOrigin.kind = "total" /\ rsPromise = rsOrigin.size - Ahead
  /\ rsPc \in {"stored", "sent"} /\ ~rsRefused
       => IF Whole THEN Len(rsGot) = rsOrigin.size ELSE rsOffset = rsOrigin.size

(* A body that was cut short is never kept as the file: "a truncated-but-   *)
(* clean file the browser renders as corrupt" is what reverseProxy breaks   *)
(* the connection off to avoid, and what the cache would serve from then on *)
(* (Download and streamRangedTo, proxy.go: a later chunk refused).          *)
TruncatedIsNeverKept == rsPc = "stored" => All
=============================================================================
