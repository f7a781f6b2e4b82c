------------------------- MODULE PostArchiveProofs --------------------------
(***************************************************************************)
(* What the database keeps. Proofs about PostArchive, for every set of     *)
(* requests and comments and every bound: the types, GoodCopy and          *)
(* Coalesced are inductive together; StickyGone and SettledStays follow    *)
(* from them step by step. And about the schema the archive lives in: what *)
(* an upgrade finds and leaves, for every number of instances that start   *)
(* and every stop.                                                         *)
(***************************************************************************)
EXTENDS PostArchive, Migrations, TLAPS

-----------------------------------------------------------------------------
(* PostArchive: copies, flights and verdicts.                              *)

LEMMA RequestFields ==
    ASSUME NEW q \in Request
    PROVE  q.pc \in Places /\ q.kind \in Kinds /\ q.stored \in Row /\ q.got \in Answer
BY DEF Request

LEMMA AnswerFields ==
    ASSUME NEW a \in Answer
    PROVE  /\ a.ok \in BOOLEAN /\ a.gone \in BOOLEAN
           /\ a.ver \in Versions /\ a.coms \in [Comments -> Live]
BY DEF Answer

LEMMA WorkFields ==
    ASSUME NEW w \in Work
    PROVE  /\ w.load \in Answer /\ w.prior \in [Comments -> Node]
           /\ w.short \in BOOLEAN /\ w.comments \in BOOLEAN
BY DEF Work

LEMMA RowFields ==
    ASSUME NEW s \in Row
    PROVE  s.there \in BOOLEAN /\ s.gone \in BOOLEAN /\ s.blank \in BOOLEAN /\ s.ver \in Versions
BY DEF Row

LEMMA EmptyTypes ==
    /\ 0 \in Versions /\ NoRow \in Row /\ NoPage \in Page
    /\ Empty \in [Comments -> Live] /\ Empty \in [Comments -> Node] /\ Failed \in Answer
<1>1. 0 \in Versions  BY MaxAssumption DEF Versions
<1>2. Empty \in [Comments -> Live] /\ Empty \in [Comments -> Node]  BY DEF Empty, Live,
    Node
<1>q. QED BY <1>1, <1>2 DEF NoRow, NoPage, Row, Page, Failed, Answer

LEMMA IdleType ==
    Idle \in Request /\ Idle.pc = "idle"
BY EmptyTypes DEF Idle, Request, Places, Kinds

LEMMA DoneType == Done \in Work /\ Done.pc = "idle"
BY EmptyTypes DEF Done, Work

LEMMA AtPlace ==
    ASSUME NEW q \in Request, NEW p \in Places
    PROVE  LET n == [q EXCEPT !.pc = p] IN n \in Request /\ n.pc = p /\ n.kind = q.kind
BY DEF Request

LEMMA StartType ==
    ASSUME NEW k \in Kinds, NEW p \in Places
    PROVE  LET n == [Idle EXCEPT !.kind = k, !.pc = p] IN n \in Request /\ n.pc = p /\ n.kind = k
BY EmptyTypes DEF Idle, Request

LEMMA SpawnType ==
    ASSUME TypeOK, NEW r \in Requests, NEW p \in {"post", "read"}, Spawn(r, p)
    PROVE  arch' \in [Requests -> Work]
<1>1. req[r].got \in Answer  BY RequestFields DEF TypeOK
<1>2. \A a \in Answer, b \in BOOLEAN, d \in BOOLEAN :
         [Done EXCEPT !.pc = p, !.load = a, !.short = b, !.comments = d] \in Work
  BY EmptyTypes DEF Done, Work
<1>3. /\ (req[r].kind = "replies") \in BOOLEAN
      /\ (req[r].kind # "listing") \in BOOLEAN
  OBVIOUS
<1> DEFINE n == [Done EXCEPT !.pc = p, !.load = req[r].got,
                             !.short = (req[r].kind = "replies"),
                             !.comments = (req[r].kind # "listing")]
<1>4. n \in Work  BY <1>1, <1>2, <1>3, Zenon
<1>5. arch' = [arch EXCEPT ![r] = n]  BY DEF Spawn
<1>q. QED BY <1>4, <1>5 DEF TypeOK

LEMMA RestType ==
    ASSUME TypeOK, NEW r \in Requests, Rest(r) PROVE arch' \in [Requests -> Work]
BY DoneType DEF Rest, TypeOK

LEMMA TurnType ==
    ASSUME TypeOK, NEW r \in Requests, NEW p \in {"idle", "post", "read", "save"},
        Turn(r, p)
    PROVE  arch' \in [Requests -> Work]
<1>1. arch[r] \in Work  BY DEF TypeOK
<1>2. [arch[r] EXCEPT !.pc = p] \in Work  BY <1>1 DEF Work
<1>q. QED BY <1>2 DEF Turn, TypeOK

LEMMA FaultType == ASSUME TypeOK, Fault PROVE faults' \in 0..MaxFaults
BY MaxAssumption DEF Fault, TypeOK

LEMMA SnapshotType ==
    ASSUME TypeOK, NEW s \in SUBSET Comments PROVE Snapshot(s) \in Answer
<1>1. /\ upstream.gone \in BOOLEAN /\ upstream.ver \in Versions
      /\ upstream.coms \in [Comments -> Live]
  BY DEF TypeOK, Posted
<1> DEFINE n == [c \in Comments |-> IF c \in s THEN upstream.coms[c] ELSE "none"]
<1>2. n \in [Comments -> Live]  BY <1>1 DEF Live
<1>3. Snapshot(s) = [ok |-> TRUE, gone |-> upstream.gone, ver |-> upstream.ver, coms |-> n]
  BY DEF Snapshot
<1>4. \A b, v, m : b \in BOOLEAN /\ v \in Versions /\ m \in [Comments -> Live]
         => [ok |-> TRUE, gone |-> b, ver |-> v, coms |-> m] \in Answer
  BY DEF Answer
<1>q. QED BY <1>1, <1>2, <1>3, <1>4

LEMMA PartType == ASSUME NEW k PROVE Part(k) \subseteq SUBSET Comments
BY DEF Part

LEMMA MergedType ==
    ASSUME NEW old \in [Comments -> Node], NEW new \in [Comments -> Live]
    PROVE  Merged(old, new) \in [Comments -> Node]
<1>1. \A c \in Comments : old[c] \in Node /\ new[c] \in Node  BY DEF Node
<1>2. "kept" \in Node  BY DEF Node
<1>q. QED BY <1>1, <1>2 DEF Merged

\* What archivePost makes of the row: still typed, never blank, never unmarked.
LEMMA PostWrittenFacts ==
    ASSUME TypeOK, GoodCopy, NEW a \in Answer
    PROVE  /\ PostWritten(a) \in Row
           /\ ~PostWritten(a).blank
           /\ PostWritten(a).gone => PostWritten(a).there
           /\ row.gone => PostWritten(a).gone
<1>1. row \in Row  BY DEF TypeOK
<1>2. CASE ~allow  BY <1>1, <1>2 DEF PostWritten, GoodCopy
<1>3. CASE allow /\ a.gone
  <2>1. PostWritten(a) = [row EXCEPT !.gone = row.there]  BY <1>3 DEF PostWritten
  <2>q. QED BY <1>1, <2>1 DEF Row, GoodCopy
<1>4. CASE allow /\ ~a.gone
  <2>1. PostWritten(a) = [there |-> TRUE, gone |-> row.gone, blank |-> a.gone, ver |-> a.ver]
    BY <1>4 DEF PostWritten, Saved
  <2>2. row.gone \in BOOLEAN  BY <1>1, RowFields
  <2>3. a.gone \in BOOLEAN /\ a.ver \in Versions  BY AnswerFields
  <2>q. QED BY <1>4, <2>1, <2>2, <2>3 DEF Row
<1>q. QED BY <1>2, <1>3, <1>4 DEF TypeOK

\* A step of one request keeps Coalesced when the request neither takes nor
\* leaves the flight.
LEMMA Aside ==
    ASSUME Coalesced, TypeOK, NEW r \in Requests,
           \A f \in Requests \ {r} : req'[f] = req[f],
           leader' = leader, leader # r,
           req'[r].pc # "wait", req'[r].kind = "view" => req'[r].pc \notin Fetching
    PROVE  Coalesced'
<1>1. leader # NoOne => leader \in Requests \ {r}  BY DEF TypeOK
<1>2. leader' # NoOne => req'[leader'].kind = "view" /\ req'[leader'].pc \in Fetching
  BY <1>1 DEF Coalesced
<1>3. ASSUME NEW f \in Requests
      PROVE  /\ req'[f].kind = "view" /\ req'[f].pc \in Fetching => leader' = f
             /\ req'[f].pc = "wait" => req'[f].kind = "view" /\ leader' # NoOne
  <2>1. CASE f = r  BY <2>1
  <2>2. CASE f # r  BY <2>2 DEF Coalesced
  <2>q. QED BY <2>1, <2>2
<1>q. QED BY <1>2, <1>3 DEF Coalesced

\* Who is not fetching for a view does not lead.
LEMMA NotLeading ==
    ASSUME Coalesced, NEW r \in Requests,
           req[r].pc \notin Fetching \/ req[r].kind # "view"
    PROVE  leader # r
BY NoOneAssumption DEF Coalesced

IInv == TypeOK /\ GoodCopy /\ Coalesced

LEMMA EditPostHolds ==
    ASSUME IInv, EditPost PROVE IInv'
<1>u. UNCHANGED <<row, tree, page, allow, req, leader, arch, puts, ops, faults>>
    BY DEF EditPost, kept
<1>upstream. upstream' \in Posted
  <2>1. upstream \in Posted /\ upstream.ver < MaxVersion  BY DEF EditPost, IInv, TypeOK
  <2>2. upstream.ver \in Versions  BY <2>1 DEF Posted
  <2>3. upstream.ver + 1 \in Versions  BY <2>1, <2>2, MaxAssumption DEF Versions
  <2>4. PICK g \in BOOLEAN : upstream' = [upstream EXCEPT !.ver = @ + 1, !.gone = g]
    BY DEF EditPost
  <2>5. upstream' = [upstream EXCEPT !.ver = upstream.ver + 1, !.gone = g]  BY <2>4
  <2>6. \A v \in Versions : [upstream EXCEPT !.ver = v, !.gone = g] \in Posted
    BY <2>1 DEF Posted
  <2>q. QED BY <2>3, <2>5, <2>6
<1>t. TypeOK'  BY <1>u, <1>upstream DEF IInv, TypeOK
<1>g. GoodCopy'  BY <1>u DEF IInv, GoodCopy
<1>c. Coalesced'  BY <1>u DEF IInv, Coalesced
<1>q. QED BY <1>t, <1>g, <1>c DEF IInv

LEMMA CommentHolds ==
    ASSUME IInv, NEW c \in Comments, Comment(c) PROVE IInv'
<1>u. UNCHANGED <<row, tree, page, allow, req, leader, arch, puts, ops, faults>>
    BY DEF Comment, kept
<1>upstream. upstream' \in Posted
  <2>1. upstream \in Posted  BY DEF IInv, TypeOK
  <2> DEFINE n == IF upstream.coms[c] = "none" THEN "alive" ELSE "tomb"
             m == [upstream.coms EXCEPT ![c] = n]
  <2>2. upstream' = [upstream EXCEPT !.coms = m]  BY DEF Comment
  <2>3. upstream.coms \in [Comments -> Live]  BY <2>1 DEF Posted
  <2>4. m \in [Comments -> Live]  BY <2>3 DEF Live
  <2>5. \A x \in [Comments -> Live] : [upstream EXCEPT !.coms = x] \in Posted
    BY <2>1 DEF Posted
  <2>q. QED BY <2>2, <2>4, <2>5
<1>t. TypeOK'  BY <1>u, <1>upstream DEF IInv, TypeOK
<1>g. GoodCopy'  BY <1>u DEF IInv, GoodCopy
<1>c. Coalesced'  BY <1>u DEF IInv, Coalesced
<1>q. QED BY <1>t, <1>g, <1>c DEF IInv

LEMMA StartHolds ==
    ASSUME IInv, NEW r \in Requests, NEW k \in Kinds, Start(r, k) PROVE IInv'
<1>u. UNCHANGED <<upstream, row, tree, page, allow, leader, arch, puts, faults>>
    BY DEF Start, kept
<1>r. req[r] \in Request /\ req \in [Requests -> Request]  BY DEF IInv, TypeOK
<1>p. req[r].pc = "idle"  BY DEF Start
<1> DEFINE p == IF k \in Foreground THEN "gate" ELSE "ask"
           n == [Idle EXCEPT !.kind = k, !.pc = p]
<1>k. p \in Places /\ (k = "view" => p = "gate")  BY DEF Places, Fetching, Foreground
<1>n. req' = [req EXCEPT ![r] = n] /\ n \in Request /\ n.pc = p /\ n.kind = k
  BY <1>k, StartType DEF Start
<1>ops. ops' \in 0..MaxOps  BY MaxAssumption DEF Start, IInv, TypeOK
<1>req. req' \in [Requests -> Request]  BY <1>n, <1>r
<1>t. TypeOK'  BY <1>u, <1>ops, <1>req DEF IInv, TypeOK
<1>g. GoodCopy'  BY <1>u DEF IInv, GoodCopy
<1>c. Coalesced'
  <2>1. \A f \in Requests \ {r} : req'[f] = req[f]  BY <1>n, <1>r
  <2>2. req'[r].pc # "wait" /\ (req'[r].kind = "view" => req'[r].pc \notin Fetching)  BY
      <1>n, <1>r, <1>k DEF Fetching
  <2>3. leader # r  BY NotLeading, <1>p DEF IInv, Fetching
  <2>q. QED BY <1>u, <2>1, <2>2, <2>3, Aside DEF IInv
<1>q. QED BY <1>t, <1>g, <1>c DEF IInv

LEMMA GateHolds ==
    ASSUME IInv, NEW r \in Requests, Gate(r) PROVE IInv'
<1>u. UNCHANGED <<upstream, row, tree, page, allow, arch, puts, ops, faults>>  BY
    DEF Gate, kept
<1>r. req[r] \in Request /\ req \in [Requests -> Request]  BY DEF IInv, TypeOK
<1>p. req[r].pc = "gate"  BY DEF Gate
<1>0. PICK degrade \in BOOLEAN :
          \/ req[r].kind = "view" /\ ViewGate(r, degrade)
          \/ req[r].kind # "view" /\ degrade /\ Finish(r) /\ UNCHANGED leader
          \/ req[r].kind # "view" /\ ~degrade /\ Goto(r, "ask") /\ UNCHANGED leader
  BY DEF Gate
<1> DEFINE p == IF degrade \/ row.gone THEN "archive"
                ELSE IF leader = NoOne THEN "ask" ELSE "wait"
           n == [req[r] EXCEPT !.pc = p, !.stored = row]
           m == [req[r] EXCEPT !.pc = "ask"]
<1>a. p \in Places /\ row \in Row  BY DEF Places, Fetching, IInv, TypeOK
<1>b. n \in Request /\ n.pc = p /\ n.kind = req[r].kind  BY <1>a, <1>r DEF Request
<1>d. m \in Request /\ m.pc = "ask" /\ m.kind = req[r].kind
  BY <1>r, AtPlace DEF Places, Fetching
<1>1. ASSUME req[r].kind = "view", ViewGate(r, degrade)
      PROVE  /\ req' = [req EXCEPT ![r] = n] /\ n \in Request
             /\ leader' = (IF p = "ask" THEN r ELSE leader)
             /\ leader' \in Requests \union {NoOne}
  BY <1>1, <1>b DEF ViewGate, IInv, TypeOK
<1>2. ASSUME req[r].kind # "view", Finish(r), UNCHANGED leader
      PROVE  /\ req' = [req EXCEPT ![r] = Idle] /\ Idle \in Request
             /\ leader' \in Requests \union {NoOne}
  BY <1>2, IdleType DEF Finish, IInv, TypeOK
<1>3. ASSUME req[r].kind # "view", Goto(r, "ask"), UNCHANGED leader
      PROVE  /\ req' = [req EXCEPT ![r] = m] /\ m \in Request
             /\ leader' \in Requests \union {NoOne}
  BY <1>3, <1>d DEF Goto, IInv, TypeOK
<1>req. req' \in [Requests -> Request]  BY <1>0, <1>r, <1>1, <1>2, <1>3
<1>leader. leader' \in Requests \union {NoOne}  BY <1>0, <1>1, <1>2, <1>3
<1>t. TypeOK'  BY <1>u, <1>req, <1>leader DEF IInv, TypeOK
<1>g. GoodCopy'  BY <1>u DEF IInv, GoodCopy
<1>c. Coalesced'
  <2>0. leader # r  BY NotLeading, <1>p DEF IInv, Fetching
  <2>1. CASE req[r].kind = "view" /\ ViewGate(r, degrade)
    <3>1. \A f \in Requests \ {r} : req'[f] = req[f]  BY <2>1, <1>1, <1>r
    <3>2. req'[r].pc = p /\ req'[r].kind = "view"  BY <2>1, <1>1, <1>r, <1>b
    <3>3. leader' = (IF p = "ask" THEN r ELSE leader)  BY <2>1, <1>1
    <3>4. CASE p = "archive"  BY <3>1, <3>2, <3>3, <3>4, <2>0, Aside DEF IInv, Fetching
    <3>5. CASE p = "ask"
      <4>1. leader = NoOne  BY <3>5
      <4>q. QED BY <3>1, <3>2, <3>3, <3>5, <4>1, NoOneAssumption DEF IInv, Coalesced,
          Fetching
    <3>6. CASE p = "wait"
      <4>1. leader # NoOne /\ leader' = leader  BY <3>3, <3>6
      <4>2. leader \in Requests  BY <4>1 DEF IInv, TypeOK
      <4>q. QED BY <2>0, <3>1, <3>2, <3>6, <4>1, <4>2 DEF IInv, Coalesced, Fetching
    <3>q. QED BY <3>4, <3>5, <3>6
  <2>2. CASE req[r].kind # "view" /\ Finish(r) /\ UNCHANGED leader
    <3>1. \A f \in Requests \ {r} : req'[f] = req[f]  BY <2>2, <1>2, <1>r
    <3>2. req'[r].pc = "idle"  BY <2>2, <1>2, <1>r, IdleType
    <3>q. QED BY <2>0, <2>2, <3>1, <3>2, Aside DEF IInv, Fetching
  <2>3. CASE req[r].kind # "view" /\ Goto(r, "ask") /\ UNCHANGED leader
    <3>1. \A f \in Requests \ {r} : req'[f] = req[f]  BY <2>3, <1>3, <1>r
    <3>2. req'[r].kind # "view" /\ req'[r].pc = "ask"  BY <2>3, <1>3, <1>r, <1>d
    <3>q. QED BY <2>0, <2>3, <3>1, <3>2, Aside DEF IInv
  <2>q. QED BY <1>0, <2>1, <2>2, <2>3
<1>q. QED BY <1>t, <1>g, <1>c DEF IInv

LEMMA ReplyHolds ==
    ASSUME IInv, NEW r \in Requests, Reply(r) PROVE IInv'
<1>u. UNCHANGED <<upstream, row, tree, page, allow, leader, arch, puts, ops,
    faults>>  BY DEF Reply, kept
<1>r. req[r] \in Request /\ req \in [Requests -> Request]  BY DEF IInv, TypeOK
<1>p. req[r].pc = "ask"  BY DEF Reply
<1>0. PICK a \in {Failed} \union {Snapshot(s) : s \in Part(req[r].kind)} :
          req' = [req EXCEPT ![r] = [req[r] EXCEPT !.pc = "sent", !.got = a]]
  BY <1>r DEF Reply
<1>1. a \in Answer
  <2>1. CASE a = Failed  BY <2>1, EmptyTypes
  <2>2. ASSUME NEW s \in Part(req[r].kind), a = Snapshot(s) PROVE a \in Answer
    <3>1. s \in SUBSET Comments  BY PartType
    <3>q. QED BY <2>2, <3>1, SnapshotType DEF IInv
  <2>q. QED BY <2>1, <2>2
<1> DEFINE n == [req[r] EXCEPT !.pc = "sent", !.got = a]
<1>n. req' = [req EXCEPT ![r] = n] /\ n \in Request /\ n.pc = "sent" /\ n.kind = req[r].kind
  <2>1. "sent" \in Places  BY DEF Places, Fetching
  <2>2. n \in Request /\ n.pc = "sent" /\ n.kind = req[r].kind
    BY <1>1, <1>r, <2>1 DEF Request
  <2>q. QED BY <1>0, <2>2
<1>req. req' \in [Requests -> Request]  BY <1>n, <1>r
<1>t. TypeOK'  BY <1>u, <1>req DEF IInv, TypeOK
<1>g. GoodCopy'  BY <1>u DEF IInv, GoodCopy
<1>c. Coalesced'
  <2>1. \A f \in Requests \ {r} : req'[f] = req[f]  BY <1>n, <1>r
  <2>2. req'[r].pc = "sent" /\ req'[r].kind = req[r].kind  BY <1>n, <1>r
  <2>3. leader' = leader /\ leader \in Requests \union {NoOne}  BY <1>u DEF IInv, TypeOK
  <2>4. "ask" \in Fetching /\ "sent" \in Fetching  BY DEF Fetching
  <2>5. Coalesced  BY DEF IInv
  <2>6. ASSUME leader # NoOne
        PROVE  req'[leader].kind = "view" /\ req'[leader].pc \in Fetching
    BY <1>p, <2>1, <2>2, <2>3, <2>4, <2>5, <2>6 DEF Coalesced
  <2>7. ASSUME NEW f \in Requests
        PROVE  /\ req'[f].kind = "view" /\ req'[f].pc \in Fetching => leader = f
               /\ req'[f].pc = "wait" => req'[f].kind = "view" /\ leader # NoOne
    <3>1. CASE f = r  BY <1>p, <2>2, <2>4, <2>5, <3>1 DEF Coalesced
    <3>2. CASE f # r  BY <2>1, <2>5, <3>2 DEF Coalesced
    <3>q. QED BY <3>1, <3>2
  <2>q. QED BY <2>3, <2>6, <2>7 DEF Coalesced
<1>q. QED BY <1>t, <1>g, <1>c DEF IInv

\* A flight that ends, whatever its callers do next, leaves no view fetching.
LEMMA Landed ==
    ASSUME IInv, NEW r \in Requests, req[r].pc = "sent", req[r].kind = "view",
           leader' = NoOne,
           \A f \in Requests : IF f = r \/ req[f].pc = "wait"
                              THEN req'[f].pc \in {"got", "idle"} ELSE req'[f] = req[f]
    PROVE  Coalesced'
<1>1. leader = r  BY DEF IInv, Coalesced, Fetching
<1>2. \A f \in Requests : f # r /\ req[f].kind = "view" => req[f].pc \notin Fetching
  BY <1>1 DEF IInv, Coalesced
<1>3. \A f \in Requests : /\ req'[f].kind = "view" => req'[f].pc \notin Fetching
                          /\ req'[f].pc # "wait"
  BY <1>2 DEF Fetching
<1>q. QED BY <1>3, NoOneAssumption DEF Coalesced

LEMMA ViewAnsweredHolds ==
    ASSUME IInv, NEW r \in Requests, req[r].pc = "sent", req[r].kind = "view",
        ViewAnswered(r)
    PROVE  /\ req' \in [Requests -> Request] /\ leader' \in Requests \union {NoOne}
           /\ arch' \in [Requests -> Work] /\ Coalesced'
<1>1. req \in [Requests -> Request] /\ req[r].got \in Answer  BY RequestFields DEF IInv,
    TypeOK
<1>2. \A f \in Requests : LET n == [req[f] EXCEPT !.pc = "got", !.got = req[r].got]
                          IN  n \in Request /\ n.pc = "got"
  <2>1. "got" \in Places  BY DEF Places
  <2>2. \A f \in Requests : req[f] \in Request  BY <1>1
  <2>q. QED BY <1>1, <2>1, <2>2 DEF Request
<1>3. req' = [f \in Requests |->
                IF f = r \/ req[f].pc = "wait"
                THEN [req[f] EXCEPT !.pc = "got", !.got = req[r].got] ELSE req[f]]
  BY DEF ViewAnswered
<1>4. req' \in [Requests -> Request]  BY <1>1, <1>2, <1>3
<1>5. arch' \in [Requests -> Work]
  <2>1. CASE req[r].got.ok  BY <2>1, SpawnType DEF ViewAnswered, IInv
  <2>2. CASE ~req[r].got.ok  BY <2>2 DEF ViewAnswered, IInv, TypeOK
  <2>q. QED BY <2>1, <2>2
<1>6. leader' = NoOne  BY DEF ViewAnswered
<1>7. Coalesced'  BY <1>2, <1>3, <1>6, Landed
<1>q. QED BY <1>4, <1>5, <1>6, <1>7

LEMMA AnsweredHolds ==
    ASSUME IInv, NEW r \in Requests, req[r].pc = "sent", req[r].kind # "view",
           RefreshAnswered(r) \/ OtherAnswered(r)
               \/ (Finish(r) /\ UNCHANGED <<leader, arch>>)
    PROVE  /\ req' \in [Requests -> Request] /\ leader' \in Requests \union {NoOne}
           /\ arch' \in [Requests -> Work] /\ Coalesced'
<1>r. req[r] \in Request /\ req \in [Requests -> Request]  BY DEF IInv, TypeOK
<1>1. /\ leader' = leader
      /\ \/ Finish(r)
         \/ \E p \in {"flush", "archiving"} : Goto(r, p)
  BY DEF RefreshAnswered, OtherAnswered
<1>2. arch' \in [Requests -> Work]
  <2>1. CASE RefreshAnswered(r)
    <3>1. Spawn(r, "read") \/ Spawn(r, "post")  BY <2>1 DEF RefreshAnswered
    <3>q. QED BY <3>1, SpawnType DEF IInv
  <2>2. CASE OtherAnswered(r)
    <3>1. Spawn(r, "read") \/ Spawn(r, "post")  BY <2>2 DEF OtherAnswered
    <3>q. QED BY <3>1, SpawnType DEF IInv
  <2>3. CASE UNCHANGED arch  BY <2>3 DEF IInv, TypeOK
  <2>q. QED BY <2>1, <2>2, <2>3
<1>3. leader # r  BY NotLeading DEF IInv
<1>4. ASSUME NEW n \in Request, req' = [req EXCEPT ![r] = n], n.pc \in {"idle", "flush",
    "archiving"}
      PROVE  req' \in [Requests -> Request] /\ Coalesced'
  <2>1. \A f \in Requests \ {r} : req'[f] = req[f]  BY <1>4, <1>r
  <2>2. req'[r].pc # "wait" /\ req'[r].pc \notin Fetching  BY <1>4, <1>r DEF Fetching
  <2>3. req' \in [Requests -> Request]  BY <1>4, <1>r
  <2>q. QED BY <1>1, <1>3, <2>1, <2>2, <2>3, Aside DEF IInv
<1>5. CASE Finish(r)
  <2>1. req' = [req EXCEPT ![r] = Idle]  BY <1>5 DEF Finish
  <2>q. QED BY <1>1, <1>2, <1>4, <2>1, IdleType DEF IInv, TypeOK
<1>6. ASSUME NEW p \in {"flush", "archiving"}, Goto(r, p)
      PROVE  req' \in [Requests -> Request] /\ Coalesced'
  <2> DEFINE n == [req[r] EXCEPT !.pc = p]
  <2>1. n \in Request /\ n.pc = p  BY <1>r, AtPlace DEF Places, Fetching
  <2>2. req' = [req EXCEPT ![r] = n]  BY <1>6 DEF Goto
  <2>q. QED BY <1>4, <2>1, <2>2
<1>q. QED BY <1>1, <1>2, <1>5, <1>6 DEF IInv, TypeOK

LEMMA DeliverHolds ==
    ASSUME IInv, NEW r \in Requests, Deliver(r) PROVE IInv'
<1>u. UNCHANGED <<upstream, row, tree, page, allow, puts, ops, faults>>  BY DEF
    Deliver, kept
<1>1. /\ req' \in [Requests -> Request] /\ leader' \in Requests \union {NoOne}
      /\ arch' \in [Requests -> Work] /\ Coalesced'
  BY ViewAnsweredHolds, AnsweredHolds DEF Deliver
<1>req. req' \in [Requests -> Request]  BY <1>1
<1>leader. leader' \in Requests \union {NoOne}  BY <1>1
<1>arch. arch' \in [Requests -> Work]  BY <1>1
<1>t. TypeOK'  BY <1>u, <1>req, <1>leader, <1>arch DEF IInv, TypeOK
<1>g. GoodCopy'  BY <1>u DEF IInv, GoodCopy
<1>c. Coalesced'  BY <1>1
<1>q. QED BY <1>t, <1>g, <1>c DEF IInv

LEMMA PanicsHolds ==
    ASSUME IInv, NEW r \in Requests, Panics(r) PROVE IInv'
<1>u. UNCHANGED <<upstream, row, tree, page, allow, arch, puts, ops, faults>>  BY
    DEF Panics, kept
<1>1. /\ req[r].pc = "sent" /\ req[r].kind = "view" /\ leader' = NoOne
      /\ req' = [f \in Requests |-> IF f = r \/ req[f].pc = "wait" THEN Idle ELSE req[f]]
  BY DEF Panics
<1>req. req' \in [Requests -> Request]  BY <1>1, IdleType DEF IInv, TypeOK
<1>leader. leader' \in Requests \union {NoOne}  BY <1>1
<1>t. TypeOK'  BY <1>u, <1>req, <1>leader DEF IInv, TypeOK
<1>g. GoodCopy'  BY <1>u DEF IInv, GoodCopy
<1>c. Coalesced'  BY <1>1, IdleType, Landed
<1>q. QED BY <1>t, <1>g, <1>c DEF IInv

LEMMA RenderHolds ==
    ASSUME IInv, NEW r \in Requests, Render(r) PROVE IInv'
<1>u. UNCHANGED <<upstream, row, tree, page, allow, leader, arch, ops, faults>>
    BY DEF Render, kept
<1>r. req[r] \in Request /\ req \in [Requests -> Request]  BY DEF IInv, TypeOK
<1>s. puts \in [Requests -> Page]  BY DEF IInv, TypeOK
<1>p. req[r].pc = "got"  BY DEF Render
<1> DEFINE a == req[r].got
           g == [there |-> TRUE, gone |-> a.gone, ver |-> a.ver]
           n == [req[r] EXCEPT !.pc = "archive", !.stored = row]
<1>a. a \in Answer /\ row \in Row  BY <1>r, RequestFields DEF IInv, TypeOK
<1>g2. g \in Page  BY <1>a, AnswerFields DEF Page
<1>b. n \in Request /\ n.pc = "archive"  BY <1>a, <1>r DEF Places, Request
<1>1. \/ Finish(r) /\ puts' = [puts EXCEPT ![r] = g]
      \/ req' = [req EXCEPT ![r] = n] /\ UNCHANGED puts
  BY <1>r DEF Render
<1>2. ASSUME Finish(r), puts' = [puts EXCEPT ![r] = g]
      PROVE  /\ req' \in [Requests -> Request] /\ puts' \in [Requests -> Page]
             /\ \A f \in Requests \ {r} : req'[f] = req[f]
             /\ req'[r].pc = "idle"
  BY <1>2, <1>r, <1>s, <1>g2, IdleType DEF Finish
<1>3. ASSUME req' = [req EXCEPT ![r] = n], UNCHANGED puts
      PROVE  /\ req' \in [Requests -> Request] /\ puts' \in [Requests -> Page]
             /\ \A f \in Requests \ {r} : req'[f] = req[f]
             /\ req'[r].pc = "archive"
  BY <1>3, <1>r, <1>s, <1>b
<1>req. req' \in [Requests -> Request]  BY <1>1, <1>2, <1>3
<1>puts. puts' \in [Requests -> Page]  BY <1>1, <1>2, <1>3
<1>t. TypeOK'  BY <1>u, <1>req, <1>puts DEF IInv, TypeOK
<1>g. GoodCopy'  BY <1>u DEF IInv, GoodCopy
<1>c. Coalesced'
  <2>1. \A f \in Requests \ {r} : req'[f] = req[f]  BY <1>1, <1>2, <1>3
  <2>2. req'[r].pc # "wait" /\ req'[r].pc \notin Fetching  BY <1>1, <1>2, <1>3 DEF
      Fetching
  <2>3. leader # r  BY NotLeading, <1>p DEF IInv, Fetching
  <2>q. QED BY <1>u, <2>1, <2>2, <2>3, Aside DEF IInv
<1>q. QED BY <1>t, <1>g, <1>c DEF IInv

LEMMA ArchiveHolds ==
    ASSUME IInv, NEW r \in Requests, Archive(r) PROVE IInv'
<1>u. UNCHANGED <<upstream, row, tree, page, allow, leader, arch, ops, faults>>
    BY DEF Archive, kept
<1>r. req[r] \in Request /\ req \in [Requests -> Request]  BY DEF IInv, TypeOK
<1>s. puts \in [Requests -> Page]  BY DEF IInv, TypeOK
<1>p. req[r].pc = "archive"  BY DEF Archive
<1>n. req' = [req EXCEPT ![r] = Idle]  BY DEF Archive, Finish
<1>req. req' \in [Requests -> Request]  BY <1>n, <1>r, IdleType
<1>puts. puts' \in [Requests -> Page]
  <2> DEFINE sp == req[r].stored
             g == [there |-> TRUE, gone |-> FALSE, ver |-> sp.ver]
  <2>1. sp \in Row  BY <1>r, RequestFields
  <2>2. g \in Page  BY <2>1, RowFields DEF Page
  <2>3. puts' = [puts EXCEPT ![r] = IF sp.there THEN g ELSE puts[r]]  BY <1>s DEF Archive
  <2>q. QED BY <1>s, <2>2, <2>3
<1>t. TypeOK'  BY <1>u, <1>req, <1>puts DEF IInv, TypeOK
<1>g. GoodCopy'  BY <1>u DEF IInv, GoodCopy
<1>c. Coalesced'
  <2>1. \A f \in Requests \ {r} : req'[f] = req[f]  BY <1>n, <1>r
  <2>2. req'[r].pc # "wait" /\ (req'[r].kind = "view" => req'[r].pc \notin Fetching)  BY
      <1>n, <1>r, IdleType DEF Fetching
  <2>3. leader # r  BY NotLeading, <1>p DEF IInv, Fetching
  <2>q. QED BY <1>u, <2>1, <2>2, <2>3, Aside DEF IInv
<1>q. QED BY <1>t, <1>g, <1>c DEF IInv

LEMMA ArchivedHolds ==
    ASSUME IInv, NEW r \in Requests, Archived(r) PROVE IInv'
<1>u. UNCHANGED <<upstream, row, tree, page, allow, leader, arch, puts, ops,
    faults>>  BY DEF Archived, kept
<1>r. req[r] \in Request /\ req \in [Requests -> Request]  BY DEF IInv, TypeOK
<1>p. req[r].pc = "archiving"  BY DEF Archived
<1> DEFINE n == [req[r] EXCEPT !.pc = "flush"]
<1>n. req' = [req EXCEPT ![r] = n] /\ n \in Request /\ n.pc = "flush"
  BY <1>r, AtPlace DEF Archived, Goto, Places, Fetching
<1>req. req' \in [Requests -> Request]  BY <1>n, <1>r
<1>t. TypeOK'  BY <1>u, <1>req DEF IInv, TypeOK
<1>g. GoodCopy'  BY <1>u DEF IInv, GoodCopy
<1>c. Coalesced'
  <2>1. \A f \in Requests \ {r} : req'[f] = req[f]  BY <1>n, <1>r
  <2>2. req'[r].pc # "wait" /\ (req'[r].kind = "view" => req'[r].pc \notin Fetching)  BY
      <1>n, <1>r DEF Fetching
  <2>3. leader # r  BY NotLeading, <1>p DEF IInv, Fetching
  <2>q. QED BY <1>u, <2>1, <2>2, <2>3, Aside DEF IInv
<1>q. QED BY <1>t, <1>g, <1>c DEF IInv

LEMMA FlushHolds ==
    ASSUME IInv, NEW r \in Requests, Flush(r) PROVE IInv'
<1>u. UNCHANGED <<upstream, row, tree, allow, leader, arch, puts, ops, faults>>  BY DEF
    Flush, kept
<1>r. req[r] \in Request /\ req \in [Requests -> Request]  BY DEF IInv, TypeOK
<1>p. req[r].pc = "flush"  BY DEF Flush
<1>n. req' = [req EXCEPT ![r] = Idle]  BY DEF Flush, Finish
<1>page. page' \in Page  BY EmptyTypes DEF Flush, IInv, TypeOK
<1>req. req' \in [Requests -> Request]  BY <1>n, <1>r, IdleType
<1>t. TypeOK'  BY <1>u, <1>page, <1>req DEF IInv, TypeOK
<1>g. GoodCopy'  BY <1>u DEF IInv, GoodCopy
<1>c. Coalesced'
  <2>1. \A f \in Requests \ {r} : req'[f] = req[f]  BY <1>n, <1>r
  <2>2. req'[r].pc # "wait" /\ (req'[r].kind = "view" => req'[r].pc \notin Fetching)  BY
      <1>n, <1>r, IdleType DEF Fetching
  <2>3. leader # r  BY NotLeading, <1>p DEF IInv, Fetching
  <2>q. QED BY <1>u, <2>1, <2>2, <2>3, Aside DEF IInv
<1>q. QED BY <1>t, <1>g, <1>c DEF IInv

LEMMA ArchivePostHolds ==
    ASSUME IInv, NEW r \in Requests, ArchivePost(r) PROVE IInv'
<1>u. UNCHANGED <<upstream, tree, page, allow, req, leader, puts, ops>>  BY DEF
    ArchivePost, kept
<1>a. arch[r].load \in Answer  BY WorkFields DEF IInv, TypeOK
<1>1. row' = PostWritten(arch[r].load) \/ row' = row  BY DEF ArchivePost
<1>2. /\ PostWritten(arch[r].load) \in Row /\ ~PostWritten(arch[r].load).blank
      /\ PostWritten(arch[r].load).gone => PostWritten(arch[r].load).there
  BY <1>a, PostWrittenFacts DEF IInv
<1>row. row' \in Row  BY <1>1, <1>2 DEF IInv, TypeOK
<1>arch. arch' \in [Requests -> Work]  BY RestType, TurnType DEF ArchivePost, IInv
<1>faults. faults' \in 0..MaxFaults  BY FaultType DEF ArchivePost, IInv, TypeOK
<1>t. TypeOK'  BY <1>u, <1>row, <1>arch, <1>faults DEF IInv, TypeOK
<1>g. GoodCopy'  BY <1>1, <1>2 DEF IInv, GoodCopy
<1>c. Coalesced'  BY <1>u DEF IInv, Coalesced
<1>q. QED BY <1>t, <1>g, <1>c DEF IInv

LEMMA ReadPriorHolds ==
    ASSUME IInv, NEW r \in Requests, ReadPrior(r) PROVE IInv'
<1>u. UNCHANGED <<upstream, row, tree, page, allow, req, leader, puts, ops>>  BY
    DEF ReadPrior, kept
<1>arch. arch' \in [Requests -> Work]
  <2>1. arch[r] \in Work /\ arch \in [Requests -> Work] /\ tree \in [Comments -> Node]
    BY DEF IInv, TypeOK
  <2> DEFINE p == IF arch[r].short THEN Empty ELSE tree
             n == [arch[r] EXCEPT !.pc = "save", !.prior = p]
  <2>2. p \in [Comments -> Node]  BY <2>1, EmptyTypes
  <2>3. \A x \in [Comments -> Node] : [arch[r] EXCEPT !.pc = "save", !.prior = x] \in Work
    BY <2>1 DEF Work
  <2>4. n \in Work  BY <2>2, <2>3
  <2>5. Rest(r) \/ Turn(r, "save") \/ arch' = [arch EXCEPT ![r] = n]  BY <2>1 DEF
      ReadPrior
  <2>6. CASE Rest(r)  BY <2>6, RestType DEF IInv
  <2>7. CASE Turn(r, "save")  BY <2>7, TurnType DEF IInv
  <2>8. CASE arch' = [arch EXCEPT ![r] = n]  BY <2>1, <2>4, <2>8
  <2>q. QED BY <2>5, <2>6, <2>7, <2>8
<1>faults. faults' \in 0..MaxFaults  BY FaultType DEF ReadPrior, IInv, TypeOK
<1>t. TypeOK'  BY <1>u, <1>arch, <1>faults DEF IInv, TypeOK
<1>g. GoodCopy'  BY <1>u DEF IInv, GoodCopy
<1>c. Coalesced'  BY <1>u DEF IInv, Coalesced
<1>q. QED BY <1>t, <1>g, <1>c DEF IInv

LEMMA SaveCommentsHolds ==
    ASSUME IInv, NEW r \in Requests, SaveComments(r) PROVE IInv'
<1>u. UNCHANGED <<upstream, row, page, allow, req, leader, puts, ops>>  BY DEF
    SaveComments, kept
<1>tree. tree' \in [Comments -> Node]
  <2>1. arch[r].prior \in [Comments -> Node] /\ arch[r].load \in Answer
    BY WorkFields DEF IInv, TypeOK
  <2>2. Merged(arch[r].prior, arch[r].load.coms) \in [Comments -> Node]
    BY <2>1, AnswerFields, MergedType
  <2>3. tree' = tree \/ tree' = Merged(arch[r].prior, arch[r].load.coms)  BY DEF
      SaveComments
  <2>q. QED BY <2>2, <2>3 DEF IInv, TypeOK
<1>arch. arch' \in [Requests -> Work]  BY RestType DEF SaveComments, IInv
<1>faults. faults' \in 0..MaxFaults  BY FaultType DEF SaveComments, IInv, TypeOK
<1>t. TypeOK'  BY <1>u, <1>tree, <1>arch, <1>faults DEF IInv, TypeOK
<1>g. GoodCopy'  BY <1>u DEF IInv, GoodCopy
<1>c. Coalesced'  BY <1>u DEF IInv, Coalesced
<1>q. QED BY <1>t, <1>g, <1>c DEF IInv

LEMMA PutHolds ==
    ASSUME IInv, NEW r \in Requests, Put(r) PROVE IInv'
<1>u. UNCHANGED <<upstream, row, tree, allow, req, leader, arch, ops, faults>>
    BY DEF Put, kept
<1>page. page' \in Page  BY DEF Put, IInv, TypeOK
<1>puts. puts' \in [Requests -> Page]  BY EmptyTypes DEF Put, IInv, TypeOK
<1>t. TypeOK'  BY <1>u, <1>page, <1>puts DEF IInv, TypeOK
<1>g. GoodCopy'  BY <1>u DEF IInv, GoodCopy
<1>c. Coalesced'  BY <1>u DEF IInv, Coalesced
<1>q. QED BY <1>t, <1>g, <1>c DEF IInv

LEMMA ExpireHolds ==
    ASSUME IInv, Expire PROVE IInv'
<1>u. UNCHANGED <<upstream, row, tree, allow, req, leader, arch, puts, ops,
    faults>>  BY DEF Expire, kept
<1>page. page' \in Page  BY EmptyTypes DEF Expire
<1>t. TypeOK'  BY <1>u, <1>page DEF IInv, TypeOK
<1>g. GoodCopy'  BY <1>u DEF IInv, GoodCopy
<1>c. Coalesced'  BY <1>u DEF IInv, Coalesced
<1>q. QED BY <1>t, <1>g, <1>c DEF IInv

LEMMA SetControlHolds ==
    ASSUME IInv, SetControl PROVE IInv'
<1>u. UNCHANGED <<upstream, row, tree, page, req, leader, arch, puts, ops,
    faults>>  BY DEF SetControl, kept
<1>allow. allow' \in BOOLEAN  BY DEF SetControl, IInv, TypeOK
<1>t. TypeOK'  BY <1>u, <1>allow DEF IInv, TypeOK
<1>g. GoodCopy'  BY <1>u DEF IInv, GoodCopy
<1>c. Coalesced'  BY <1>u DEF IInv, Coalesced
<1>q. QED BY <1>t, <1>g, <1>c DEF IInv

LEMMA InitHolds == Init => IInv
<1> SUFFICES ASSUME Init PROVE IInv  OBVIOUS
<1>1. upstream \in Posted  BY EmptyTypes DEF Init, Posted
<1>2. TypeOK
  BY <1>1, EmptyTypes, IdleType, DoneType, MaxAssumption DEF Init, TypeOK, Versions
<1>3. GoodCopy  BY DEF Init, GoodCopy, NoRow
<1>4. Coalesced  BY IdleType DEF Init, Coalesced, Fetching
<1>q. QED BY <1>2, <1>3, <1>4 DEF IInv

LEMMA NextHolds == IInv /\ [Next]_vars => IInv'
<1> SUFFICES ASSUME IInv, [Next]_vars PROVE IInv'  OBVIOUS
<1>1. CASE EditPost  BY <1>1, EditPostHolds
<1>2. CASE Expire  BY <1>2, ExpireHolds
<1>3. CASE SetControl  BY <1>3, SetControlHolds
<1>4. ASSUME NEW c \in Comments, Comment(c) PROVE IInv'  BY <1>4, CommentHolds
<1>5. ASSUME NEW r \in Requests, NEW k \in Kinds, Start(r, k) PROVE IInv'  BY <1>5,
    StartHolds
<1>6. ASSUME NEW r \in Requests, RequestStep(r) PROVE IInv'
  BY <1>6, GateHolds, ReplyHolds, DeliverHolds, PanicsHolds, RenderHolds, ArchiveHolds,
     ArchivedHolds, FlushHolds DEF RequestStep
<1>7. ASSUME NEW r \in Requests, ArchiverStep(r) PROVE IInv'
  BY <1>7, ArchivePostHolds, ReadPriorHolds, SaveCommentsHolds DEF ArchiverStep
<1>8. ASSUME NEW r \in Requests, Put(r) PROVE IInv'  BY <1>8, PutHolds
<1>9. CASE UNCHANGED vars
  BY <1>9 DEF vars, kept, IInv, TypeOK, GoodCopy, Coalesced
<1>q. QED BY <1>1, <1>2, <1>3, <1>4, <1>5, <1>6, <1>7, <1>8, <1>9 DEF Next

THEOREM Invariance == Spec => []IInv
<1>q. QED BY InitHolds, NextHolds, PTL DEF Spec

\* Archived copies of removed posts are never overwritten (archivePost).
THEOREM CopiesStayGood == Spec => []GoodCopy
<1>1. IInv => GoodCopy  BY DEF IInv
<1>q. QED BY <1>1, Invariance, PTL

\* One upstream fetch per post, and nobody waits for a flight that is over
\* (upstreamFlight.Do).
THEOREM FlightsCoalesce == Spec => []Coalesced
<1>1. IInv => Coalesced  BY DEF IInv
<1>q. QED BY <1>1, Invariance, PTL

\* Views share one fetch and no order of archiving loses the good copy, for any
\* number of requests and comments.
THEOREM FetchesStayShared == Spec => []OneFetchOneCopy
<1>1. Coalesced /\ GoodCopy => OneFetchOneCopy  BY DEF OneFetchOneCopy
<1>q. QED BY <1>1, FlightsCoalesce, CopiesStayGood, PTL

\* Only ArchivePost writes the row, and only SaveComments the snapshot.
LEMMA Writers ==
    ASSUME Next
    PROVE  /\ row' = row \/ \E r \in Requests : ArchivePost(r)
           /\ tree' = tree \/ \E r \in Requests : SaveComments(r)
<1>1. CASE EditPost \/ Expire \/ SetControl  BY <1>1 DEF EditPost, Expire, SetControl,
    kept
<1>2. ASSUME NEW c \in Comments, Comment(c) PROVE row' = row /\ tree' = tree
  BY <1>2 DEF Comment, kept
<1>3. ASSUME NEW r \in Requests, NEW k \in Kinds, Start(r, k) PROVE row' = row /\ tree'
    = tree
  BY <1>3 DEF Start, kept
<1>4. ASSUME NEW r \in Requests, RequestStep(r) PROVE row' = row /\ tree' = tree
  BY <1>4 DEF RequestStep, Gate, Reply, Deliver, Panics, Render, Archive, Archived,
      Flush, kept
<1>5. ASSUME NEW r \in Requests, ReadPrior(r) \/ Put(r) PROVE row' = row /\ tree' = tree
  BY <1>5 DEF ReadPrior, Put, kept
<1>6. ASSUME NEW r \in Requests, ArchivePost(r) PROVE tree' = tree  BY <1>6 DEF
    ArchivePost
<1>7. ASSUME NEW r \in Requests, SaveComments(r) PROVE row' = row  BY <1>7 DEF
    SaveComments
<1>q. QED BY <1>1, <1>2, <1>3, <1>4, <1>5, <1>6, <1>7 DEF Next, ArchiverStep

\* The upstream_removed verdict is sticky.
THEOREM VerdictSticky == Spec => StickyGone
<1>1. IInv /\ [Next]_vars => [row.gone => row'.gone]_vars
  <2> SUFFICES ASSUME IInv, Next, row.gone PROVE row'.gone  BY DEF vars, kept
  <2>1. CASE row' = row  BY <2>1
  <2>2. ASSUME NEW r \in Requests, ArchivePost(r) PROVE row'.gone
    <3>1. arch[r].load \in Answer  BY WorkFields DEF IInv, TypeOK
    <3>2. row' = PostWritten(arch[r].load) \/ row' = row  BY <2>2 DEF ArchivePost
    <3>q. QED BY <3>1, <3>2, PostWrittenFacts DEF IInv
  <2>q. QED BY <2>1, <2>2, Writers
<1>q. QED BY <1>1, Invariance, PTL DEF Spec, StickyGone

\* MergeCommentTrees keeps every node, mergeRemovedBodies every living body.
LEMMA MergedKeeps ==
    ASSUME NEW old \in [Comments -> Node], NEW new \in [Comments -> Live], NEW c \in
        Comments
    PROVE  /\ old[c] # "none" => Merged(old, new)[c] # "none"
           /\ old[c] = "alive" => Merged(old, new)[c] \in {"alive", "kept"}
<1>1. Merged(old, new)[c] = IF new[c] = "none" THEN old[c]
                            ELSE IF new[c] = "tomb" /\ old[c] = "alive" THEN "kept" ELSE new[c]
  BY DEF Merged
<1>2. new[c] \in Live  OBVIOUS
<1>q. QED BY <1>1, <1>2 DEF Live

\* Only ReadPrior brings an archiver to its save.
LEMMA Readers ==
    ASSUME IInv, Next, NEW q \in Requests, arch'[q].pc = "save"
    PROVE  arch'[q] = arch[q] \/ ReadPrior(q)
<1> arch \in [Requests -> Work]  BY DEF IInv, TypeOK
<1>1. CASE arch' = arch  BY <1>1
<1>2. ASSUME NEW r \in Requests, NEW p \in {"post", "read"}, Spawn(r, p) PROVE arch'[q] = arch[q]
  <2>1. arch'[r].pc = p  BY <1>2 DEF Spawn, Done
  <2>q. QED BY <1>2, <2>1 DEF Spawn
<1>3. CASE EditPost \/ Expire \/ SetControl \/ \E c \in Comments : Comment(c)
  BY <1>1, <1>3 DEF EditPost, Expire, SetControl, Comment
<1>4. CASE \E r \in Requests : Put(r) \/ \E k \in Kinds : Start(r, k)
  BY <1>1, <1>4 DEF Put, Start
<1>5. ASSUME NEW r \in Requests, RequestStep(r) PROVE arch'[q] = arch[q]
  <2>1. CASE Deliver(r)
    BY <1>1, <1>2, <2>1 DEF Deliver, ViewAnswered, RefreshAnswered, OtherAnswered
  <2>2. CASE ~Deliver(r)
    BY <1>5, <2>2 DEF RequestStep, Gate, Reply, Panics, Render, Archive, Archived, Flush
  <2>q. QED BY <2>1, <2>2
<1>6. ASSUME NEW r \in Requests, ArchiverStep(r) PROVE arch'[q] = arch[q] \/ ReadPrior(q)
  <2>1. CASE q # r
    BY <1>6, <2>1 DEF ArchiverStep, ArchivePost, ReadPrior, SaveComments, Turn, Rest
  <2>2. CASE q = r /\ ArchivePost(r)
    <3>1. arch[q] \in Work  OBVIOUS
    <3>2. arch'[q] = [arch[q] EXCEPT !.pc = "read"] \/ arch'[q] = Done
      BY <2>2 DEF ArchivePost, Turn, Rest
    <3>q. QED BY <3>1, <3>2, DoneType DEF Work
  <2>3. CASE q = r /\ SaveComments(r)
    BY <2>3 DEF SaveComments, Rest, Done
  <2>q. QED BY <1>6, <2>1, <2>2, <2>3 DEF ArchiverStep
<1>q. QED BY <1>3, <1>4, <1>5, <1>6 DEF Next

\* A comment every merge has read stays in the snapshot, whoever saves first,
\* and keeps its body (archive/service.go ArchiveComments).
THEOREM SettledComments == Spec => SettledStays
<1> DEFINE Stays(c) == /\ Settled(c) => Settled(c)'
                       /\ Intact(c) => tree'[c] \in {"alive", "kept"}
<1>1. IInv /\ [Next]_vars => [faults' = faults => \A c \in Comments : Stays(c)]_vars
  <2> SUFFICES ASSUME IInv, Next, faults' = faults, NEW c \in Comments PROVE Stays(c)  BY DEF vars
  <2>1. tree[c] # "none" /\ (\A r \in Requests : Merges(r) => arch[r].prior[c] # "none")
           => tree'[c] # "none"
    <3>1. CASE tree' = tree  BY <3>1
    <3>2. ASSUME NEW r \in Requests, SaveComments(r), tree' # tree
          PROVE  /\ Merges(r) /\ tree' = Merged(arch[r].prior, arch[r].load.coms)
                 /\ arch[r].prior \in [Comments -> Node] /\ arch[r].load.coms \in [Comments -> Live]
      BY <3>2, WorkFields, AnswerFields DEF SaveComments, IInv, TypeOK, Merges
    <3>q. QED BY <3>1, <3>2, Writers, MergedKeeps
  <2>2. Intact(c) => tree'[c] \in {"alive", "kept"}
    <3>1. CASE tree' = tree  BY <3>1 DEF Intact
    <3>2. ASSUME NEW r \in Requests, SaveComments(r), tree' # tree
          PROVE  /\ Merges(r) /\ tree' = Merged(arch[r].prior, arch[r].load.coms)
                 /\ arch[r].prior \in [Comments -> Node] /\ arch[r].load.coms \in [Comments -> Live]
      BY <3>2, WorkFields, AnswerFields DEF SaveComments, IInv, TypeOK, Merges
    <3>q. QED BY <3>1, <3>2, Writers, MergedKeeps DEF Intact
  <2>3. Settled(c) => Settled(c)'
    <3> SUFFICES ASSUME Settled(c), NEW q \in Requests, arch'[q].pc = "save", ~arch'[q].short
                 PROVE  arch'[q].prior[c] # "none"
      BY <2>1 DEF Settled, Merges
    <3>1. CASE arch'[q] = arch[q]  BY <3>1 DEF Settled, Merges
    <3>2. CASE ReadPrior(q)
      <4>1. faults \in Nat  BY MaxAssumption DEF IInv, TypeOK
      <4>2. ~Fault  BY <4>1 DEF Fault
      <4>3. Done.pc = "idle" /\ arch \in [Requests -> Work]  BY DoneType DEF IInv, TypeOK
      <4>4. arch' = [arch EXCEPT ![q] = [@ EXCEPT !.pc = "save",
                                                  !.prior = IF arch[q].short THEN Empty ELSE tree]]
        BY <3>2, <4>2, <4>3 DEF ReadPrior, Rest
      <4>5. arch[q] \in Work  BY <4>3
      <4>6. /\ arch'[q].short = arch[q].short
            /\ arch'[q].prior = IF arch[q].short THEN Empty ELSE tree
        BY <4>3, <4>4, <4>5 DEF Work
      <4>q. QED BY <4>6 DEF Settled
    <3>q. QED BY <3>1, <3>2, Readers
  <2>q. QED BY <2>2, <2>3
<1>q. QED BY <1>1, Invariance, PTL DEF Spec, SettledStays

-----------------------------------------------------------------------------
(* Migrations: the upgrades of the schema.                                 *)

LEMMA LongerSet == ASSUME NEW X, NEW S, X \subseteq S, NEW s \in Seq(X)  PROVE s \in Seq(S)
OBVIOUS

\* The parts of the list.
LEMMA Parts ==
  /\ Initial \in Seq({Initial[i] : i \in 1 .. 1}) /\ Len(Initial) = 1
  /\ Early \in Seq({Early[i] : i \in 1 .. 8}) /\ Len(Early) = 8
  /\ Devices \in Seq({Devices[i] : i \in 1 .. 9}) /\ Len(Devices) = 9
  /\ ContentStore \in Seq({ContentStore[i] : i \in 1 .. 2}) /\ Len(ContentStore) = 2
  /\ Scored \in Seq({Scored[i] : i \in 1 .. 1}) /\ Len(Scored) = 1
  /\ Rejudged \in Seq({Rejudged[i] : i \in 1 .. 1}) /\ Len(Rejudged) = 1
  /\ Removed \in Seq({Removed[i] : i \in 1 .. 6}) /\ Len(Removed) = 6
  /\ Folding \in Seq({Folding[i] : i \in 1 .. 3}) /\ Len(Folding) = 3
  /\ Trusted \in Seq({Trusted[i] : i \in 1 .. 4}) /\ Len(Trusted) = 4
  /\ Latest \in Seq({Latest[i] : i \in 1 .. 4}) /\ Len(Latest) = 4
<1>1. Initial \in Seq({Initial[i] : i \in 1 .. 1}) /\ Len(Initial) = 1
  BY DEF Initial
<1>2. Early \in Seq({Early[i] : i \in 1 .. 8}) /\ Len(Early) = 8
  BY DEF Early
<1>3. Devices \in Seq({Devices[i] : i \in 1 .. 9}) /\ Len(Devices) = 9
  BY DEF Devices
<1>4. ContentStore \in Seq({ContentStore[i] : i \in 1 .. 2}) /\ Len(ContentStore) = 2
  BY DEF ContentStore
<1>5. Scored \in Seq({Scored[i] : i \in 1 .. 1}) /\ Len(Scored) = 1
  BY DEF Scored
<1>6. Rejudged \in Seq({Rejudged[i] : i \in 1 .. 1}) /\ Len(Rejudged) = 1
  BY DEF Rejudged
<1>7. Removed \in Seq({Removed[i] : i \in 1 .. 6}) /\ Len(Removed) = 6
  BY DEF Removed
<1>8. Folding \in Seq({Folding[i] : i \in 1 .. 3}) /\ Len(Folding) = 3
  BY DEF Folding
<1>9. Trusted \in Seq({Trusted[i] : i \in 1 .. 4}) /\ Len(Trusted) = 4
  BY DEF Trusted
<1>10. Latest \in Seq({Latest[i] : i \in 1 .. 4}) /\ Len(Latest) = 4
  BY DEF Latest
<1>q. QED
  BY <1>1, <1>2, <1>3, <1>4, <1>5, <1>6, <1>7, <1>8, <1>9, <1>10

\* Which upgrade is which.
LEMMA InOrder ==
  /\ Len(migrations) = 39
  /\ \A i \in 1 .. 1 : migrations[i] = Initial[i]
  /\ \A i \in 1 .. 8 : migrations[i + 1] = Early[i]
  /\ \A i \in 1 .. 9 : migrations[i + 9] = Devices[i]
  /\ \A i \in 1 .. 2 : migrations[i + 18] = ContentStore[i]
  /\ \A i \in 1 .. 1 : migrations[i + 20] = Scored[i]
  /\ \A i \in 1 .. 1 : migrations[i + 21] = Rejudged[i]
  /\ \A i \in 1 .. 6 : migrations[i + 22] = Removed[i]
  /\ \A i \in 1 .. 3 : migrations[i + 28] = Folding[i]
  /\ \A i \in 1 .. 4 : migrations[i + 31] = Trusted[i]
  /\ \A i \in 1 .. 4 : migrations[i + 35] = Latest[i]
<1> DEFINE s2 == Initial \o Early
           s3 == s2 \o Devices
           s4 == s3 \o ContentStore
           s5 == s4 \o Scored
           s6 == s5 \o Rejudged
           s7 == s6 \o Removed
           s8 == s7 \o Folding
           s9 == s8 \o Trusted
           s10 == s9 \o Latest
<1>1. migrations = s10
  BY DEF migrations
<1>p. PICK S :
       /\ Initial \in Seq(S) /\ Len(Initial) = 1
       /\ Early \in Seq(S) /\ Len(Early) = 8
       /\ Devices \in Seq(S) /\ Len(Devices) = 9
       /\ ContentStore \in Seq(S) /\ Len(ContentStore) = 2
       /\ Scored \in Seq(S) /\ Len(Scored) = 1
       /\ Rejudged \in Seq(S) /\ Len(Rejudged) = 1
       /\ Removed \in Seq(S) /\ Len(Removed) = 6
       /\ Folding \in Seq(S) /\ Len(Folding) = 3
       /\ Trusted \in Seq(S) /\ Len(Trusted) = 4
       /\ Latest \in Seq(S) /\ Len(Latest) = 4
  <2> DEFINE S == {Initial[i] : i \in 1 .. 1} \cup
                  {Early[i] : i \in 1 .. 8} \cup
                  {Devices[i] : i \in 1 .. 9} \cup
                  {ContentStore[i] : i \in 1 .. 2} \cup
                  {Scored[i] : i \in 1 .. 1} \cup
                  {Rejudged[i] : i \in 1 .. 1} \cup
                  {Removed[i] : i \in 1 .. 6} \cup
                  {Folding[i] : i \in 1 .. 3} \cup
                  {Trusted[i] : i \in 1 .. 4} \cup
                  {Latest[i] : i \in 1 .. 4}
  <2>1. Initial \in Seq(S)
    BY Parts, LongerSet
  <2>2. Early \in Seq(S)
    BY Parts, LongerSet
  <2>3. Devices \in Seq(S)
    BY Parts, LongerSet
  <2>4. ContentStore \in Seq(S)
    BY Parts, LongerSet
  <2>5. Scored \in Seq(S)
    BY Parts, LongerSet
  <2>6. Rejudged \in Seq(S)
    BY Parts, LongerSet
  <2>7. Removed \in Seq(S)
    BY Parts, LongerSet
  <2>8. Folding \in Seq(S)
    BY Parts, LongerSet
  <2>9. Trusted \in Seq(S)
    BY Parts, LongerSet
  <2>10. Latest \in Seq(S)
    BY Parts, LongerSet
  <2> HIDE DEF S
  <2>q. QED BY Parts, <2>1, <2>2, <2>3, <2>4, <2>5, <2>6, <2>7, <2>8, <2>9, <2>10
<1>e. /\ s2 = Initial \o Early
      /\ s3 = s2 \o Devices
      /\ s4 = s3 \o ContentStore
      /\ s5 = s4 \o Scored
      /\ s6 = s5 \o Rejudged
      /\ s7 = s6 \o Removed
      /\ s8 = s7 \o Folding
      /\ s9 = s8 \o Trusted
      /\ s10 = s9 \o Latest
  OBVIOUS
<1> HIDE DEF s2, s3, s4, s5, s6, s7, s8, s9, s10
<1>2. /\ s2 \in Seq(S) /\ Len(s2) = 9
      /\ \A i \in 1 .. 1 : s2[i] = Initial[i]
      /\ \A i \in 1 .. 8 : s2[i + 1] = Early[i]
  <2>1. Initial \in Seq(S) /\ Early \in Seq(S) /\ s2 = Initial \o Early
    BY <1>p, <1>e
  <2>2. /\ s2 \in Seq(S) /\ Len(s2) = Len(Initial) + Len(Early)
        /\ \A i \in 1 .. Len(Initial) : s2[i] = Initial[i]
        /\ \A i \in 1 .. Len(Early) : s2[i + Len(Initial)] = Early[i]
    BY ONLY <2>1
  <2>3. Len(Initial) = 1 /\ Len(Early) = 8
    BY <1>p
  <2>q. QED BY ONLY <2>2, <2>3
<1>3. /\ s3 \in Seq(S) /\ Len(s3) = 18
      /\ \A i \in 1 .. 9 : s3[i] = s2[i]
      /\ \A i \in 1 .. 9 : s3[i + 9] = Devices[i]
  <2>1. s2 \in Seq(S) /\ Devices \in Seq(S) /\ s3 = s2 \o Devices
    BY <1>p, <1>e, <1>2
  <2>2. /\ s3 \in Seq(S) /\ Len(s3) = Len(s2) + Len(Devices)
        /\ \A i \in 1 .. Len(s2) : s3[i] = s2[i]
        /\ \A i \in 1 .. Len(Devices) : s3[i + Len(s2)] = Devices[i]
    BY ONLY <2>1
  <2>3. Len(s2) = 9 /\ Len(Devices) = 9
    BY <1>p, <1>2
  <2>q. QED BY ONLY <2>2, <2>3
<1>4. /\ s4 \in Seq(S) /\ Len(s4) = 20
      /\ \A i \in 1 .. 18 : s4[i] = s3[i]
      /\ \A i \in 1 .. 2 : s4[i + 18] = ContentStore[i]
  <2>1. s3 \in Seq(S) /\ ContentStore \in Seq(S) /\ s4 = s3 \o ContentStore
    BY <1>p, <1>e, <1>3
  <2>2. /\ s4 \in Seq(S) /\ Len(s4) = Len(s3) + Len(ContentStore)
        /\ \A i \in 1 .. Len(s3) : s4[i] = s3[i]
        /\ \A i \in 1 .. Len(ContentStore) : s4[i + Len(s3)] = ContentStore[i]
    BY ONLY <2>1
  <2>3. Len(s3) = 18 /\ Len(ContentStore) = 2
    BY <1>p, <1>3
  <2>q. QED BY ONLY <2>2, <2>3
<1>5. /\ s5 \in Seq(S) /\ Len(s5) = 21
      /\ \A i \in 1 .. 20 : s5[i] = s4[i]
      /\ \A i \in 1 .. 1 : s5[i + 20] = Scored[i]
  <2>1. s4 \in Seq(S) /\ Scored \in Seq(S) /\ s5 = s4 \o Scored
    BY <1>p, <1>e, <1>4
  <2>2. /\ s5 \in Seq(S) /\ Len(s5) = Len(s4) + Len(Scored)
        /\ \A i \in 1 .. Len(s4) : s5[i] = s4[i]
        /\ \A i \in 1 .. Len(Scored) : s5[i + Len(s4)] = Scored[i]
    BY ONLY <2>1
  <2>3. Len(s4) = 20 /\ Len(Scored) = 1
    BY <1>p, <1>4
  <2>q. QED BY ONLY <2>2, <2>3
<1>6. /\ s6 \in Seq(S) /\ Len(s6) = 22
      /\ \A i \in 1 .. 21 : s6[i] = s5[i]
      /\ \A i \in 1 .. 1 : s6[i + 21] = Rejudged[i]
  <2>1. s5 \in Seq(S) /\ Rejudged \in Seq(S) /\ s6 = s5 \o Rejudged
    BY <1>p, <1>e, <1>5
  <2>2. /\ s6 \in Seq(S) /\ Len(s6) = Len(s5) + Len(Rejudged)
        /\ \A i \in 1 .. Len(s5) : s6[i] = s5[i]
        /\ \A i \in 1 .. Len(Rejudged) : s6[i + Len(s5)] = Rejudged[i]
    BY ONLY <2>1
  <2>3. Len(s5) = 21 /\ Len(Rejudged) = 1
    BY <1>p, <1>5
  <2>q. QED BY ONLY <2>2, <2>3
<1>7. /\ s7 \in Seq(S) /\ Len(s7) = 28
      /\ \A i \in 1 .. 22 : s7[i] = s6[i]
      /\ \A i \in 1 .. 6 : s7[i + 22] = Removed[i]
  <2>1. s6 \in Seq(S) /\ Removed \in Seq(S) /\ s7 = s6 \o Removed
    BY <1>p, <1>e, <1>6
  <2>2. /\ s7 \in Seq(S) /\ Len(s7) = Len(s6) + Len(Removed)
        /\ \A i \in 1 .. Len(s6) : s7[i] = s6[i]
        /\ \A i \in 1 .. Len(Removed) : s7[i + Len(s6)] = Removed[i]
    BY ONLY <2>1
  <2>3. Len(s6) = 22 /\ Len(Removed) = 6
    BY <1>p, <1>6
  <2>q. QED BY ONLY <2>2, <2>3
<1>8. /\ s8 \in Seq(S) /\ Len(s8) = 31
      /\ \A i \in 1 .. 28 : s8[i] = s7[i]
      /\ \A i \in 1 .. 3 : s8[i + 28] = Folding[i]
  <2>1. s7 \in Seq(S) /\ Folding \in Seq(S) /\ s8 = s7 \o Folding
    BY <1>p, <1>e, <1>7
  <2>2. /\ s8 \in Seq(S) /\ Len(s8) = Len(s7) + Len(Folding)
        /\ \A i \in 1 .. Len(s7) : s8[i] = s7[i]
        /\ \A i \in 1 .. Len(Folding) : s8[i + Len(s7)] = Folding[i]
    BY ONLY <2>1
  <2>3. Len(s7) = 28 /\ Len(Folding) = 3
    BY <1>p, <1>7
  <2>q. QED BY ONLY <2>2, <2>3
<1>9. /\ s9 \in Seq(S) /\ Len(s9) = 35
      /\ \A i \in 1 .. 31 : s9[i] = s8[i]
      /\ \A i \in 1 .. 4 : s9[i + 31] = Trusted[i]
  <2>1. s8 \in Seq(S) /\ Trusted \in Seq(S) /\ s9 = s8 \o Trusted
    BY <1>p, <1>e, <1>8
  <2>2. /\ s9 \in Seq(S) /\ Len(s9) = Len(s8) + Len(Trusted)
        /\ \A i \in 1 .. Len(s8) : s9[i] = s8[i]
        /\ \A i \in 1 .. Len(Trusted) : s9[i + Len(s8)] = Trusted[i]
    BY ONLY <2>1
  <2>3. Len(s8) = 31 /\ Len(Trusted) = 4
    BY <1>p, <1>8
  <2>q. QED BY ONLY <2>2, <2>3
<1>10. /\ s10 \in Seq(S) /\ Len(s10) = 39
       /\ \A i \in 1 .. 35 : s10[i] = s9[i]
       /\ \A i \in 1 .. 4 : s10[i + 35] = Latest[i]
  <2>1. s9 \in Seq(S) /\ Latest \in Seq(S) /\ s10 = s9 \o Latest
    BY <1>p, <1>e, <1>9
  <2>2. /\ s10 \in Seq(S) /\ Len(s10) = Len(s9) + Len(Latest)
        /\ \A i \in 1 .. Len(s9) : s10[i] = s9[i]
        /\ \A i \in 1 .. Len(Latest) : s10[i + Len(s9)] = Latest[i]
    BY ONLY <2>1
  <2>3. Len(s9) = 35 /\ Len(Latest) = 4
    BY <1>p, <1>9
  <2>q. QED BY ONLY <2>2, <2>3
<1>q. QED
  BY <1>1, <1>2, <1>3, <1>4, <1>5, <1>6, <1>7, <1>8, <1>9, <1>10

\* A number up to ten is one of them.
LEMMA Numbered ==
  /\ \A i \in 1 .. 1 : i = 1
  /\ \A i \in 1 .. 2 : i = 1 \/ i = 2
  /\ \A i \in 1 .. 3 : i = 1 \/ i = 2 \/ i = 3
  /\ \A i \in 1 .. 4 : i = 1 \/ i = 2 \/ i = 3 \/ i = 4
  /\ \A i \in 1 .. 6 : i = 1 \/ i = 2 \/ i = 3 \/ i = 4 \/ i = 5 \/ i = 6
  /\ \A i \in 1 .. 8 : i = 1 \/ i = 2 \/ i = 3 \/ i = 4 \/ i = 5 \/ i = 6 \/ i = 7 \/ i = 8
  /\ \A i \in 1 .. 9 : i = 1 \/ i = 2 \/ i = 3 \/ i = 4 \/ i = 5 \/ i = 6 \/ i = 7 \/ i = 8 \/ i = 9
OBVIOUS

\* Every upgrade has its place in a part.
LEMMA InParts ==
  ASSUME NEW j \in 1 .. 39
  PROVE  \/ j = 1
         \/ j - 1 \in 1 .. 8 /\ j = (j - 1) + 1
         \/ j - 9 \in 1 .. 9 /\ j = (j - 9) + 9
         \/ j - 18 \in 1 .. 2 /\ j = (j - 18) + 18
         \/ j - 20 \in 1 .. 1 /\ j = (j - 20) + 20
         \/ j - 21 \in 1 .. 1 /\ j = (j - 21) + 21
         \/ j - 22 \in 1 .. 6 /\ j = (j - 22) + 22
         \/ j - 28 \in 1 .. 3 /\ j = (j - 28) + 28
         \/ j - 31 \in 1 .. 4 /\ j = (j - 31) + 31
         \/ j - 35 \in 1 .. 4 /\ j = (j - 35) + 35
OBVIOUS

\* What the upgrades of each part drop.
LEMMA PartsDrop ==
  /\ \A i \in 1 .. 1 : Initial[i].drop = {}
  /\ \A i \in 1 .. 8 : Early[i].drop = {}
  /\ \A i \in 1 .. 9 : i \notin {8, 9} => Devices[i].drop = {}
  /\ Devices[8].drop = Drawn
  /\ Devices[9].drop = Adopted
  /\ \A i \in 1 .. 2 : i \notin {1} => ContentStore[i].drop = {}
  /\ ContentStore[1].drop = {"media_index"} \cup AudioColumns
  /\ \A i \in 1 .. 1 : Scored[i].drop = {}
  /\ \A i \in 1 .. 1 : Rejudged[i].drop = {}
  /\ \A i \in 1 .. 6 : Removed[i].drop = {}
  /\ \A i \in 1 .. 3 : i \notin {2} => Folding[i].drop = {}
  /\ Folding[2].drop = FoldKeys
  /\ \A i \in 1 .. 4 : Trusted[i].drop = {}
  /\ \A i \in 1 .. 4 : Latest[i].drop = {}
<1>1. Initial[1].drop = {}
  BY DEF Initial, Upgrade, Adds, Sources, Audio
<1>2. Early[1].drop = {} /\ Early[2].drop = {} /\ Early[3].drop = {} /\ Early[4].drop = {} /\ Early[5].drop = {} /\ Early[6].drop = {} /\ Early[7].drop = {} /\ Early[8].drop = {}
  BY DEF Early, Upgrade, Adds, Sources, Audio
<1>3. Devices[1].drop = {} /\ Devices[2].drop = {} /\ Devices[3].drop = {} /\ Devices[4].drop = {} /\ Devices[5].drop = {} /\ Devices[6].drop = {} /\ Devices[7].drop = {} /\ Devices[8].drop = Drawn /\ Devices[9].drop = Adopted
  BY DEF Devices, Upgrade, Adds, Sources, Audio
<1>4. ContentStore[1].drop = {"media_index"} \cup AudioColumns /\ ContentStore[2].drop = {}
  BY DEF ContentStore, Upgrade, Adds, Sources, Audio
<1>5. Scored[1].drop = {}
  BY DEF Scored, Upgrade, Adds, Sources, Audio
<1>6. Rejudged[1].drop = {}
  BY DEF Rejudged, Upgrade, Adds, Sources, Audio
<1>7. Removed[1].drop = {} /\ Removed[2].drop = {} /\ Removed[3].drop = {} /\ Removed[4].drop = {} /\ Removed[5].drop = {} /\ Removed[6].drop = {}
  BY DEF Removed, Upgrade, Adds, Sources, Audio
<1>8. Folding[1].drop = {} /\ Folding[2].drop = FoldKeys /\ Folding[3].drop = {}
  BY DEF Folding, Upgrade, Adds, Sources, Audio
<1>9. Trusted[1].drop = {} /\ Trusted[2].drop = {} /\ Trusted[3].drop = {} /\ Trusted[4].drop = {}
  BY DEF Trusted, Upgrade, Adds, Sources, Audio
<1>10. Latest[1].drop = {} /\ Latest[2].drop = {} /\ Latest[3].drop = {} /\ Latest[4].drop = {}
  BY DEF Latest, Upgrade, Adds, Sources, Audio
<1>q. QED
  BY Numbered, <1>1, <1>2, <1>3, <1>4, <1>5, <1>6, <1>7, <1>8, <1>9, <1>10

\* What the upgrades drop.
LEMMA Drops ==
  /\ \A j \in 1 .. 39 : j \notin {17, 18, 19, 30} => migrations[j].drop = {}
  /\ migrations[17].drop = Drawn /\ migrations[18].drop = Adopted
  /\ migrations[19].drop = {"media_index"} \cup AudioColumns /\ migrations[30].drop = FoldKeys
<1>1. ASSUME NEW j \in 1 .. 39, j \notin {17, 18, 19, 30}  PROVE migrations[j].drop = {}
  BY <1>1, InParts, InOrder, PartsDrop
<1>2. /\ migrations[8 + 9] = Devices[8] /\ migrations[9 + 9] = Devices[9]
      /\ migrations[1 + 18] = ContentStore[1] /\ migrations[2 + 28] = Folding[2]
  BY InOrder
<1>q. QED
  BY <1>1, <1>2, PartsDrop

\* A statement that fails on what is there meets what its own upgrade drops,
\* but for the tables of the content store, which no upgrade before it makes.
LEMMA PartsBare ==
  /\ \A i \in 1 .. 1 : Initial[i].bare = {}
  /\ \A i \in 1 .. 8 : Early[i].bare = {}
  /\ \A i \in 1 .. 9 : Devices[i].bare = {}
  /\ ContentStore[1].bare = MediaTables /\ ContentStore[2].bare = {}
  /\ \A i \in 1 .. 1 : Scored[i].bare = {}
  /\ \A i \in 1 .. 1 : Rejudged[i].bare = {}
  /\ \A i \in 1 .. 6 : Removed[i].bare = {}
  /\ \A i \in 1 .. 3 : Folding[i].bare \subseteq Folding[i].drop
  /\ \A i \in 1 .. 4 : Trusted[i].bare = {}
  /\ \A i \in 1 .. 4 : Latest[i].bare = {}
  /\ \A i \in 1 .. 1 : Initial[i].add \cap MediaTables = {}
  /\ \A i \in 1 .. 8 : Early[i].add \cap MediaTables = {}
  /\ \A i \in 1 .. 9 : Devices[i].add \cap MediaTables = {}
<1>1. Initial[1].bare = {}
  BY DEF Initial, Upgrade, Adds, Sources, Audio
<1>2. Early[1].bare = {} /\ Early[2].bare = {} /\ Early[3].bare = {} /\ Early[4].bare = {} /\ Early[5].bare = {} /\ Early[6].bare = {} /\ Early[7].bare = {} /\ Early[8].bare = {}
  BY DEF Early, Upgrade, Adds, Sources, Audio
<1>3. Devices[1].bare = {} /\ Devices[2].bare = {} /\ Devices[3].bare = {} /\ Devices[4].bare = {} /\ Devices[5].bare = {} /\ Devices[6].bare = {} /\ Devices[7].bare = {} /\ Devices[8].bare = {} /\ Devices[9].bare = {}
  BY DEF Devices, Upgrade, Adds, Sources, Audio
<1>4. ContentStore[1].bare = MediaTables /\ ContentStore[2].bare = {}
  BY DEF ContentStore, Upgrade, Adds, Sources, Audio
<1>5. Scored[1].bare = {}
  BY DEF Scored, Upgrade, Adds, Sources, Audio
<1>6. Rejudged[1].bare = {}
  BY DEF Rejudged, Upgrade, Adds, Sources, Audio
<1>7. Removed[1].bare = {} /\ Removed[2].bare = {} /\ Removed[3].bare = {} /\ Removed[4].bare = {} /\ Removed[5].bare = {} /\ Removed[6].bare = {}
  BY DEF Removed, Upgrade, Adds, Sources, Audio
<1>8. Folding[1].bare = {} /\ Folding[2].bare = FoldKeys /\ Folding[2].drop = FoldKeys /\ Folding[3].bare = {}
  BY DEF Folding, Upgrade, Adds, Sources, Audio
<1>9. Trusted[1].bare = {} /\ Trusted[2].bare = {} /\ Trusted[3].bare = {} /\ Trusted[4].bare = {}
  BY DEF Trusted, Upgrade, Adds, Sources, Audio
<1>10. Latest[1].bare = {} /\ Latest[2].bare = {} /\ Latest[3].bare = {} /\ Latest[4].bare = {}
  BY DEF Latest, Upgrade, Adds, Sources, Audio
<1>11. Initial[1].add \cap MediaTables = {}
  BY DEF Initial, Upgrade, Adds, Sources, Audio, MediaTables, About, AudioColumns, Drawn, Adopted, Lifespan
<1>12. Early[1].add \cap MediaTables = {} /\ Early[2].add \cap MediaTables = {} /\ Early[3].add \cap MediaTables = {} /\ Early[4].add \cap MediaTables = {} /\ Early[5].add \cap MediaTables = {} /\ Early[6].add \cap MediaTables = {} /\ Early[7].add \cap MediaTables = {} /\ Early[8].add \cap MediaTables = {}
  BY DEF Early, Upgrade, Adds, Sources, Audio, MediaTables, About, AudioColumns, Drawn, Adopted, Lifespan
<1>13. Devices[1].add \cap MediaTables = {} /\ Devices[2].add \cap MediaTables = {} /\ Devices[3].add \cap MediaTables = {} /\ Devices[4].add \cap MediaTables = {} /\ Devices[5].add \cap MediaTables = {} /\ Devices[6].add \cap MediaTables = {} /\ Devices[7].add \cap MediaTables = {} /\ Devices[8].add \cap MediaTables = {} /\ Devices[9].add \cap MediaTables = {}
  BY DEF Devices, Upgrade, Adds, Sources, Audio, MediaTables, About, AudioColumns, Drawn, Adopted, Lifespan
<1>q. QED
  BY Numbered, <1>1, <1>2, <1>3, <1>4, <1>5, <1>6, <1>7, <1>8, <1>9, <1>10, <1>11, <1>12, <1>13

LEMMA Bare ==
  /\ \A j \in 1 .. 39 : j # 19 => migrations[j].bare \subseteq migrations[j].drop
  /\ migrations[19].bare = MediaTables
  /\ \A j \in 1 .. 18 : migrations[j].add \cap MediaTables = {}
<1>1. ASSUME NEW j \in 1 .. 39, j # 19  PROVE migrations[j].bare \subseteq migrations[j].drop
  <2>1. CASE j = 20
    <3>1. migrations[2 + 18] = ContentStore[2]
      BY InOrder
    <3>q. QED BY <2>1, <3>1, PartsBare
  <2>2. CASE j # 20
    BY <1>1, <2>2, InParts, InOrder, PartsBare
  <2>q. QED BY <2>1, <2>2
<1>2. migrations[1 + 18] = ContentStore[1]
  BY InOrder
<1>3. ASSUME NEW j \in 1 .. 18  PROVE migrations[j].add \cap MediaTables = {}
  <2>1. j = 1 \/ (j - 1 \in 1 .. 8 /\ j = (j - 1) + 1) \/ (j - 9 \in 1 .. 9 /\ j = (j - 9) + 9)
    OBVIOUS
  <2>q. QED BY <2>1, InOrder, PartsBare
<1>q. QED
  BY <1>1, <1>2, <1>3, PartsBare

\* What a column may hold was said last by the upgrades for it.
LEMMA SaidLast ==
  /\ migrations[35].sources = Natural \cup {"manual_refresh"}
  /\ \A j \in 36 .. 39 : migrations[j].sources = {}
  /\ migrations[19].audio = AudioStates
  /\ \A j \in 20 .. 39 : migrations[j].audio = {}
<1>1. Trusted[4].sources = Natural \cup {"manual_refresh"}
  BY DEF Trusted, Upgrade, Adds, Sources
<1>2. Latest[1].sources = {} /\ Latest[2].sources = {} /\ Latest[3].sources = {} /\ Latest[4].sources = {}
  BY DEF Latest, Upgrade, Adds
<1>3. ContentStore[1].audio = AudioStates /\ ContentStore[2].audio = {}
  BY DEF ContentStore, Upgrade, Adds
<1>4. Scored[1].audio = {}
  BY DEF Scored, Upgrade, Adds, Sources
<1>5. Rejudged[1].audio = {}
  BY DEF Rejudged, Upgrade, Adds, Sources
<1>6. Removed[1].audio = {} /\ Removed[2].audio = {} /\ Removed[3].audio = {} /\ Removed[4].audio = {} /\ Removed[5].audio = {} /\ Removed[6].audio = {}
  BY DEF Removed, Upgrade, Adds, Sources
<1>7. Folding[1].audio = {} /\ Folding[2].audio = {} /\ Folding[3].audio = {}
  BY DEF Folding, Upgrade, Adds, Sources
<1>8. Trusted[1].audio = {} /\ Trusted[2].audio = {} /\ Trusted[3].audio = {} /\ Trusted[4].audio = {}
  BY DEF Trusted, Upgrade, Adds, Sources
<1>9. Latest[1].audio = {} /\ Latest[2].audio = {} /\ Latest[3].audio = {} /\ Latest[4].audio = {}
  BY DEF Latest, Upgrade, Adds, Sources
<1>a. migrations[4 + 31] = Trusted[4] /\ migrations[1 + 18] = ContentStore[1] /\ migrations[2 + 18] = ContentStore[2]
  BY InOrder
<1>b. ASSUME NEW j \in 36 .. 39  PROVE migrations[j].sources = {}
  <2>1. j - 35 \in 1 .. 4 /\ j = (j - 35) + 35
    OBVIOUS
  <2>q. QED BY <2>1, <1>2, InOrder, Numbered
<1>c. ASSUME NEW j \in 20 .. 39  PROVE migrations[j].audio = {}
  <2>1. j = 20 \/ j \in 21 .. 39
    OBVIOUS
  <2>2. CASE j = 20
    BY <2>2, <1>3, <1>a
  <2>3. CASE j \in 21 .. 39
    BY <2>3, InParts, InOrder, Numbered, <1>4, <1>5, <1>6, <1>7, <1>8, <1>9
  <2>q. QED BY <2>1, <2>2, <2>3
<1>q. QED
  BY <1>1, <1>3, <1>a, <1>b, <1>c

\* Where the upgrades make what the stores name.
LEMMA Makes ==
  /\ {"posts", "comments", "subreddits", "oauth_tokens"} \subseteq migrations[1].add
  /\ {"site_settings"} \subseteq migrations[4].add
  /\ {"subreddit_status"} \subseteq migrations[5].add
  /\ {"posts.media_done"} \subseteq migrations[6].add
  /\ {"sub_icons"} \subseteq migrations[7].add
  /\ {"oauth_tokens.headers_json"} \subseteq migrations[9].add
  /\ {"subreddit_status.nsfw"} \subseteq migrations[10].add
  /\ About \subseteq migrations[11].add
  /\ {"device_profile"} \subseteq migrations[15].add
  /\ Lifespan \subseteq migrations[18].add
  /\ {"media_content", "media_url"} \subseteq migrations[19].add
  /\ {"media_content.score", "update_asset_access", "eviction_candidates"} \subseteq migrations[21].add
  /\ {"posts.shuffle_key"} \subseteq migrations[23].add
  /\ {"sub_icons.has_icon"} \subseteq migrations[25].add
  /\ {"posts.upstream_removed"} \subseteq migrations[26].add
  /\ {"media_unavailable"} \subseteq migrations[27].add
  /\ {"media_unavailable.dead_at"} \subseteq migrations[28].add
  /\ FoldKeys \subseteq migrations[30].add
  /\ {"prefetch_runs"} \subseteq migrations[31].add
  /\ {"trusted_devices"} \subseteq migrations[33].add
  /\ {"trusted_devices.ip_alt"} \subseteq migrations[34].add
  /\ {"posts.listing_rank", "posts.listing_seen_at"} \subseteq migrations[36].add
  /\ {"trusted_devices.ua"} \subseteq migrations[37].add
  /\ {"link_preview"} \subseteq migrations[38].add
  /\ {"link_preview.video_url"} \subseteq migrations[39].add
<1>1. /\ {"posts", "comments", "subreddits", "oauth_tokens"} \subseteq Initial[1].add
  BY DEF Initial, Upgrade, Adds, Sources, Audio, MediaTables
<1>2. migrations[1] = Initial[1]
  BY InOrder
<1>3. /\ {"site_settings"} \subseteq Early[3].add
      /\ {"subreddit_status"} \subseteq Early[4].add
      /\ {"posts.media_done"} \subseteq Early[5].add
      /\ {"sub_icons"} \subseteq Early[6].add
      /\ {"oauth_tokens.headers_json"} \subseteq Early[8].add
  BY DEF Early, Upgrade, Adds, Sources, Audio, MediaTables
<1>4. migrations[3 + 1] = Early[3] /\ migrations[4 + 1] = Early[4] /\ migrations[5 + 1] = Early[5] /\ migrations[6 + 1] = Early[6] /\ migrations[8 + 1] = Early[8]
  BY InOrder
<1>5. /\ {"subreddit_status.nsfw"} \subseteq Devices[1].add
      /\ About \subseteq Devices[2].add
      /\ {"device_profile"} \subseteq Devices[6].add
      /\ Lifespan \subseteq Devices[9].add
  BY DEF Devices, Upgrade, Adds, Sources, Audio, MediaTables
<1>6. migrations[1 + 9] = Devices[1] /\ migrations[2 + 9] = Devices[2] /\ migrations[6 + 9] = Devices[6] /\ migrations[9 + 9] = Devices[9]
  BY InOrder
<1>7. /\ {"media_content", "media_url"} \subseteq ContentStore[1].add
  BY DEF ContentStore, Upgrade, Adds, Sources, Audio, MediaTables
<1>8. migrations[1 + 18] = ContentStore[1]
  BY InOrder
<1>9. /\ {"media_content.score", "update_asset_access", "eviction_candidates"} \subseteq Scored[1].add
  BY DEF Scored, Upgrade, Adds, Sources, Audio, MediaTables
<1>10. migrations[1 + 20] = Scored[1]
  BY InOrder
<1>11. /\ {"posts.shuffle_key"} \subseteq Removed[1].add
       /\ {"sub_icons.has_icon"} \subseteq Removed[3].add
       /\ {"posts.upstream_removed"} \subseteq Removed[4].add
       /\ {"media_unavailable"} \subseteq Removed[5].add
       /\ {"media_unavailable.dead_at"} \subseteq Removed[6].add
  BY DEF Removed, Upgrade, Adds, Sources, Audio, MediaTables
<1>12. migrations[1 + 22] = Removed[1] /\ migrations[3 + 22] = Removed[3] /\ migrations[4 + 22] = Removed[4] /\ migrations[5 + 22] = Removed[5] /\ migrations[6 + 22] = Removed[6]
  BY InOrder
<1>13. /\ FoldKeys \subseteq Folding[2].add
       /\ {"prefetch_runs"} \subseteq Folding[3].add
  BY DEF Folding, Upgrade, Adds, Sources, Audio, MediaTables
<1>14. migrations[2 + 28] = Folding[2] /\ migrations[3 + 28] = Folding[3]
  BY InOrder
<1>15. /\ {"trusted_devices"} \subseteq Trusted[2].add
       /\ {"trusted_devices.ip_alt"} \subseteq Trusted[3].add
  BY DEF Trusted, Upgrade, Adds, Sources, Audio, MediaTables
<1>16. migrations[2 + 31] = Trusted[2] /\ migrations[3 + 31] = Trusted[3]
  BY InOrder
<1>17. /\ {"posts.listing_rank", "posts.listing_seen_at"} \subseteq Latest[1].add
       /\ {"trusted_devices.ua"} \subseteq Latest[2].add
       /\ {"link_preview"} \subseteq Latest[3].add
       /\ {"link_preview.video_url"} \subseteq Latest[4].add
  BY DEF Latest, Upgrade, Adds, Sources, Audio, MediaTables
<1>18. migrations[1 + 35] = Latest[1] /\ migrations[2 + 35] = Latest[2] /\ migrations[3 + 35] = Latest[3] /\ migrations[4 + 35] = Latest[4]
  BY InOrder
<1>q. QED
  BY <1>1, <1>2, <1>3, <1>4, <1>5, <1>6, <1>7, <1>8, <1>9, <1>10, <1>11, <1>12, <1>13, <1>14, <1>15, <1>16, <1>17, <1>18

\* At the last version what the stores name is there.
LEMMA NeededMade == Needed \subseteq ObjectsAt(39)
<1> DEFINE Stays(o) == \E i \in 1 .. 39 : o \in migrations[i].add
                                        /\ \A j \in i + 1 .. 39 : o \notin migrations[j].drop
<1>s. \A o : Stays(o) => o \in ObjectsAt(39)
  <2> SUFFICES ASSUME NEW o, NEW i \in 1 .. 39, o \in migrations[i].add,
                      \A j \in i + 1 .. 39 : o \notin migrations[j].drop
               PROVE  o \in ObjectsAt(39)
    OBVIOUS
  <2>q. QED BY DEF ObjectsAt
<1>i. 18 \in 1 .. 39 /\ 30 \in 1 .. 39
  OBVIOUS
<1>l. \A j \in 18 + 1 .. 39 : j \in 1 .. 39 /\ j \notin {17, 18}
  OBVIOUS
<1>f. \A j \in 30 + 1 .. 39 : j \in 1 .. 39 /\ j \notin {17, 18, 19, 30}
  OBVIOUS
<1>e. \A i \in 1 .. 39 : \A j \in i + 1 .. 39 : j \in 1 .. 39
  OBVIOUS
<1> SUFFICES ASSUME NEW o \in Needed PROVE Stays(o)
  BY <1>s
<1>1. CASE o \in Lifespan
  <2>1. o \in migrations[18].add
    BY <1>1, Makes
  <2>2. o \notin migrations[19].drop /\ o \notin migrations[30].drop
    BY <1>1, Drops DEF Lifespan, AudioColumns, FoldKeys
  <2>3. ASSUME NEW j \in 18 + 1 .. 39  PROVE o \notin migrations[j].drop
    <3>1. CASE j \in {19, 30}  BY <2>2, <3>1
    <3>2. CASE j \notin {17, 18, 19, 30}  BY <1>l, <3>2, Drops
    <3>q. QED BY <1>l, <3>1, <3>2
  <2>q. QED BY <1>i, <2>1, <2>3
<1>2. CASE o \in FoldKeys
  <2>1. o \in migrations[30].add
    BY <1>2, Makes
  <2>2. ASSUME NEW j \in 30 + 1 .. 39  PROVE o \notin migrations[j].drop
    <3>1. migrations[j].drop = {}  BY <1>f, Drops
    <3>q. QED BY <3>1
  <2>q. QED BY <1>i, <2>1, <2>2
<1>3. CASE o \notin Lifespan \cup FoldKeys
  <2>1. \E i \in 1 .. 39 : o \in migrations[i].add
    BY <1>3, Makes DEF Needed, FoldKeys
  <2>2. o \notin Drawn /\ o \notin Adopted /\ o \notin AudioColumns /\ o # "media_index"
    BY <1>3 DEF Needed, Drawn, Adopted, AudioColumns, Lifespan, About
  <2>3. ASSUME NEW j \in 1 .. 39  PROVE o \notin migrations[j].drop
    BY <2>2, <1>3, Drops
  <2>4. PICK i \in 1 .. 39 : o \in migrations[i].add
    BY <2>1
  <2>5. \A j \in i + 1 .. 39 : o \notin migrations[j].drop
    BY <1>e, <2>3
  <2>q. QED BY <2>4, <2>5
<1>q. QED BY <1>1, <1>2, <1>3

\* An upgrade takes what is there at a version to what is there at the next.
LEMMA Grows ==
  ASSUME NEW i \in 1 .. 39
  PROVE  /\ ObjectsAt(i) = (ObjectsAt(i - 1) \ migrations[i].drop) \cup migrations[i].add
         /\ SourcesAt(i) = IF migrations[i].sources = {} THEN SourcesAt(i - 1) ELSE migrations[i].sources
         /\ AudioAt(i) = IF migrations[i].audio = {} THEN AudioAt(i - 1) ELSE migrations[i].audio
<1>1. ObjectsAt(i) = (ObjectsAt(i - 1) \ migrations[i].drop) \cup migrations[i].add
  <2>1. ASSUME NEW o
        PROVE  o \in ObjectsAt(i) <=> o \in (ObjectsAt(i - 1) \ migrations[i].drop) \cup migrations[i].add
    <3>1. o \in ObjectsAt(i) <=>
            \E k \in 1 .. i : o \in migrations[k].add /\ \A j \in k + 1 .. i : o \notin migrations[j].drop
      BY DEF ObjectsAt
    <3>2. o \in ObjectsAt(i - 1) <=>
            \E k \in 1 .. i - 1 : o \in migrations[k].add /\ \A j \in k + 1 .. i - 1 : o \notin migrations[j].drop
      BY DEF ObjectsAt
    <3>3. 1 .. i = 1 .. i - 1 \cup {i}
      OBVIOUS
    <3>4. ASSUME NEW k \in 1 .. i - 1  PROVE k + 1 .. i = k + 1 .. i - 1 \cup {i}
      OBVIOUS
    <3>5. i + 1 .. i = {}
      OBVIOUS
    <3>q. QED BY <3>1, <3>2, <3>3, <3>4, <3>5
  <2>q. QED BY <2>1
<1>2. SourcesAt(i) = IF migrations[i].sources = {} THEN SourcesAt(i - 1) ELSE migrations[i].sources
  <2> DEFINE Recent(v) == {k \in 1 .. v : \A j \in k + 1 .. v : migrations[j].sources = {}}
  <2>1. ASSUME NEW k \in 1 .. i - 1  PROVE k + 1 .. i = k + 1 .. i - 1 \cup {i}
    OBVIOUS
  <2>2. 1 .. i = 1 .. i - 1 \cup {i} /\ i + 1 .. i = {}
    OBVIOUS
  <2>3. SourcesAt(i) = UNION {migrations[k].sources : k \in Recent(i)}
        /\ SourcesAt(i - 1) = UNION {migrations[k].sources : k \in Recent(i - 1)}
    BY DEF SourcesAt
  <2>4. CASE migrations[i].sources = {}
    <3>1. Recent(i) = Recent(i - 1) \cup {i}
      BY <2>1, <2>2, <2>4
    <3> HIDE DEF Recent
    <3>q. QED BY <2>3, <2>4, <3>1
  <2>5. CASE migrations[i].sources # {}
    <3>1. Recent(i) = {i}
      BY <2>1, <2>2, <2>5
    <3> HIDE DEF Recent
    <3>q. QED BY <2>3, <2>5, <3>1
  <2>q. QED BY <2>4, <2>5
<1>3. AudioAt(i) = IF migrations[i].audio = {} THEN AudioAt(i - 1) ELSE migrations[i].audio
  <2> DEFINE Recent(v) == {k \in 1 .. v : \A j \in k + 1 .. v : migrations[j].audio = {}}
  <2>1. ASSUME NEW k \in 1 .. i - 1  PROVE k + 1 .. i = k + 1 .. i - 1 \cup {i}
    OBVIOUS
  <2>2. 1 .. i = 1 .. i - 1 \cup {i} /\ i + 1 .. i = {}
    OBVIOUS
  <2>3. AudioAt(i) = UNION {migrations[k].audio : k \in Recent(i)}
        /\ AudioAt(i - 1) = UNION {migrations[k].audio : k \in Recent(i - 1)}
    BY DEF AudioAt
  <2>4. CASE migrations[i].audio = {}
    <3>1. Recent(i) = Recent(i - 1) \cup {i}
      BY <2>1, <2>2, <2>4
    <3> HIDE DEF Recent
    <3>q. QED BY <2>3, <2>4, <3>1
  <2>5. CASE migrations[i].audio # {}
    <3>1. Recent(i) = {i}
      BY <2>1, <2>2, <2>5
    <3> HIDE DEF Recent
    <3>q. QED BY <2>3, <2>5, <3>1
  <2>q. QED BY <2>4, <2>5
<1>q. QED BY <1>1, <1>2, <1>3

\* What the rows are, and what judging the media of one gives.
Stored == [done : BOOLEAN, icon : {"none", "local", "expired"}, media : SUBSET Media,
           secret : BOOLEAN, confirmed : BOOLEAN]
Judged(media) == \A m \in media : m.resident <=> m.score >= 0

LEMMA ScoresTyped ==
  ASSUME NEW m \in Media
  PROVE  /\ FirstScore(m) \in Media
         /\ Rejudge(m) \in Media /\ (Rejudge(m).resident <=> Rejudge(m).score >= 0)
<1>1. InitialScore(m) \in Nat /\ InitialFloor(m) \in Nat
  BY DEF InitialScore, InitialFloor
<1>2. Score(m) \in Media /\ Score(m).score \in Nat /\ Score(m).resident = m.resident
  <2> DEFINE a == InitialScore(m)
             b == InitialFloor(m)
  <2>1. a \in Nat /\ b \in Nat /\ Score(m) = [m EXCEPT !.score = a, !.floor = b]
    BY <1>1 DEF Score
  <2> HIDE DEF a, b
  <2>2. /\ m = [near |-> m.near, resident |-> m.resident, score |-> m.score, floor |-> m.floor]
        /\ m.near \in BOOLEAN /\ m.resident \in BOOLEAN
    BY DEF Media
  <2>3. Score(m) = [near |-> m.near, resident |-> m.resident, score |-> a, floor |-> b]
    BY <2>1, <2>2
  <2>4. Score(m) \in Media
    BY <2>1, <2>2, <2>3 DEF Media
  <2>q. QED BY <2>1, <2>3, <2>4
<1>3. Rejudge(m) \in Media /\ (Rejudge(m).resident <=> Rejudge(m).score >= 0)
  <2>1. CASE ~m.resident
    <3> DEFINE a == -1
    <3>1. a \in Int /\ ~(a >= 0) /\ Rejudge(m) = [m EXCEPT !.score = a, !.floor = a]
      BY <2>1 DEF Rejudge
    <3> HIDE DEF a
    <3>q. QED BY <3>1, <2>1 DEF Media
  <2>2. CASE m.resident /\ m.score < 0
    <3>1. Rejudge(m) = Score(m)
      BY <2>2 DEF Rejudge
    <3>q. QED BY <3>1, <2>2, <1>2
  <2>3. CASE m.resident /\ ~(m.score < 0)
    BY <2>3 DEF Rejudge, Media
  <2>q. QED BY <2>1, <2>2, <2>3
<1>q. QED BY <1>2, <1>3 DEF FirstScore

\* What an upgrade does to the rows.
LEMMA RowsKept ==
  ASSUME NEW i \in 1 .. 39, NEW rows \in Stored
  PROVE  /\ Rows(i, rows) \in Stored
         /\ i = 22 \/ (i > 22 /\ Judged(rows.media)) => Judged(Rows(i, rows).media)
         /\ i = 32 \/ (i > 32 /\ (rows.secret => rows.confirmed))
              => (Rows(i, rows).secret => Rows(i, rows).confirmed)
<1>1. rows.media \in SUBSET Media
  BY DEF Stored
<1>2. CASE i = 21
  <2> DEFINE S == {FirstScore(m) : m \in rows.media}
  <2>1. S \in SUBSET Media
    BY <1>1, ScoresTyped
  <2>2. Rows(i, rows) = [rows EXCEPT !.media = S]
    BY <1>2 DEF Rows
  <2> HIDE DEF S
  <2>q. QED BY <2>1, <2>2, <1>2 DEF Stored
<1>3. CASE i = 22
  <2> DEFINE S == {Rejudge(m) : m \in rows.media}
  <2>1. S \in SUBSET Media /\ Judged(S)
    BY <1>1, ScoresTyped DEF Judged
  <2>2. Rows(i, rows) = [rows EXCEPT !.media = S]
    BY <1>3 DEF Rows
  <2> HIDE DEF S
  <2>q. QED BY <2>1, <2>2, <1>3 DEF Stored
<1>4. CASE i = 19
  BY <1>4 DEF Rows, Stored
<1>5. CASE i = 6
  <2> DEFINE c == TRUE
  <2>1. c \in BOOLEAN /\ Rows(i, rows) = [rows EXCEPT !.done = c]
    BY <1>5 DEF Rows
  <2> HIDE DEF c
  <2>q. QED BY <2>1, <1>5 DEF Stored
<1>6. CASE i = 8
  BY <1>6 DEF Rows, Stored
<1>7. CASE i = 32
  <2> DEFINE c == rows.confirmed \/ rows.secret
  <2>1. c \in BOOLEAN /\ (rows.secret => c)
    OBVIOUS
  <2>2. Rows(i, rows) = [rows EXCEPT !.confirmed = c]
    BY <1>7 DEF Rows
  <2> HIDE DEF c
  <2>q. QED BY <2>1, <2>2, <1>7 DEF Stored
<1>8. CASE i \notin {6, 8, 19, 21, 22, 32}
  <2>1. Rows(i, rows) = rows
    BY <1>8 DEF Rows
  <2>q. QED BY <2>1, <1>8
<1>q. QED BY <1>2, <1>3, <1>4, <1>5, <1>6, <1>7, <1>8

\* The media a database has that lived at a version.
LEMMA KeptTyped ==
  ASSUME NEW v \in 0 .. 39
  PROVE  Kept(v) \in SUBSET Media /\ (v >= 22 => Judged(Kept(v)))
<1>1. Unscored \in SUBSET Media
  BY DEF Unscored, Media
<1>q. QED
  BY <1>1, ScoresTyped DEF Kept, Judged

\* What is there at a version was made by some upgrade.
LEMMA SchemaTyped ==
  ASSUME NEW v \in 0 .. 39
  PROVE  /\ ObjectsAt(v) \in SUBSET UNION {migrations[i].add : i \in 1 .. 39}
         /\ SourcesAt(v) \in SUBSET UNION {migrations[i].sources : i \in 1 .. 39}
         /\ AudioAt(v) \in SUBSET UNION {migrations[i].audio : i \in 1 .. 39}
<1>1. 1 .. v \subseteq 1 .. 39
  OBVIOUS
<1>q. QED
  BY <1>1 DEF ObjectsAt, SourcesAt, AudioAt

\* At any version before the tables of the content store, they are not there.
LEMMA AllFit ==
  ASSUME NEW i \in 1 .. 39, NEW db, db.objects = ObjectsAt(i - 1)
  PROVE  Fits(db, i)
<1>1. CASE i # 19
  BY <1>1, Bare DEF Fits
<1>2. CASE i = 19
  <2>1. ASSUME NEW o \in MediaTables  PROVE o \notin ObjectsAt(18)
    BY Bare DEF ObjectsAt
  <2>q. QED BY <2>1, <1>2, Bare DEF Fits
<1>q. QED BY <1>1, <1>2

\* An instance that upgrades finds the schema it expects and leaves the next.
LEMMA ApplyStep ==
  ASSUME SchemaKept, NEW r \in MGRunners, Apply(r)
  PROVE  SchemaKept'
<1> DEFINE i == mgRun[r].current + 1
<1>1. /\ mgRun[r].at = "apply" /\ i = mgDB.version + 1 /\ i \in 1 .. 39 /\ mgLock = r
      /\ mgDB.version \in Nat /\ mgDB.rows \in Stored
  BY InOrder DEF SchemaKept, MGTypeOK, OneUpgrades, Apply, Stored
<1>2. Fits(mgDB, i)
  BY <1>1, AllFit DEF SchemaKept, SchemaGrown
<1>3. /\ mgDB' = [Migrated(mgDB, i) EXCEPT !.version = i]
      /\ mgRun' = [mgRun EXCEPT ![r].current = i] /\ UNCHANGED <<mgTable, mgLock, mgLeft>>
  BY <1>1, <1>2 DEF Apply
<1> HIDE DEF i
<1>4. /\ mgDB' = [version |-> i, objects |-> mgDB'.objects, sources |-> mgDB'.sources,
                  audio |-> mgDB'.audio, rows |-> mgDB'.rows]
      /\ mgDB'.version = i /\ mgDB'.rows = Rows(i, mgDB.rows)
      /\ mgDB'.objects = (mgDB.objects \ migrations[i].drop) \cup migrations[i].add
      /\ mgDB'.sources = IF migrations[i].sources = {} THEN mgDB.sources ELSE migrations[i].sources
      /\ mgDB'.audio = IF migrations[i].audio = {} THEN mgDB.audio ELSE migrations[i].audio
  BY <1>3 DEF Migrated
<1>5. SchemaGrown'
  <2>1. i - 1 = mgDB.version
    BY <1>1
  <2>2. /\ mgDB.objects = ObjectsAt(i - 1) /\ mgDB.sources = SourcesAt(i - 1)
        /\ mgDB.audio = AudioAt(i - 1)
    BY <2>1 DEF SchemaKept, SchemaGrown
  <2>3. /\ mgDB'.objects = ObjectsAt(i) /\ mgDB'.sources = SourcesAt(i) /\ mgDB'.audio = AudioAt(i)
    BY <1>1, <1>4, <2>2, Grows
  <2>q. QED BY <1>4, <2>3 DEF SchemaGrown
<1>6. mgDB'.rows \in Stored /\ RowsJudged'
  <2>1. /\ mgDB.version >= 22 => Judged(mgDB.rows.media)
        /\ mgDB.version >= 32 => (mgDB.rows.secret => mgDB.rows.confirmed)
    BY DEF SchemaKept, RowsJudged, Judged
  <2>2. mgDB'.version >= 22 => Judged(mgDB'.rows.media)
    BY <1>1, <1>4, <2>1, RowsKept
  <2>3. mgDB'.version >= 32 => (mgDB'.rows.secret => mgDB'.rows.confirmed)
    BY <1>1, <1>4, <2>1, RowsKept
  <2>4. mgDB'.rows \in Stored
    BY <1>1, <1>4, RowsKept
  <2>q. QED BY <2>2, <2>3, <2>4 DEF RowsJudged, Judged
<1>7. MGTypeOK'
  <2>1. /\ mgDB'.objects \in SUBSET UNION {migrations[k].add : k \in 1 .. Len(migrations)}
        /\ mgDB'.sources \in SUBSET UNION {migrations[k].sources : k \in 1 .. Len(migrations)}
        /\ mgDB'.audio \in SUBSET UNION {migrations[k].audio : k \in 1 .. Len(migrations)}
    <3>1. i \in 0 .. 39 /\ mgDB'.version = i /\ Len(migrations) = 39
      BY <1>1, <1>4, InOrder
    <3>2. /\ mgDB'.objects = ObjectsAt(i) /\ mgDB'.sources = SourcesAt(i) /\ mgDB'.audio = AudioAt(i)
      BY <1>5, <3>1 DEF SchemaGrown
    <3>3. /\ ObjectsAt(i) \in SUBSET UNION {migrations[k].add : k \in 1 .. 39}
          /\ SourcesAt(i) \in SUBSET UNION {migrations[k].sources : k \in 1 .. 39}
          /\ AudioAt(i) \in SUBSET UNION {migrations[k].audio : k \in 1 .. 39}
      BY <3>1, SchemaTyped
    <3>q. QED BY <3>1, <3>2, <3>3
  <2> DEFINE A == SUBSET UNION {migrations[k].add : k \in 1 .. Len(migrations)}
             B == SUBSET UNION {migrations[k].sources : k \in 1 .. Len(migrations)}
             C == SUBSET UNION {migrations[k].audio : k \in 1 .. Len(migrations)}
             V == 0 .. Len(migrations)
  <2>2. i \in V
    BY <1>1, InOrder
  <2>3. mgDB' \in [version : V, objects : A, sources : B, audio : C, rows : Stored]
    <3> HIDE DEF A, B, C, V
    <3>1. mgDB'.objects \in A /\ mgDB'.sources \in B /\ mgDB'.audio \in C
      BY <2>1 DEF A, B, C
    <3>q. QED BY <3>1, <2>2, <1>4, <1>6
  <2>4. mgRun' \in [MGRunners -> [at : MGPlaces,
                                  current : 0 .. Len(migrations)]]
    <3> HIDE DEF V
    <3>1. mgRun \in [MGRunners -> [at : MGPlaces, current : V]]
      BY DEF SchemaKept, MGTypeOK, V
    <3>q. QED BY <3>1, <2>2, <1>3 DEF V
  <2>q. QED BY <2>3, <2>4, <1>3 DEF SchemaKept, MGTypeOK, Stored
<1>8. OneUpgrades'
  <2> SUFFICES ASSUME NEW q \in MGRunners
               PROVE  /\ mgRun'[q].at # "failed"
                      /\ mgRun'[q].at \in {"read", "apply"} => mgLock' = q
                      /\ mgRun'[q].at = "apply" => mgRun'[q].current = mgDB'.version
                      /\ mgRun'[q].at = "serves" => mgDB'.version = Len(migrations)
    BY DEF OneUpgrades
  <2>1. CASE q = r
    BY <2>1, <1>1, <1>3, <1>4 DEF SchemaKept, MGTypeOK
  <2>2. CASE q # r
    <3>1. mgRun'[q] = mgRun[q] /\ mgLock' = r
      BY <2>2, <1>1, <1>3 DEF SchemaKept, MGTypeOK
    <3>2. mgRun[q].at \notin {"read", "apply", "failed"}
      BY <2>2, <1>1 DEF SchemaKept, OneUpgrades
    <3>3. mgRun[q].at # "serves"
      BY <1>1, InOrder DEF SchemaKept, OneUpgrades
    <3>q. QED BY <3>1, <3>2, <3>3
  <2>q. QED BY <2>1, <2>2
<1>9. OneCreates'
  <2>1. mgTable' = mgTable /\ \A q \in MGRunners : mgRun'[q].at = mgRun[q].at
    BY <1>1, <1>3 DEF SchemaKept, MGTypeOK
  <2>q. QED BY <2>1 DEF SchemaKept, OneCreates
<1>q. QED BY <1>5, <1>6, <1>7, <1>8, <1>9 DEF SchemaKept

\* The other steps leave the database alone.
LEMMA OtherStep ==
  ASSUME SchemaKept, NEW r \in MGRunners,
         Begin(r) \/ CreateTable(r) \/ Lock(r) \/ ReadVersion(r) \/ Serve(r) \/ Crash(r)
  PROVE  SchemaKept'
<1>1. mgDB' = mgDB
  BY DEF Begin, CreateTable, Lock, ReadVersion, Serve, Crash
<1>2. SchemaGrown' /\ RowsJudged'
  BY <1>1 DEF SchemaKept, SchemaGrown, RowsJudged
<1>3. MGTypeOK'
  <2> DEFINE V == 0 .. Len(migrations)
             G == [at : MGPlaces, current : V]
  <2>1. mgRun \in [MGRunners -> G] /\ mgDB.version \in V /\ 0 \in V
    BY InOrder DEF SchemaKept, MGTypeOK
  <2> HIDE DEF V
  <2>2. mgRun' \in [MGRunners -> G]
    <3>1. CASE Begin(r) \/ CreateTable(r)
      <4>1. PICK at \in {"lock", "looked", "refused"} : mgRun' = [mgRun EXCEPT ![r].at = at]
        BY <3>1 DEF Begin, CreateTable, Reaches
      <4>q. QED BY <2>1, <4>1 DEF MGPlaces
    <3>2. CASE Lock(r) \/ ReadVersion(r) \/ Serve(r) \/ Crash(r)
      BY <2>1, <3>2 DEF Lock, ReadVersion, Serve, Crash, Reaches, MGPlaces
    <3>q. QED BY <3>1, <3>2
  <2>3. mgTable' \in BOOLEAN /\ mgLock' \in MGRunners \cup {"free"} /\ mgLeft' \in 0 .. MGCrashes
    <3>1. /\ mgTable \in BOOLEAN /\ mgLock \in MGRunners \cup {"free"} /\ mgLeft \in 0 .. MGCrashes
          /\ MGCrashes \in Nat
      BY MGAssumption DEF SchemaKept, MGTypeOK, MGAssumption
    <3>2. CASE Begin(r) \/ CreateTable(r) \/ ReadVersion(r)
      BY <3>1, <3>2 DEF Begin, CreateTable, ReadVersion
    <3>3. CASE Lock(r) \/ Serve(r) \/ Crash(r)
      BY <3>1, <3>3 DEF Lock, Serve, Crash
    <3>q. QED BY <3>2, <3>3
  <2>4. mgRun' \in [MGRunners -> [at : MGPlaces, current : 0 .. Len(migrations)]]
    BY <2>2 DEF V
  <2>5. MGTypeOK
    BY DEF SchemaKept
  <2> HIDE DEF G
  <2>q. QED BY <1>1, <2>3, <2>4, <2>5 DEF MGTypeOK
<1>4. OneUpgrades'
  <2> SUFFICES ASSUME NEW q \in MGRunners
               PROVE  /\ mgRun'[q].at # "failed"
                      /\ mgRun'[q].at \in {"read", "apply"} => mgLock' = q
                      /\ mgRun'[q].at = "apply" => mgRun'[q].current = mgDB.version
                      /\ mgRun'[q].at = "serves" => mgDB.version = Len(migrations)
    BY <1>1 DEF OneUpgrades
  <2>1. /\ mgRun[q].at # "failed"
        /\ mgRun[q].at \in {"read", "apply"} => mgLock = q
        /\ mgRun[q].at = "apply" => mgRun[q].current = mgDB.version
        /\ mgRun[q].at = "serves" => mgDB.version = Len(migrations)
        /\ mgRun[r].at \in {"read", "apply"} => mgLock = r
        /\ mgRun[r].at = "apply" => mgRun[r].current = mgDB.version
    BY DEF SchemaKept, OneUpgrades
  <2> DEFINE G == [at : MGPlaces, current : 0 .. Len(migrations)]
  <2>2. mgRun \in [MGRunners -> G] /\ q # "free" /\ r # "free"
    BY MGAssumption DEF SchemaKept, MGTypeOK, MGAssumption
  <2>3. CASE Begin(r)
    BY <2>1, <2>2, <2>3 DEF Begin, Reaches
  <2>4. CASE Lock(r)
    BY <2>1, <2>2, <2>4 DEF Lock, Reaches
  <2>5. CASE ReadVersion(r)
    BY <2>1, <2>2, <2>5 DEF ReadVersion
  <2>6. CASE Serve(r)
    BY <2>1, <2>2, <2>6 DEF Serve, Reaches
  <2>7. CASE Crash(r)
    BY <2>1, <2>2, <2>7 DEF Crash
  <2>8. CASE CreateTable(r)
    BY <2>1, <2>2, <2>8 DEF CreateTable, Reaches
  <2>q. QED BY <2>3, <2>4, <2>5, <2>6, <2>7, <2>8
<1>5. OneCreates'
  <2>1. /\ mgRun \in [MGRunners -> [at : MGPlaces, current : 0 .. Len(migrations)]] /\ mgTable \in BOOLEAN
        /\ mgTable => \E q \in MGRunners : mgRun[q].at \notin {"looked", "refused"}
        /\ ~mgTable => \A q \in MGRunners : mgRun[q].at # "refused"
    BY DEF SchemaKept, OneCreates, MGTypeOK
  <2>2. CASE mgTable
    <3>1. PICK q \in MGRunners : mgRun[q].at \notin {"looked", "refused"}
      BY <2>1, <2>2
    <3>2. CASE Begin(r)
      <4>1. mgTable' /\ mgRun' = [mgRun EXCEPT ![r].at = "lock"]
        BY <2>2, <3>2 DEF Begin, Reaches
      <4>q. QED BY <2>1, <3>1, <4>1 DEF OneCreates
    <3>3. CASE CreateTable(r)
      <4>1. mgTable' /\ mgRun' = [mgRun EXCEPT ![r].at = "refused"] /\ q # r
        BY <2>2, <3>1, <3>3 DEF CreateTable, Reaches
      <4>q. QED BY <2>1, <3>1, <4>1 DEF OneCreates
    <3>4. CASE Lock(r) \/ ReadVersion(r) \/ Serve(r) \/ Crash(r)
      <4>1. CASE Lock(r) \/ Serve(r)
        BY <2>1, <2>2, <3>1, <4>1 DEF Lock, Serve, Reaches, OneCreates
      <4>2. CASE ReadVersion(r) \/ Crash(r)
        <5>1. CASE ReadVersion(r)
          <6>1. mgTable' /\ mgRun' = [mgRun EXCEPT ![r] = [at |-> "apply", current |-> mgDB.version]]
            BY <2>2, <5>1 DEF ReadVersion
          <6>q. QED BY <2>1, <3>1, <6>1 DEF OneCreates
        <5>2. CASE Crash(r)
          <6>1. mgTable' /\ mgRun' = [mgRun EXCEPT ![r] = [at |-> "off", current |-> 0]]
            BY <2>2, <5>2 DEF Crash
          <6>q. QED BY <2>1, <3>1, <6>1 DEF OneCreates
        <5>q. QED BY <4>2, <5>1, <5>2
      <4>q. QED BY <3>4, <4>1, <4>2
    <3>q. QED BY <3>2, <3>3, <3>4
  <2>3. CASE ~mgTable
    <3>1. CASE CreateTable(r)
      <4>1. mgTable' /\ mgRun'[r].at = "lock"
        BY <2>1, <2>3, <3>1 DEF CreateTable, Reaches
      <4>q. QED BY <4>1 DEF OneCreates
    <3>2. CASE Begin(r)
      <4>1. ~mgTable' /\ mgRun' = [mgRun EXCEPT ![r].at = "looked"]
        BY <2>3, <3>2 DEF Begin, Reaches
      <4>q. QED BY <2>1, <2>3, <4>1 DEF OneCreates
    <3>3. CASE Lock(r) \/ ReadVersion(r) \/ Serve(r) \/ Crash(r)
      <4>1. ~mgTable' /\ \A q \in MGRunners : mgRun'[q].at # "refused"
        BY <2>1, <2>3, <3>3 DEF Lock, ReadVersion, Serve, Crash, Reaches
      <4>q. QED BY <4>1 DEF OneCreates
    <3>q. QED BY <3>1, <3>2, <3>3
  <2>q. QED BY <2>2, <2>3
<1>q. QED BY <1>2, <1>3, <1>4, <1>5 DEF SchemaKept

\* The inductive invariant of the upgrades: the schema and the rows are what
\* the version says, one instance upgrades, the one that has the lock, and whoever
\* created schema_version is not refused it (store/migrate.go RunMigrations).
THEOREM UpgradeInvariance == MGSpec => []SchemaKept
<1>1. MGInit => SchemaKept
  <2> SUFFICES ASSUME MGInit  PROVE SchemaKept
    OBVIOUS
  <2>1. PICK v \in 0 .. 39, enrolled \in BOOLEAN :
           mgDB = [version |-> v, objects |-> ObjectsAt(v), sources |-> SourcesAt(v), audio |-> AudioAt(v),
                   rows |-> [done |-> FALSE, icon |-> IF v >= 7 THEN "local" ELSE "none", media |-> Kept(v),
                             secret |-> v >= 4 /\ enrolled, confirmed |-> v >= 32 /\ enrolled]]
    BY MGAssumption, InOrder DEF MGInit, MGAssumption, Lived
  <2>2. /\ mgDB.version = v /\ mgDB.objects = ObjectsAt(v) /\ mgDB.sources = SourcesAt(v)
        /\ mgDB.audio = AudioAt(v) /\ mgDB.rows.media = Kept(v)
        /\ mgDB.rows.secret = (v >= 4 /\ enrolled) /\ mgDB.rows.confirmed = (v >= 32 /\ enrolled)
    BY <2>1
  <2>3. SchemaGrown /\ RowsJudged
    BY <2>2, KeptTyped DEF SchemaGrown, RowsJudged, Judged
  <2>4. mgDB.rows \in Stored
    <3> DEFINE icon == IF v >= 7 THEN "local" ELSE "none"
               secret == v >= 4 /\ enrolled
               confirmed == v >= 32 /\ enrolled
    <3>1. icon \in {"none", "local", "expired"} /\ secret \in BOOLEAN /\ confirmed \in BOOLEAN
      OBVIOUS
    <3>2. mgDB.rows = [done |-> FALSE, icon |-> icon, media |-> Kept(v), secret |-> secret, confirmed |-> confirmed]
      BY <2>1
    <3> HIDE DEF icon, secret, confirmed
    <3>q. QED BY <3>1, <3>2, KeptTyped DEF Stored
  <2>5. mgDB \in [version : 0 .. 39,
                  objects : SUBSET UNION {migrations[i].add : i \in 1 .. 39},
                  sources : SUBSET UNION {migrations[i].sources : i \in 1 .. 39},
                  audio : SUBSET UNION {migrations[i].audio : i \in 1 .. 39}, rows : Stored]
    <3> DEFINE A == SUBSET UNION {migrations[i].add : i \in 1 .. 39}
               B == SUBSET UNION {migrations[i].sources : i \in 1 .. 39}
               C == SUBSET UNION {migrations[i].audio : i \in 1 .. 39}
    <3>1. ObjectsAt(v) \in A /\ SourcesAt(v) \in B /\ AudioAt(v) \in C
      BY SchemaTyped
    <3>2. mgDB = [version |-> v, objects |-> ObjectsAt(v), sources |-> SourcesAt(v), audio |-> AudioAt(v),
                  rows |-> mgDB.rows]
      BY <2>1
    <3> DEFINE V == 0 .. 39
    <3>3. v \in V
      OBVIOUS
    <3> HIDE DEF A, B, C, V
    <3>4. mgDB \in [version : V, objects : A, sources : B, audio : C, rows : Stored]
      BY <3>1, <3>2, <3>3, <2>4
    <3>q. QED BY <3>4 DEF A, B, C, V
  <2>6. MGTypeOK
    <3>1. mgRun \in [MGRunners -> [at : MGPlaces,
                                   current : 0 .. Len(migrations)]]
      BY InOrder DEF MGInit, MGPlaces
    <3>2. mgTable \in BOOLEAN
      BY DEF MGInit
    <3>3. mgLock \in MGRunners \cup {"free"} /\ mgLeft \in 0 .. MGCrashes
      BY MGAssumption DEF MGInit, MGAssumption
    <3>q. QED BY <3>1, <3>2, <3>3, <2>5, InOrder DEF MGTypeOK, Stored
  <2>7. OneUpgrades
    BY DEF MGInit, OneUpgrades
  <2>8. OneCreates
    BY MGAssumption DEF MGInit, MGAssumption, OneCreates
  <2>q. QED BY <2>3, <2>6, <2>7, <2>8 DEF SchemaKept
<1>2. SchemaKept /\ [MGNext]_mgVars => SchemaKept'
  <2> SUFFICES ASSUME SchemaKept, [MGNext]_mgVars  PROVE SchemaKept'
    OBVIOUS
  <2>1. CASE MGNext
    BY <2>1, ApplyStep, OtherStep DEF MGNext
  <2>2. CASE UNCHANGED mgVars
    BY <2>2 DEF mgVars, SchemaKept, MGTypeOK, SchemaGrown, RowsJudged, OneUpgrades, OneCreates
  <2>q. QED BY <2>1, <2>2
<1>q. QED
  BY <1>1, <1>2, PTL DEF MGSpec

\* No upgrade fails on what it finds, not every start is refused the table of
\* versions, and an instance that serves has what its stores name, for every
\* number of instances and stops and every version a database may be at
\* (store/migrate.go RunMigrations).
THEOREM InstancesServeUpright == MGSpec => []ServesUpright
<1>1. ASSUME SchemaKept  PROVE \E r \in MGRunners : mgRun[r].at # "refused"
  BY <1>1, MGAssumption DEF SchemaKept, OneCreates, MGAssumption
<1>2. SchemaKept => ServesUpright
  <2> SUFFICES ASSUME SchemaKept, NEW r \in MGRunners
               PROVE  /\ mgRun[r].at # "failed"
                      /\ mgRun[r].at = "serves" =>
                           /\ mgDB.version = Len(migrations)
                           /\ Needed \subseteq mgDB.objects /\ Written \subseteq mgDB.sources
                           /\ AudioStates \subseteq mgDB.audio
                           /\ \A m \in mgDB.rows.media : m.resident <=> m.score >= 0
                           /\ mgDB.rows.secret => mgDB.rows.confirmed
    BY <1>1 DEF ServesUpright
  <2>1. mgRun[r].at # "failed" /\ (mgRun[r].at = "serves" => mgDB.version = 39) /\ Len(migrations) = 39
    BY InOrder DEF SchemaKept, OneUpgrades
  <2>2. Written \subseteq SourcesAt(39)
    <3>1. Written \subseteq migrations[35].sources
      BY SaidLast DEF Written, Natural, Listed, FirstSources
    <3>2. \A j \in 35 + 1 .. 39 : migrations[j].sources = {}
      BY SaidLast
    <3>3. 35 \in {k \in 1 .. 39 : \A j \in k + 1 .. 39 : migrations[j].sources = {}}
      BY <3>2
    <3>q. QED BY <3>1, <3>3 DEF SourcesAt
  <2>3. AudioStates \subseteq AudioAt(39)
    <3>1. \A j \in 19 + 1 .. 39 : migrations[j].audio = {}
      BY SaidLast
    <3>2. 19 \in {k \in 1 .. 39 : \A j \in k + 1 .. 39 : migrations[j].audio = {}}
      BY <3>1
    <3>q. QED BY <3>2, SaidLast DEF AudioAt
  <2>q. QED
    BY <2>1, <2>2, <2>3, NeededMade DEF SchemaKept, SchemaGrown, RowsJudged
<1>q. QED
  BY <1>2, UpgradeInvariance, PTL

=============================================================================
