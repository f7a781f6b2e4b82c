-------------------------- MODULE ComponentProofs ---------------------------
(***************************************************************************)
(* Proofs about components that move alone in the composites MCServices    *)
(* and MCPages: whatever the others do, a component whose own next-state   *)
(* relation holds of each of its steps has the invariants proved here.     *)
(* Each section has the lemmas about one component's operators and         *)
(* actions, the theorem of its inductive invariant, and the theorems that  *)
(* follow: the properties the runs check, for every value of its           *)
(* constants.                                                              *)
(***************************************************************************)
EXTENDS UnlockGate, AudioMux, Unfurl, Settings, PostMedia, SettingsForm, SequenceTheorems,
        FiniteSetTheorems, WellFoundedInduction, TLAPS

-----------------------------------------------------------------------------
(* UnlockGate: the codes that open the settings.                           *)

\* A browser that keeps its code, or has none, disturbs nothing.
LEMMA TabKeepsCode ==
  ASSUME CodesMarked, NEW t \in UGTabs, NEW r \in TabType, Sets(t, r), UNCHANGED codes,
         r.code = T(t).code, r.code # None => r.at \in Spending
  PROVE  CodesMarked'
<1>1. ugTab' \in [UGTabs -> TabType]
  BY DEF CodesMarked, Sets
<1>2. /\ T(t)' = r
      /\ \A u \in UGTabs : T(u)'.code = T(u).code /\ (u # t => T(u)' = T(u))
  BY DEF CodesMarked, Sets, T
<1>q. QED
  BY <1>1, <1>2 DEF CodesMarked, codes

\* So do many browsers at once.
LEMMA TabsKeepCodes ==
  ASSUME CodesMarked, ugTab' \in [UGTabs -> TabType], UNCHANGED codes,
         \A t \in UGTabs : T(t)'.code = T(t).code /\ T(t)'.at = T(t).at
  PROVE  CodesMarked'
  BY DEF CodesMarked, codes

\* No code is marked, or has opened the gate, before the first request.
LEMMA NothingSpent ==
  /\ NoCodes \in [Typed -> 0 .. 2 * UGSkew + 1] /\ NoCodes \in [Typed -> 0 .. 2]
  /\ \A d \in Typed : NoCodes[d] = 0
  BY UGAssumption DEF NoCodes

\* A code that is not marked has opened nothing and is in no browser: marked
\* now, for as long as it is accepted, it may open the gate for one.
LEMMA ConsumeStep ==
  ASSUME CodesMarked, NEW t \in UGTabs, NEW d \in Typed, NEW r \in TabType, Sets(t, r),
         ~Replay(d), Consume(d), UNCHANGED ugMinted, T(t).code = None,
         r.code = None \/ (r.code = d /\ r.at \in Spending)
  PROVE  CodesMarked'
<1> USE UGAssumption
<1>1. ugTab' \in [UGTabs -> TabType]
  BY DEF CodesMarked, Sets
<1>2. T(t)' = r /\ \A u \in UGTabs : u # t => T(u)' = T(u)
  BY DEF CodesMarked, Sets, T
<1>3. /\ ugUsed' \in [Typed -> 0 .. 2 * UGSkew + 1] /\ ugUsed'[d] = 2 * UGSkew + 1
      /\ \A e \in Typed : e # d => ugUsed'[e] = ugUsed[e]
  BY DEF CodesMarked, Consume
<1>0. d.win \in Int /\ -UGSkew <= d.win /\ d.win <= UGSkew
  BY DEF Skews, Typed
<1>4. d.win + UGSkew + 1 > 0 /\ d.win + UGSkew + 1 <= 2 * UGSkew + 1 /\ ugUsed[d] \in Int /\ ugMinted[d] \in Int
  BY <1>0 DEF CodesMarked
<1>5. ugUsed[d] <= 0
  BY <1>4 DEF Replay
<1>6. ~(ugMinted[d] > 0) /\ \A u \in UGTabs : T(u).code # d
  <2>1. (ugMinted[d] > 0 \/ \E u \in UGTabs : T(u).code = d) => ugUsed[d] >= d.win + UGSkew + 1
    BY DEF CodesMarked
  <2>2. ~(ugUsed[d] >= d.win + UGSkew + 1)
    <3> DEFINE w == d.win   used == ugUsed[d]
    <3>1. w \in Int /\ used \in Int /\ w + UGSkew + 1 > 0 /\ used <= 0
      BY <1>0, <1>4, <1>5
    <3> HIDE DEF w, used
    <3>2. ~(used >= w + UGSkew + 1)
      BY <3>1
    <3>q. QED
      BY <3>2 DEF w, used
  <2>q. QED
    BY <2>1, <2>2
<1>7. \A u \in UGTabs : T(u)'.code # None => T(u)'.at \in Spending
  BY <1>2 DEF CodesMarked
<1>8. \A u, v \in UGTabs : T(u)'.code # None /\ T(v)'.code = T(u)'.code => u = v
  BY <1>2, <1>6 DEF CodesMarked
<1>9. ASSUME NEW e \in Typed
      PROVE  /\ ugMinted'[e] <= 1
             /\ ugMinted'[e] > 0 => \A u \in UGTabs : T(u)'.code # e
             /\ (ugMinted'[e] > 0 \/ \E u \in UGTabs : T(u)'.code = e)
                  => ugUsed'[e] >= e.win + UGSkew + 1
  <2>1. CASE e = d
    BY <1>3, <1>4, <1>6, <2>1 DEF CodesMarked
  <2>2. CASE e # d
    <3>1. None # e
      OBVIOUS
    <3>2. \A u \in UGTabs : T(u)'.code = e => T(u).code = e
      BY <1>2, <2>2, <3>1
    <3>q. QED
      BY <1>3, <2>2, <3>2 DEF CodesMarked
  <2>q. QED
    BY <2>1, <2>2
<1>q. QED
  BY <1>1, <1>3, <1>7, <1>8, <1>9 DEF CodesMarked

\* The credential of a code: it is the first one, and the code leaves the browser.
LEMMA MintStep ==
  ASSUME CodesMarked, NEW t \in UGTabs, NEW r \in TabType, Sets(t, r), Minted(t),
         UNCHANGED ugUsed, r.code = None
  PROVE  CodesMarked'
<1> USE UGAssumption
<1>1. ugTab' \in [UGTabs -> TabType]
  BY DEF CodesMarked, Sets
<1>2. T(t)' = r /\ \A u \in UGTabs : u # t => T(u)' = T(u)
  BY DEF CodesMarked, Sets, T
<1>3. T(t).code \in Typed \cup {None}
  BY DEF CodesMarked, T, TabType
<1>4. CASE T(t).code = None
  <2>1. UNCHANGED codes
    BY <1>4 DEF Minted, codes
  <2>q. QED
    BY <1>4, <2>1, TabKeepsCode
<1>5. CASE T(t).code # None
  <2> DEFINE d == T(t).code
  <2>1. d \in Typed /\ ~(ugMinted[d] > 0)
    BY <1>3, <1>5 DEF CodesMarked
  <2>2. ugMinted' = [ugMinted EXCEPT ![d] = IF ugMinted[d] < 2 THEN ugMinted[d] + 1 ELSE ugMinted[d]]
    BY <1>5 DEF Minted
  <2>3. ugMinted[d] = 0
    BY <2>1 DEF CodesMarked
  <2>4. ugMinted' = [ugMinted EXCEPT ![d] = 1]
    BY <2>2, <2>3
  <2>5. /\ ugMinted' \in [Typed -> 0 .. 2] /\ ugMinted'[d] = 1
        /\ \A e \in Typed : e # d => ugMinted'[e] = ugMinted[e]
    BY <2>1, <2>4 DEF CodesMarked
  <2>6. \A u \in UGTabs : u # t => T(u).code # d
    BY <1>5 DEF CodesMarked
  <2>7. ugUsed[d] >= d.win + UGSkew + 1
    BY <2>1 DEF CodesMarked
  <2>8. \A u \in UGTabs : T(u)'.code # None => T(u)'.at \in Spending
    BY <1>2 DEF CodesMarked
  <2>9. \A u, v \in UGTabs : T(u)'.code # None /\ T(v)'.code = T(u)'.code => u = v
    BY <1>2 DEF CodesMarked
  <2> HIDE DEF d
  <2>10. ASSUME NEW e \in Typed
        PROVE  /\ ugMinted'[e] <= 1
               /\ ugMinted'[e] > 0 => \A u \in UGTabs : T(u)'.code # e
               /\ (ugMinted'[e] > 0 \/ \E u \in UGTabs : T(u)'.code = e)
                    => ugUsed'[e] >= e.win + UGSkew + 1
    <3>0. None # e
      OBVIOUS
    <3>1. CASE e = d
      BY <1>2, <2>5, <2>6, <2>7, <3>0, <3>1
    <3>2. CASE e # d
      <4>1. \A u \in UGTabs : T(u)'.code = e => T(u).code = e
        BY <1>2, <3>0
      <4>q. QED
        BY <2>5, <3>2, <4>1 DEF CodesMarked
    <3>q. QED
      BY <3>1, <3>2
  <2>q. QED
    BY <1>1, <2>5, <2>8, <2>9, <2>10 DEF CodesMarked
<1>q. QED
  BY <1>4, <1>5

\* Without a code in a browser nor a credential of one, every mark may go.
LEMMA ForgetStep ==
  ASSUME ugTab' \in [UGTabs -> TabType], \A t \in UGTabs : T(t)'.code = None,
         ugUsed' = NoCodes, ugMinted' = NoCodes
  PROVE  CodesMarked'
<1>1. \A d \in Typed : None # d
  BY UGAssumption
<1>q. QED
  BY <1>1, NothingSpent DEF CodesMarked

\* The code of the window after, and of the window before.
LEMMA Neighbours ==
  ASSUME NEW c \in Typed
  PROVE  /\ c.win # UGSkew => Newer(c) \in Typed /\ Newer(c).win = c.win + 1
         /\ c.win # -UGSkew => Older(c) \in Typed /\ Older(c).win = c.win - 1
                               /\ Older(c).win # UGSkew /\ Newer(Older(c)) = c
         /\ c.win \in Int /\ -UGSkew <= c.win /\ c.win <= UGSkew
<1> USE UGAssumption
<1>1. /\ c.win \in Int /\ -UGSkew <= c.win /\ c.win <= UGSkew /\ c.pad \in UGPads
      /\ c = [win |-> c.win, pad |-> c.pad]
  BY DEF Typed, Skews
<1>2. /\ Newer(c) = [win |-> c.win + 1, pad |-> c.pad]
      /\ Older(c) = [win |-> c.win - 1, pad |-> c.pad]
  BY DEF Typed, Newer, Older
<1>3. Newer(Older(c)) = [win |-> (c.win - 1) + 1, pad |-> c.pad]
  BY <1>2 DEF Newer
<1>4. (c.win - 1) + 1 = c.win
  BY <1>1
<1>5. Newer(Older(c)) = c
  BY <1>1, <1>3, <1>4
<1>q. QED
  BY <1>1, <1>2, <1>5 DEF Typed, Skews

\* The next window: what was accepted for n windows more is so for n - 1.
LEMMA TickStep ==
  ASSUME CodesMarked, Tick
  PROVE  CodesMarked'
<1> USE UGAssumption
<1> DEFINE used(c) == IF c.win = UGSkew \/ ugUsed[Newer(c)] = 0 THEN 0 ELSE ugUsed[Newer(c)] - 1
           minted(c) == IF c.win = UGSkew THEN 0 ELSE ugMinted[Newer(c)]
           code(t) == IF T(t).code.win = -UGSkew THEN None ELSE Older(T(t).code)
<1>1. /\ ugUsed' = [c \in Typed |-> used(c)] /\ ugMinted' = [c \in Typed |-> minted(c)]
      /\ ugTab' = [t \in UGTabs |-> IF T(t).code = None THEN T(t)
                                    ELSE [T(t) EXCEPT !.code = code(t)]]
  BY DEF Tick
<1>2. ugUsed \in [Typed -> 0 .. 2 * UGSkew + 1] /\ ugMinted \in [Typed -> 0 .. 2]
  BY DEF CodesMarked
<1>3. \A t \in UGTabs : T(t) \in TabType /\ T(t).code \in Typed \cup {None}
  BY DEF CodesMarked, T, TabType
<1>4. \A t \in UGTabs : T(t).code # None =>
        /\ code(t) \in Typed \cup {None}
        /\ code(t) # None => code(t).win # UGSkew /\ Newer(code(t)) = T(t).code
  BY <1>3, Neighbours
<1>5. ugUsed' \in [Typed -> 0 .. 2 * UGSkew + 1] /\ ugMinted' \in [Typed -> 0 .. 2]
  <2>1. \A c \in Typed : used(c) \in 0 .. 2 * UGSkew + 1 /\ minted(c) \in 0 .. 2
    <3> SUFFICES ASSUME NEW c \in Typed
                 PROVE  used(c) \in 0 .. 2 * UGSkew + 1 /\ minted(c) \in 0 .. 2
      OBVIOUS
    <3>1. CASE c.win = UGSkew
      BY <3>1
    <3>2. CASE c.win # UGSkew
      <4>1. ugUsed[Newer(c)] \in 0 .. 2 * UGSkew + 1 /\ ugMinted[Newer(c)] \in 0 .. 2
        BY <1>2, <3>2, Neighbours
      <4>q. QED
        BY <3>2, <4>1
    <3>q. QED
      BY <3>1, <3>2
  <2> HIDE DEF used, minted
  <2>q. QED
    BY <1>1, <2>1
<1> HIDE DEF code
<1>6. ASSUME NEW t \in UGTabs
      PROVE  /\ T(t)' \in TabType /\ T(t)'.at = T(t).at
             /\ T(t)'.code # None => /\ T(t).code # None /\ T(t)'.code.win # UGSkew
                                     /\ Newer(T(t)'.code) = T(t).code
  <2>1. CASE T(t).code = None
    BY <1>1, <1>3, <2>1 DEF T
  <2>2. CASE T(t).code # None
    <3>1. T(t)' = [T(t) EXCEPT !.code = code(t)]
      BY <1>1, <2>2 DEF T
    <3>2. T(t) \in TabType /\ code(t) \in Typed \cup {None}
      BY <1>3, <1>4, <2>2
    <3>3. T(t)' \in TabType /\ T(t)'.at = T(t).at /\ T(t)'.code = code(t)
      BY <3>1, <3>2 DEF TabType
    <3>q. QED
      BY <1>4, <2>2, <3>3
  <2>q. QED
    BY <2>1, <2>2
<1>7. ugTab' \in [UGTabs -> TabType]
  BY <1>1, <1>6 DEF T
<1>8. \A t \in UGTabs : T(t)'.code # None => T(t)'.at \in Spending
  BY <1>6 DEF CodesMarked
<1>9. \A t, u \in UGTabs : T(t)'.code # None /\ T(u)'.code = T(t)'.code => t = u
  <2> SUFFICES ASSUME NEW t \in UGTabs, NEW u \in UGTabs, T(t)'.code # None, T(u)'.code = T(t)'.code
               PROVE  t = u
    OBVIOUS
  <2>1. T(t).code = T(u).code /\ T(t).code # None
    BY <1>6
  <2>q. QED
    BY <2>1 DEF CodesMarked
<1>10. ASSUME NEW c \in Typed
       PROVE  /\ ugMinted'[c] <= 1
              /\ ugMinted'[c] > 0 => \A t \in UGTabs : T(t)'.code # c
              /\ (ugMinted'[c] > 0 \/ \E t \in UGTabs : T(t)'.code = c)
                   => ugUsed'[c] >= c.win + UGSkew + 1
  <2>0. ugUsed'[c] = used(c) /\ ugMinted'[c] = minted(c) /\ None # c
    BY <1>1
  <2>1. \A t \in UGTabs : T(t)'.code = c => c.win # UGSkew /\ T(t).code = Newer(c)
    BY <1>6, <2>0
  <2>2. CASE c.win = UGSkew
    BY <2>0, <2>1, <2>2
  <2>3. CASE c.win # UGSkew
    <3> DEFINE n == Newer(c)
    <3>1. /\ n \in Typed /\ n.win = c.win + 1 /\ c.win \in Int /\ -UGSkew <= c.win
      BY <2>3, Neighbours
    <3>2. /\ ugMinted'[c] = ugMinted[n]
          /\ ugUsed'[c] = IF ugUsed[n] = 0 THEN 0 ELSE ugUsed[n] - 1
      BY <2>0, <2>3
    <3>3. \A t \in UGTabs : T(t)'.code = c => T(t).code = n
      BY <2>1
    <3> HIDE DEF n
    <3>4. /\ ugMinted[n] <= 1 /\ ugUsed[n] \in Nat
          /\ ugMinted[n] > 0 => \A t \in UGTabs : T(t).code # n
          /\ (ugMinted[n] > 0 \/ \E t \in UGTabs : T(t).code = n) => ugUsed[n] >= n.win + UGSkew + 1
      BY <3>1, <1>2 DEF CodesMarked
    <3>5. ugUsed[n] >= n.win + UGSkew + 1 => ugUsed'[c] >= c.win + UGSkew + 1
      BY <3>1, <3>2, <3>4
    <3>q. QED
      BY <3>2, <3>3, <3>4, <3>5
  <2>q. QED
    BY <2>2, <2>3
<1>q. QED
  BY <1>5, <1>7, <1>8, <1>9, <1>10 DEF CodesMarked

\* Every request, stop and lapse of time keeps the marks over the codes.
LEMMA UnlockStep ==
  ASSUME CodesMarked, [UGNext]_ugVars
  PROVE  CodesMarked'
<1> USE UGAssumption
<1> DEFINE Quiet(t, r) == /\ r \in TabType /\ r.code = T(t).code
                          /\ r.code # None => r.at \in Spending
<1>0. ASSUME NEW t \in UGTabs
      PROVE  /\ T(t) \in TabType /\ (T(t).code # None => T(t).at \in Spending)
             /\ T(t).addr \in UGAddrs /\ T(t).code \in Typed \cup {None}
             /\ T(t).at \notin Spending => T(t).code = None
  BY DEF CodesMarked, T, TabType
<1>1. ASSUME NEW t \in UGTabs, Get(t) PROVE CodesMarked'
  <2>1. T(t) \in TabType /\ T(t).at = "idle" /\ T(t).code = None
    BY <1>0, <1>1 DEF Get, Spending
  <2>2. \A form \in Forms : Quiet(t, [T(t) EXCEPT !.form = form, !.in = FALSE])
    BY <2>1 DEF TabType
  <2>3. Quiet(t, [T(t) EXCEPT !.in = TRUE, !.form = None])
    BY <2>1 DEF TabType, Forms
  <2>4. ASSUME Gate(t) PROVE CodesMarked'
    <3> SUFFICES ASSUME NEW stage \in {RealStage} \cup {s \in {"secret"} : ugLeft.faults > 0},
                        NEW form,
                        form = IF Locked(T(t).addr) THEN None ELSE Page(CurrentStage(t, stage)),
                        Sets(t, [T(t) EXCEPT !.form = form, !.in = FALSE])
                 PROVE  CodesMarked'
      BY <2>4 DEF Gate
    <3>1. form \in Forms
      BY DEF Page, CurrentStage, RealStage, Forms
    <3>2. UNCHANGED codes
      BY <2>4 DEF Gate
    <3>q. QED
      BY <2>2, <3>1, <3>2, TabKeepsCode
  <2>5. ASSUME Sets(t, [T(t) EXCEPT !.in = TRUE, !.form = None]), UNCHANGED codes PROVE CodesMarked'
    BY <2>3, <2>5, TabKeepsCode
  <2>q. QED
    BY <1>1, <2>4, <2>5 DEF Get
<1>2. ASSUME NEW t \in UGTabs, Ack(t) \/ Moves(t) \/ AckLapses(t) \/ SessionEnds(t) PROVE CodesMarked'
  <2>1. UNCHANGED codes /\ T(t) \in TabType
    BY <1>0, <1>2 DEF Ack, Moves, AckLapses, SessionEnds
  <2>2. CASE Ack(t)
    <3>1. T(t).code = None
      BY <1>0, <2>2 DEF Ack, Posts, Spending
    <3>2. Quiet(t, [T(t) EXCEPT !.ack = TRUE, !.form = None])
      BY <2>1, <3>1 DEF TabType, Forms
    <3>q. QED
      BY <2>1, <2>2, <3>2, TabKeepsCode DEF Ack
  <2>3. CASE Moves(t)
    <3>1. T(t).code = None
      BY <1>0, <2>3 DEF Moves, Spending
    <3>2. \A a \in UGAddrs : Quiet(t, [T(t) EXCEPT !.addr = a, !.in = FALSE])
      BY <2>1, <3>1 DEF TabType
    <3>q. QED
      BY <2>1, <2>3, <3>2, TabKeepsCode DEF Moves
  <2>4. CASE AckLapses(t)
    <3>1. Quiet(t, [T(t) EXCEPT !.ack = FALSE])
      BY <1>0, <2>1 DEF TabType
    <3>q. QED
      BY <2>1, <2>4, <3>1, TabKeepsCode DEF AckLapses
  <2>5. CASE SessionEnds(t)
    <3>1. T(t).code = None
      BY <1>0, <2>5 DEF SessionEnds, Spending
    <3>2. Quiet(t, [T(t) EXCEPT !.in = FALSE, !.session = None])
      BY <2>1, <3>1 DEF TabType
    <3>q. QED
      BY <2>1, <2>5, <3>2, TabKeepsCode DEF SessionEnds
  <2>q. QED
    BY <1>2, <2>2, <2>3, <2>4, <2>5
<1>3. ASSUME NEW t \in UGTabs, ServerSecret(t) PROVE CodesMarked'
  <2>1. T(t) \in TabType /\ T(t).at = "idle" /\ T(t).code = None
    BY <1>0, <1>3 DEF ServerSecret, Posts, Spending
  <2>2. \A form \in Forms : Quiet(t, [T(t) EXCEPT !.form = form])
    BY <2>1 DEF TabType
  <2>3. \A b \in BOOLEAN : Quiet(t, [T(t) EXCEPT !.at = "unmark", !.rotates = b])
    BY <2>1 DEF TabType, Steps
  <2>4. ASSUME NEW form \in Forms, Next_(t, form), UNCHANGED codes PROVE CodesMarked'
    BY <2>2, <2>4, TabKeepsCode DEF Next_
  <2>5. CASE Sets(t, [T(t) EXCEPT !.at = "unmark", !.rotates = FALSE]) /\ UNCHANGED codes
    BY <2>3, <2>5, TabKeepsCode
  <2>6. ASSUME NEW d \in Typed, ~Replay(d), Consume(d), UNCHANGED ugMinted,
               Sets(t, [T(t) EXCEPT !.at = "unmark", !.rotates = TRUE])
        PROVE  CodesMarked'
    <3> DEFINE r == [T(t) EXCEPT !.at = "unmark", !.rotates = TRUE]
    <3>1. r \in TabType /\ r.code = None
      BY <2>1, <2>3
    <3> HIDE DEF r
    <3>2. Sets(t, r)
      BY <2>6 DEF r
    <3>q. QED
      BY <2>1, <2>6, <3>1, <3>2, ConsumeStep
  <2>7. None \in Forms /\ Page("secret") \in Forms /\ "rotate" \in Forms
    BY DEF Page, Forms
  <2>8. (IF Trips(T(t).addr) THEN None ELSE Page("secret")) \in Forms
    BY <2>7
  <2>q. QED
    BY <1>3, <2>4, <2>5, <2>6, <2>7, <2>8 DEF ServerSecret, Trimmed
<1>4. ASSUME NEW t \in UGTabs, Unmark(t) \/ RevokeAll(t) \/ ShowQR(t) \/ MarkConfirmed(t)
      PROVE  CodesMarked'
  <2>1. UNCHANGED codes /\ T(t) \in TabType
    BY <1>0, <1>4 DEF Unmark, RevokeAll, ShowQR, MarkConfirmed
  <2>2. CASE Unmark(t)
    <3>1. T(t).code = None
      BY <1>0, <2>2 DEF Unmark, Spending
    <3>2. /\ Quiet(t, [T(t) EXCEPT !.at = "write"])
          /\ Quiet(t, [T(t) EXCEPT !.at = "idle", !.form = None])
      BY <2>1, <3>1 DEF TabType, Forms, Steps
    <3>q. QED
      BY <2>1, <2>2, <3>2, TabKeepsCode DEF Unmark
  <2>3. CASE RevokeAll(t)
    <3>1. T(t).code = None
      BY <1>0, <2>3 DEF RevokeAll, Spending
    <3>2. Quiet(t, [T(t) EXCEPT !.at = "show"])
      BY <2>1, <3>1 DEF TabType, Steps
    <3>q. QED
      BY <2>1, <2>3, <3>2, TabKeepsCode DEF RevokeAll
  <2>4. CASE ShowQR(t)
    <3>1. T(t).code = None
      BY <1>0, <2>4 DEF ShowQR, Spending
    <3>2. /\ Quiet(t, [T(t) EXCEPT !.at = "idle", !.form = "enroll", !.mine = FALSE, !.rotates = FALSE])
          /\ Quiet(t, [T(t) EXCEPT !.at = "idle", !.form = None])
      BY <2>1, <3>1 DEF TabType, Forms, Steps
    <3>q. QED
      BY <2>1, <2>4, <3>2, TabKeepsCode DEF ShowQR
  <2>5. CASE MarkConfirmed(t)
    <3>1. Quiet(t, [T(t) EXCEPT !.at = "issue"])
      BY <2>1 DEF TabType, Steps, Spending
    <3>q. QED
      BY <2>1, <2>5, <3>1, TabKeepsCode DEF MarkConfirmed
  <2>q. QED
    BY <1>4, <2>2, <2>3, <2>4, <2>5
<1>5. ASSUME NEW t \in UGTabs, Write(t) PROVE CodesMarked'
  <2>1. T(t) \in TabType /\ T(t).at = "write" /\ T(t).code = None
    BY <1>0, <1>5 DEF Write, Spending
  <2>2. CASE /\ ugUsed' = NoCodes /\ ugMinted' = NoCodes
             /\ ugTab' = [x \in UGTabs |-> IF x = t THEN [T(t) EXCEPT !.at = "revoke", !.mine = TRUE]
                                           ELSE [ugTab[x] EXCEPT !.mine = FALSE, !.code = None]]
    <3> DEFINE r == [T(t) EXCEPT !.at = "revoke", !.mine = TRUE]
               other(x) == [ugTab[x] EXCEPT !.mine = FALSE, !.code = None]
    <3>1. r \in TabType /\ r.code = None
      BY <2>1 DEF TabType, Steps
    <3>2. ASSUME NEW x \in UGTabs PROVE other(x) \in TabType /\ other(x).code = None
      BY <1>0 DEF TabType, T
    <3>3. ugTab' = [x \in UGTabs |-> IF x = t THEN r ELSE other(x)]
      BY <2>2
    <3> HIDE DEF r, other
    <3>4. ugTab' \in [UGTabs -> TabType] /\ \A x \in UGTabs : ugTab'[x].code = None
      BY <3>1, <3>2, <3>3
    <3>q. QED
      BY <2>2, <3>4, ForgetStep DEF T
  <2>3. CASE Sets(t, [T(t) EXCEPT !.at = "idle", !.form = None]) /\ UNCHANGED codes
    <3>1. Quiet(t, [T(t) EXCEPT !.at = "idle", !.form = None])
      BY <2>1 DEF TabType, Forms, Steps
    <3>q. QED
      BY <2>3, <3>1, TabKeepsCode
  <2>q. QED
    BY <1>5, <2>2, <2>3 DEF Write
<1>6. ASSUME NEW t \in UGTabs, Code(t) PROVE CodesMarked'
  <2>1. T(t) \in TabType /\ T(t).at = "idle" /\ T(t).code = None /\ UNCHANGED ugMinted
    BY <1>0, <1>6 DEF Code, Posts, Spending
  <2>2. ASSUME NEW form \in Forms, Next_(t, form), UNCHANGED ugUsed PROVE CodesMarked'
    <3>1. Quiet(t, [T(t) EXCEPT !.form = form])
      BY <2>1 DEF TabType
    <3>q. QED
      BY <2>1, <2>2, <3>1, TabKeepsCode DEF Next_, codes
  <2>3. None \in Forms /\ (IF T(t).form = "totp" THEN "secret" ELSE None) \in Forms
    BY DEF Forms
  <2>4. ASSUME NEW d \in Typed, ~Replay(d), Consume(d),
               Sets(t, [T(t) EXCEPT !.at = IF T(t).form = "enroll" THEN "mark" ELSE "issue",
                                    !.code = d])
        PROVE  CodesMarked'
    <3> DEFINE at == IF T(t).form = "enroll" THEN "mark" ELSE "issue"
               r == [T(t) EXCEPT !.at = at, !.code = d]
    <3>1. at \in Spending /\ at \in Steps
      BY DEF Spending, Steps
    <3>2. Sets(t, r)
      BY <2>4
    <3> HIDE DEF at
    <3>3. r \in TabType /\ r.code = d /\ r.at \in Spending
      BY <2>1, <3>1 DEF TabType
    <3> HIDE DEF r
    <3>q. QED
      BY <2>1, <2>4, <3>2, <3>3, ConsumeStep
  <2>5. CASE UNCHANGED <<ugTab, ugUsed>>
    BY <2>1, <2>5 DEF CodesMarked, T
  <2>q. QED
    BY <1>6, <2>2, <2>3, <2>4, <2>5 DEF Code
<1>7. ASSUME NEW t \in UGTabs, Issue(t) \/ Create(t) PROVE CodesMarked'
  <2>1. T(t) \in TabType /\ T(t).at \in Spending /\ UNCHANGED ugUsed
    BY <1>0, <1>7 DEF Issue, Create, Spending
  <2>2. Session(t) \in TabType /\ Session(t).code = None
    BY <1>0, <2>1 DEF Session, TabType, Forms, Steps
  <2>3. ASSUME Sets(t, Session(t)), Minted(t) PROVE CodesMarked'
    BY <2>1, <2>2, <2>3, MintStep
  <2>4. ASSUME Sets(t, [T(t) EXCEPT !.at = "create"]), UNCHANGED ugMinted PROVE CodesMarked'
    <3>1. Quiet(t, [T(t) EXCEPT !.at = "create"])
      BY <2>1 DEF TabType, Steps, Spending
    <3>q. QED
      BY <2>1, <2>4, <3>1, TabKeepsCode DEF codes
  <2>5. ASSUME NEW k \in Tokens, Minted(t),
               Sets(t, [T(t) EXCEPT !.at = "idle", !.form = None, !.cookie = k, !.code = None])
        PROVE  CodesMarked'
    <3> DEFINE r == [T(t) EXCEPT !.at = "idle", !.form = None, !.cookie = k, !.code = None]
    <3>1. r \in TabType /\ r.code = None
      BY <2>1 DEF TabType, Forms, Steps
    <3>2. Sets(t, r)
      BY <2>5
    <3> HIDE DEF r
    <3>q. QED
      BY <2>1, <2>5, <3>1, <3>2, MintStep
  <2>6. Unheld # {} => (CHOOSE x \in Unheld : TRUE) \in Tokens
    BY DEF Unheld
  <2>q. QED
    BY <1>7, <2>3, <2>4, <2>5, <2>6 DEF Issue, Create
<1>8. ASSUME NEW t \in UGTabs, NEW k \in Tokens, Revoke(t, k) PROVE CodesMarked'
  <2>1. T(t) \in TabType /\ T(t).code = None /\ UNCHANGED codes
    BY <1>0, <1>8 DEF Revoke, Spending
  <2>2. Quiet(t, LoggedOut(t)) /\ Quiet(t, [T(t) EXCEPT !.in = FALSE])
    BY <2>1 DEF LoggedOut, TabType
  <2>q. QED
    BY <1>8, <2>1, <2>2, TabKeepsCode DEF Revoke
<1>9. ASSUME NEW k \in Tokens, Lapses(k) PROVE CodesMarked'
  <2> SUFFICES ASSUME NEW forget \in BOOLEAN, NEW cookie, cookie = IF forget THEN None ELSE k,
                 ugTab' = [t \in UGTabs |-> IF T(t).cookie # k THEN T(t)
                                            ELSE [T(t) EXCEPT !.cookie = cookie, !.in = FALSE]]
               PROVE  CodesMarked'
    BY <1>9 DEF Lapses
  <2>1. cookie \in Tokens \cup {None}
    OBVIOUS
  <2>2. ASSUME NEW t \in UGTabs
        PROVE  T(t)' \in TabType /\ T(t)'.code = T(t).code /\ T(t)'.at = T(t).at
    BY <1>0, <2>1 DEF T, TabType
  <2>3. UNCHANGED codes
    BY <1>9 DEF Lapses
  <2>4. ugTab' \in [UGTabs -> TabType]
    BY <2>2 DEF T
  <2>q. QED
    BY <2>2, <2>3, <2>4, TabsKeepCodes
<1>10. CASE Stop
  <2> DEFINE r(t) == [T(t) EXCEPT !.at = "idle", !.session = None, !.code = None,
                          !.form = IF T(t).at = "idle" THEN T(t).form ELSE None, !.in = FALSE]
  <2>1. ugTab' = [t \in UGTabs |-> r(t)] /\ ugUsed' = NoCodes /\ ugMinted' = NoCodes
    BY <1>10 DEF Stop
  <2>2. ASSUME NEW t \in UGTabs PROVE r(t) \in TabType /\ r(t).code = None
    <3> DEFINE form == IF T(t).at = "idle" THEN T(t).form ELSE None
    <3>1. form \in Forms
      BY <1>0 DEF TabType, Forms
    <3> HIDE DEF form
    <3>2. r(t) = [T(t) EXCEPT !.at = "idle", !.session = None, !.code = None, !.form = form, !.in = FALSE]
      BY DEF form
    <3>3. T(t) \in TabType
      BY <1>0
    <3>4. [T(t) EXCEPT !.at = "idle", !.session = None, !.code = None, !.form = form, !.in = FALSE]
            \in TabType
      BY <3>1, <3>3 DEF TabType, Steps
    <3>5. [T(t) EXCEPT !.at = "idle", !.session = None, !.code = None, !.form = form, !.in = FALSE].code
            = None
      BY <3>3 DEF TabType
    <3> HIDE DEF r
    <3>q. QED
      BY <3>2, <3>4, <3>5
  <2> HIDE DEF r
  <2>3. ugTab' \in [UGTabs -> TabType] /\ \A t \in UGTabs : T(t)'.code = None
    BY <2>1, <2>2 DEF T
  <2>q. QED
    BY <2>1, <2>3, ForgetStep
<1>11. CASE UNCHANGED <<ugTab, codes>>
  BY <1>11 DEF CodesMarked, codes, T
<1>12. ASSUME Sweep \/ AllCool \/ TrustCools \/ Other \/ ResetTOTP \/ WipeDevices
              \/ (\E a \in UGAddrs : Cools(a)) \/ UNCHANGED ugVars
       PROVE  UNCHANGED <<ugTab, codes>>
  BY <1>12 DEF Sweep, AllCool, TrustCools, Other, ResetTOTP, WipeDevices, Cools, ugVars, codes
<1>q. QED
  BY <1>1, <1>2, <1>3, <1>4, <1>5, <1>6, <1>7, <1>8, <1>9, <1>10, <1>11, <1>12, TickStep
     DEF UGNext, Visits, Fills, Answers

\* The inductive invariant of the gate: a code that opened it is marked, as it
\* was typed, for as long as the clock's skew still accepts it (auth.go).
THEOREM UnlockInvariance == UGSpec => []CodesMarked
<1>1. UGInit => CodesMarked
  <2> SUFFICES ASSUME UGInit PROVE CodesMarked
    OBVIOUS
  <2>1. ASSUME NEW a \in UGAddrs PROVE NewTab(a) \in TabType /\ NewTab(a).code = None
    BY <2>1 DEF NewTab, TabType, Forms, Steps
  <2>2. (CHOOSE a \in UGAddrs : TRUE) \in UGAddrs
    BY UGAssumption
  <2>3. ugTab \in [UGTabs -> TabType] /\ \A t \in UGTabs : T(t).code = None
    BY <2>1, <2>2 DEF UGInit, T
  <2>4. \A d \in Typed : None # d
    BY UGAssumption
  <2>q. QED
    BY <2>3, <2>4, NothingSpent DEF UGInit, CodesMarked
<1>2. CodesMarked /\ [UGNext]_ugVars => CodesMarked'
  BY UnlockStep
<1>3. QED
  BY <1>1, <1>2, PTL DEF UGSpec

\* A code opens the gate once as it was typed, however many requests bring it.
THEOREM CodesOpenOnce == UGSpec => []OneUnlockPerCode
<1>1. CodesMarked => OneUnlockPerCode
  BY DEF CodesMarked, OneUnlockPerCode
<1>2. QED
  BY <1>1, UnlockInvariance, PTL

-----------------------------------------------------------------------------
(* AudioMux: the sound of a video.                                         *)

\* A step of one job, for which the key stays where it is and the silent
\* content gets no sound.
LEMMA JobStep ==
  ASSUME MuxesSound, AMTypeOK', NEW j \in AMJobs, NEW r \in MuxJob, To(j, r),
         amKey' = amKey, amRow'["video"].state # "has_audio", JobSound(r),
         r.at \in Muxing => j \in Flying \/ Flying = {}
  PROVE  MuxesSound'
<1>1. J(j)' = r /\ \A i \in AMJobs : i # j => J(i)' = J(i)
  BY DEF MuxesSound, AMTypeOK, To, J
<1>2. Known' = Known
  BY DEF Known
<1>3. \A i \in AMJobs : JobSound(J(i))'
  <2>1. JobSound(r)'
    BY <1>2 DEF JobSound
  <2>2. \A i \in AMJobs : JobSound(J(i)) => (i # j => JobSound(J(i))')
    BY <1>1, <1>2 DEF JobSound
  <2>3. JobSound(J(j))'
    BY <1>1, <2>1, <1>2 DEF JobSound
  <2>q. QED
    BY <2>2, <2>3 DEF MuxesSound
<1>4. \A h, i \in Flying' : h = i
  <2>1. \A i \in Flying' : i \in AMJobs /\ (i # j => i \in Flying) /\ (i = j => r.at \in Muxing)
    BY <1>1 DEF Flying
  <2>q. QED
    BY <2>1 DEF MuxesSound
<1>q. QED
  BY <1>3, <1>4 DEF MuxesSound

\* The same for a step that touches nothing but jobs and the bounds.
LEMMA QuietJobStep ==
  ASSUME MuxesSound, NEW j \in AMJobs, NEW r \in MuxJob, To(j, r), UNCHANGED rest,
         amTrack' \in {"none", "fetching", "cached"}, JobSound(r),
         r.at \in Muxing => j \in Flying \/ Flying = {}
  PROVE  MuxesSound'
<1>1. AMTypeOK'
  BY DEF MuxesSound, AMTypeOK, To, rest
<1>q. QED
  BY <1>1, JobStep DEF MuxesSound, rest

\* A step that moves no job.
LEMMA RowStep ==
  ASSUME MuxesSound, AMTypeOK', UNCHANGED <<amKey, amJob>>, amRow'["video"].state # "has_audio"
  PROVE  MuxesSound'
<1>1. /\ \A j \in AMJobs : JobSound(J(j))'
      /\ Flying' = Flying
  BY DEF MuxesSound, JobSound, Known, J, Flying
<1>q. QED
  BY <1>1 DEF MuxesSound

\* A job at rest has nothing to publish.
LEMMA IdleSound == Idle \in MuxJob /\ JobSound(Idle) /\ Idle.at = "idle" /\ "idle" \notin Muxing
  BY DEF Idle, MuxJob, JobSound, Muxing, Content

\* Who asks has not seen a copy with sound on disk.
LEMMA AskedSound ==
  ASSUME AMTypeOK, NEW why \in {"view", "poll", "save", "prefetch", "retry"},
         NEW at \in {"kick", "call"}, ~(State = "has_audio" /\ OnDisk)
  PROVE  LET r == [Asked(why) EXCEPT !.at = at]
         IN  r \in MuxJob /\ JobSound(r) /\ r.at \notin Muxing
<1>1. State \in Verdicts /\ (State = "abandoned" => Known)
  BY DEF State, Known, AMTypeOK, ContentRow, Verdicts
<1> DEFINE state == State
           ready == State = "has_audio" /\ OnDisk
           r == [Asked(why) EXCEPT !.at = at]
<1>2. state \in Verdicts /\ (state = "abandoned" => Known) /\ ready = FALSE
  BY <1>1
<1>3. Asked(why) = [Idle EXCEPT !.why = why, !.seen = state, !.ready = ready]
  BY DEF Asked
<1> HIDE DEF state, ready
<1> DEFINE asked == Asked(why)
<1>4. asked \in MuxJob /\ asked.seen = state /\ asked.ready = FALSE
  <2>1. asked = [at |-> "idle", why |-> why, seen |-> state, ready |-> FALSE, silent |-> FALSE,
                 out |-> "-", file |-> "none"]
    BY <1>2, <1>3 DEF Idle
  <2>2. why \in {"-", "view", "poll", "save", "prefetch", "retry", "job"} /\ state \in Verdicts \cup {"-"}
    BY <1>2
  <2>q. QED
    BY ONLY <2>1, <2>2 DEF MuxJob, Content
<1>5. r = [asked EXCEPT !.at = at]
  OBVIOUS
<1> HIDE DEF asked, r
<1>6. r \in MuxJob /\ r.at = at /\ r.seen = state /\ r.ready = FALSE
  BY <1>4, <1>5 DEF MuxJob
<1>7. JobSound(r) /\ r.at \notin Muxing
  BY <1>2, <1>6 DEF JobSound, Muxing
<1>q. QED
  BY <1>6, <1>7 DEF r

\* What is written of a content without the word that it has sound.
LEMMA RowsTyped ==
  ASSUME NEW r \in ContentRow
  PROVE  /\ AudioFailed(r) \in ContentRow /\ AudioFailed(r).state \in {"failed", "abandoned"}
         /\ AudioRevived(r) \in ContentRow
         /\ (AudioRevived(r).state # r.state => AudioRevived(r).state = "failed")
         /\ \A state \in Verdicts : /\ AudioSet(r, state) \in ContentRow
                                    /\ AudioSet(r, state).state = state
<1> USE AMAssumption
<1>1. AudioFailed(r) \in ContentRow /\ AudioFailed(r).state \in {"failed", "abandoned"}
  <2> DEFINE n == IF r.fails < AMThreshold THEN r.fails + 1 ELSE AMThreshold
             state == IF n >= AMThreshold THEN "abandoned" ELSE "failed"
  <2>1. AudioFailed(r) = [r EXCEPT !.fails = n, !.recent = TRUE, !.state = state]
    BY DEF AudioFailed
  <2>2. n \in 0..AMThreshold /\ state \in {"failed", "abandoned"}
    BY DEF ContentRow
  <2> HIDE DEF n, state
  <2>q. QED
    BY <2>1, <2>2 DEF ContentRow, Verdicts
<1>2. /\ AudioRevived(r) \in ContentRow
      /\ (AudioRevived(r).state # r.state => AudioRevived(r).state = "failed")
  <2>1. CASE r.state = "abandoned"
    <3>1. AudioRevived(r) = [r EXCEPT !.state = "failed", !.fails = 0]
      BY <2>1 DEF AudioRevived
    <3>2. 0 \in 0..AMThreshold /\ "failed" \in Verdicts
      BY DEF Verdicts
    <3>3. AudioRevived(r) \in ContentRow /\ AudioRevived(r).state = "failed"
      BY <3>1, <3>2 DEF ContentRow
    <3>q. QED
      BY <2>1, <3>3
  <2>2. CASE r.state # "abandoned"
    <3>1. AudioRevived(r) = r
      BY <2>2 DEF AudioRevived
    <3>q. QED
      BY <3>1
  <2>q. QED
    BY <2>1, <2>2
<1>3. ASSUME NEW state \in Verdicts
      PROVE  AudioSet(r, state) \in ContentRow /\ AudioSet(r, state).state = state
  <2>1. 0 \in 0..AMThreshold
    OBVIOUS
  <2>q. QED
    BY <2>1 DEF AudioSet, ContentRow
<1>q. QED
  BY <1>1, <1>2, <1>3

\* A job whose waiting is over, or which falls back, is at rest or asks again.
LEMMA AfterSound ==
  ASSUME MuxesSound, NEW j \in AMJobs, NEW ok \in BOOLEAN,
         J(j).at \notin {"publish", "verdict"}
  PROVE  /\ After(j, ok) \in MuxJob /\ JobSound(After(j, ok)) /\ After(j, ok).at \in {"idle", "kick"}
<1>1. J(j) \in MuxJob /\ JobSound(J(j))
  BY DEF MuxesSound, AMTypeOK, J
<1>2. CASE After(j, ok) = Idle
  BY <1>2, IdleSound
<1>3. CASE After(j, ok) = [J(j) EXCEPT !.at = "kick", !.silent = FALSE]
  <2> DEFINE r == After(j, ok)
  <2>1. r = [J(j) EXCEPT !.at = "kick", !.silent = FALSE]
    BY <1>3
  <2> HIDE DEF r
  <2>2. r \in MuxJob /\ r.at = "kick" /\ r.ready = J(j).ready /\ r.seen = J(j).seen
    BY <1>1, <2>1 DEF MuxJob
  <2>3. JobSound(r)
    BY <1>1, <2>2 DEF JobSound
  <2> USE DEF r
  <2>q. QED
    BY <2>2, <2>3
<1>q. QED
  BY <1>2, <1>3 DEF After

\* Rows and files after the verdict of a copy that is final.
LEMMA ConcludeTyped ==
  ASSUME AMTypeOK, Known, NEW state \in {"silent", "has_audio"}, Conclude(state)
  PROVE  /\ amRow' \in [Content -> ContentRow] /\ amFile' \in [Content -> BOOLEAN]
         /\ amPlain' = FALSE
         /\ \A c \in Content : amRow'[c].state = IF c = amKey THEN state ELSE amRow[c].state
<1> DEFINE set(c) == IF c = amKey THEN AudioSet(amRow[c], state) ELSE amRow[c]
           path(c) == set(c).path /\ ~(PlainFileGoes /\ c = "video")
           file == amFile["video"] /\ ~PlainFileGoes
<1>1. /\ amPlain' = FALSE /\ amFile' = [amFile EXCEPT !["video"] = file]
      /\ amRow' = [c \in Content |-> [set(c) EXCEPT !.path = path(c)]]
  BY DEF Conclude
<1>2. \A c \in Content : amRow[c] \in ContentRow
  BY DEF AMTypeOK
<1>3. ASSUME NEW c \in Content
      PROVE  set(c) \in ContentRow /\ set(c).state = IF c = amKey THEN state ELSE amRow[c].state
  <2>1. state \in Verdicts /\ amRow[c] \in ContentRow
    BY <1>2 DEF Verdicts
  <2>2. AudioSet(amRow[c], state) \in ContentRow /\ AudioSet(amRow[c], state).state = state
    BY <2>1, RowsTyped
  <2>3. CASE c = amKey
    BY <2>2, <2>3
  <2>4. CASE c # amKey
    BY <2>1, <2>4
  <2>q. QED
    BY <2>3, <2>4
<1>4. \A c \in Content : path(c) \in BOOLEAN
  OBVIOUS
<1>5. file \in BOOLEAN
  OBVIOUS
<1> HIDE DEF set, path, file
<1>6. amFile' \in [Content -> BOOLEAN]
  BY <1>1, <1>5 DEF AMTypeOK
<1>7. ASSUME NEW c \in Content
      PROVE  amRow'[c] \in ContentRow /\ amRow'[c].state = set(c).state
  <2>1. amRow'[c] = [set(c) EXCEPT !.path = path(c)]
    BY <1>1
  <2>q. QED
    BY <1>3, <1>4, <2>1 DEF ContentRow
<1>8. amRow' \in [Content -> ContentRow]
  BY <1>1, <1>7
<1>q. QED
  BY <1>1, <1>3, <1>6, <1>7, <1>8

\* A row whose path or cooldown goes is a row, and keeps its verdict.
LEMMA Marked ==
  ASSUME amRow \in [Content -> ContentRow], NEW d \in Content,
         \/ amRow' = [amRow EXCEPT ![d].recent = FALSE]
         \/ amRow' = [amRow EXCEPT ![d].path = FALSE]
  PROVE  /\ amRow' \in [Content -> ContentRow]
         /\ \A c \in Content : amRow'[c].state = amRow[c].state
<1> DEFINE no == FALSE
           cooled == [amRow[d] EXCEPT !.recent = no]
           evicted == [amRow[d] EXCEPT !.path = no]
<1>1. no \in BOOLEAN /\ amRow[d] \in ContentRow
  OBVIOUS
<1>2. amRow' = [amRow EXCEPT ![d] = cooled] \/ amRow' = [amRow EXCEPT ![d] = evicted]
  OBVIOUS
<1> HIDE DEF no
<1>3. cooled \in ContentRow /\ cooled.state = amRow[d].state
  BY <1>1 DEF ContentRow
<1>4. evicted \in ContentRow /\ evicted.state = amRow[d].state
  BY <1>1 DEF ContentRow
<1> HIDE DEF cooled, evicted
<1>q. QED
  BY <1>2, <1>3, <1>4

\* Every step keeps the verdicts true, and no step but a verdict takes one from
\* the copy with sound.
LEMMA MuxStep ==
  ASSUME MuxesSound, [AMNext]_amVars
  PROVE  /\ MuxesSound'
         /\ \/ \E j \in AMJobs : J(j).at = "verdict"
            \/ /\ amKey = "muxed" => amKey' = "muxed"
               /\ amRow["muxed"].state = "has_audio" => amRow'["muxed"].state = "has_audio"
<1> DEFINE Keeps == /\ amKey = "muxed" => amKey' = "muxed"
                    /\ amRow["muxed"].state = "has_audio" => amRow'["muxed"].state = "has_audio"
           Verdicting == \E j \in AMJobs : J(j).at = "verdict"
<1> SUFFICES MuxesSound' /\ (Verdicting \/ Keeps)
  OBVIOUS
<1>0. /\ AMTypeOK /\ amRow["video"].state # "has_audio"
      /\ \A j \in AMJobs : J(j) \in MuxJob /\ JobSound(J(j))
      /\ \A c \in Content : amRow[c] \in ContentRow
      /\ \A j \in AMJobs : J(j).at \in Muxing => j \in Flying
  BY DEF MuxesSound, AMTypeOK, J, Flying
<1>k. ASSUME UNCHANGED rest PROVE Keeps /\ amRow'["video"].state # "has_audio" /\ amKey' = amKey
  BY <1>0, <1>k DEF rest
<1>1. ASSUME NEW j \in AMJobs, View(j) \/ Direct(j) \/ Retry(j) PROVE MuxesSound' /\ Keeps
  <2>1. UNCHANGED rest /\ amTrack' \in {"none", "fetching", "cached"}
    BY <1>0, <1>1 DEF View, Direct, Retry, AMTypeOK, KickTrack
  <2>2. \E why \in {"view", "poll", "save", "prefetch", "retry"}, at \in {"kick", "call"} :
          ~(State = "has_audio" /\ OnDisk) /\ To(j, [Asked(why) EXCEPT !.at = at])
    <3>1. CASE View(j)
      BY <3>1 DEF View, ServeMuxed, Conclusive, AudioStatus
    <3>2. CASE Direct(j)
      BY <3>2 DEF Direct, ServeMuxed, Conclusive, OnDisk
    <3>3. CASE Retry(j)
      BY <3>3 DEF Retry, AudioFailedListed
    <3>q. QED
      BY <1>1, <3>1, <3>2, <3>3
  <2>3. PICK why \in {"view", "poll", "save", "prefetch", "retry"}, at \in {"kick", "call"} :
          ~(State = "has_audio" /\ OnDisk) /\ To(j, [Asked(why) EXCEPT !.at = at])
    BY <2>2
  <2> DEFINE r == [Asked(why) EXCEPT !.at = at]
  <2>4. r \in MuxJob /\ JobSound(r) /\ r.at \notin Muxing /\ To(j, r)
    BY <1>0, <2>3, AskedSound
  <2> HIDE DEF r
  <2>q. QED
    BY <1>k, <2>1, <2>4, QuietJobStep
<1>2. ASSUME NEW j \in AMJobs, Kick(j) PROVE MuxesSound' /\ Keeps
  <2>1. UNCHANGED rest /\ amTrack' \in {"none", "fetching", "cached"}
    BY <1>0, <1>2 DEF Kick, AMTypeOK
  <2>2. CASE To(j, Idle)
    BY <1>k, <2>1, <2>2, IdleSound, QuietJobStep
  <2>3. CASE To(j, [J(j) EXCEPT !.at = "slot", !.why = "job", !.silent = J(j).seen = "silent"])
    <3> DEFINE silent == J(j).seen = "silent"
               r == [J(j) EXCEPT !.at = "slot", !.why = "job", !.silent = silent]
    <3>1. silent \in BOOLEAN
      OBVIOUS
    <3>2. To(j, r)
      BY <2>3
    <3> HIDE DEF silent
    <3>3. r \in MuxJob /\ r.at = "slot" /\ r.ready = J(j).ready /\ r.seen = J(j).seen
      BY <1>0, <3>1 DEF MuxJob
    <3> HIDE DEF r
    <3>4. JobSound(r) /\ r.at \notin Muxing
      BY <1>0, <3>3 DEF JobSound, Muxing
    <3>q. QED
      BY <1>k, <2>1, <3>2, <3>3, <3>4, QuietJobStep
  <2>q. QED
    BY <1>2, <2>2, <2>3 DEF Kick
<1>3. ASSUME NEW j \in AMJobs, Slot(j) PROVE MuxesSound' /\ Keeps
  <2> DEFINE r == [J(j) EXCEPT !.at = "call"]
  <2>1. /\ To(j, r) /\ UNCHANGED <<amKey, amFile, amPlain, amLedger, amTrack, amLeft>>
        /\ amRow' = IF J(j).seen = "abandoned" THEN [amRow EXCEPT ![amKey] = AudioRevived(amRow[amKey])]
                    ELSE amRow
    BY <1>3 DEF Slot, Go
  <2>2. r \in MuxJob /\ r.at = "call" /\ r.ready = J(j).ready /\ r.seen = J(j).seen
    BY <1>0 DEF MuxJob
  <2> HIDE DEF r
  <2>3. JobSound(r) /\ r.at \notin Muxing
    BY <1>0, <2>2 DEF JobSound, Muxing
  <2>4. /\ amRow' \in [Content -> ContentRow]
        /\ \A c \in Content : amRow'[c].state = "has_audio" <=> amRow[c].state = "has_audio"
    <3>1. CASE J(j).seen = "abandoned"
      <4>1. amKey \in Content
        BY <1>0, <3>1 DEF JobSound, Known, AMTypeOK
      <4>2. /\ AudioRevived(amRow[amKey]) \in ContentRow
            /\ AudioRevived(amRow[amKey]).state # amRow[amKey].state =>
                 amRow[amKey].state = "abandoned" /\ AudioRevived(amRow[amKey]).state = "failed"
        BY <1>0, <4>1, RowsTyped DEF AudioRevived
      <4>q. QED
        BY <1>0, <2>1, <3>1, <4>1, <4>2 DEF AMTypeOK
    <3>2. CASE J(j).seen # "abandoned"
      BY <1>0, <2>1, <3>2 DEF AMTypeOK
    <3>q. QED
      BY <3>1, <3>2
  <2>5. AMTypeOK'
    BY <1>0, <2>1, <2>2, <2>4 DEF AMTypeOK, To
  <2>6. amRow'["video"].state # "has_audio" /\ Keeps
    BY <1>0, <2>1, <2>4 DEF Content
  <2>q. QED
    BY <2>1, <2>2, <2>3, <2>5, <2>6, JobStep
<1>4. ASSUME NEW j \in AMJobs, Call(j) \/ Quit(j) PROVE MuxesSound' /\ Keeps
  <2>1. UNCHANGED rest /\ amTrack' \in {"none", "fetching", "cached"}
    BY <1>0, <1>4 DEF Call, Quit, AMTypeOK
  <2>2. CASE To(j, Idle)
    BY <1>k, <2>1, <2>2, IdleSound, QuietJobStep
  <2>3. ASSUME NEW at \in {"video", "wait"}, at = "video" => Flying = {}, Go(j, at)
        PROVE  MuxesSound' /\ Keeps
    <3> DEFINE r == [J(j) EXCEPT !.at = at]
    <3>1. To(j, r)
      BY <2>3 DEF Go
    <3>2. r \in MuxJob /\ r.at = at /\ r.ready = J(j).ready /\ r.seen = J(j).seen
      BY <1>0 DEF MuxJob, Muxing
    <3> HIDE DEF r
    <3>3. JobSound(r) /\ (r.at \in Muxing => Flying = {})
      BY <1>0, <2>3, <3>2 DEF JobSound, Muxing
    <3>q. QED
      BY <1>k, <2>1, <3>1, <3>2, <3>3, QuietJobStep
  <2>q. QED
    BY <1>4, <2>2, <2>3 DEF Call, Quit
<1>5. ASSUME NEW j \in AMJobs, DownloadVideo(j) PROVE MuxesSound' /\ Keeps
  <2>1. /\ UNCHANGED <<amKey, amRow, amFile, amPlain, amTrack>> /\ amLedger' \in BOOLEAN
        /\ j \in Flying
    BY <1>0, <1>5 DEF DownloadVideo, AMTypeOK, Flying, Muxing
  <2>2. \E r \in MuxJob : JobSound(r) /\ To(j, r)
    <3>1. CASE To(j, DownloadSilent(J(j)))
      <4> DEFINE r == DownloadSilent(J(j))
      <4>1. r \in MuxJob /\ r.at = "publish" /\ r.ready = J(j).ready /\ r.seen = J(j).seen
            /\ r.out = "silent" /\ r.file = "video"
        BY <1>0 DEF MuxJob, Muxing, Content, DownloadSilent
      <4>2. To(j, r)
        BY <3>1
      <4> HIDE DEF r
      <4>3. JobSound(r)
        BY <1>0, <4>1 DEF JobSound, Content
      <4>q. QED
        BY <4>1, <4>2, <4>3
    <3>2. CASE To(j, [J(j) EXCEPT !.at = "probe"])
      <4> DEFINE r == [J(j) EXCEPT !.at = "probe"]
      <4>1. r \in MuxJob /\ r.at = "probe" /\ r.ready = J(j).ready /\ r.seen = J(j).seen
        BY <1>0 DEF MuxJob, Muxing
      <4>2. To(j, r)
        BY <3>2
      <4> HIDE DEF r
      <4>3. JobSound(r)
        BY <1>0, <4>1 DEF JobSound
      <4>q. QED
        BY <4>1, <4>2, <4>3
    <3>3. CASE To(j, [J(j) EXCEPT !.at = "land", !.out = "error"])
      <4> DEFINE r == [J(j) EXCEPT !.at = "land", !.out = "error"]
      <4>1. r \in MuxJob /\ r.at = "land" /\ r.ready = J(j).ready /\ r.seen = J(j).seen
        BY <1>0 DEF MuxJob, Muxing
      <4>2. To(j, r)
        BY <3>3
      <4> HIDE DEF r
      <4>3. JobSound(r)
        BY <1>0, <4>1 DEF JobSound
      <4>q. QED
        BY <4>1, <4>2, <4>3
    <3>q. QED
      BY <1>5, <3>1, <3>2, <3>3 DEF DownloadVideo
  <2>3. PICK r \in MuxJob : JobSound(r) /\ To(j, r)
    BY <2>2
  <2>4. AMTypeOK'
    BY <1>0, <2>1, <2>3 DEF AMTypeOK, To
  <2>q. QED
    BY <1>0, <2>1, <2>3, <2>4, JobStep
<1>6. ASSUME NEW j \in AMJobs, Probe(j) PROVE MuxesSound' /\ Keeps
  <2>1. UNCHANGED rest /\ amTrack' \in {"none", "fetching", "cached"} /\ j \in Flying
    BY <1>0, <1>6 DEF Probe, AMTypeOK, Flying, Muxing
  <2>2. \E out \in {"silent", "has_audio", "failed"}, file \in Content :
          /\ out = "has_audio" => file = "muxed"
          /\ \/ To(j, [J(j) EXCEPT !.at = "publish", !.out = out, !.file = file])
             \/ To(j, [J(j) EXCEPT !.at = "land", !.out = "error"])
    BY <1>6 DEF Probe, Content
  <2>3. PICK out \in {"silent", "has_audio", "failed"}, file \in Content :
          /\ out = "has_audio" => file = "muxed"
          /\ \/ To(j, [J(j) EXCEPT !.at = "publish", !.out = out, !.file = file])
             \/ To(j, [J(j) EXCEPT !.at = "land", !.out = "error"])
    BY <2>2
  <2>4. CASE To(j, [J(j) EXCEPT !.at = "publish", !.out = out, !.file = file])
    <3> DEFINE r == [J(j) EXCEPT !.at = "publish", !.out = out, !.file = file]
    <3>1. r \in MuxJob /\ r.at = "publish" /\ r.ready = J(j).ready /\ r.seen = J(j).seen
          /\ r.out = out /\ r.file = file
      BY <1>0 DEF MuxJob, Muxing
    <3>2. To(j, r)
      BY <2>4
    <3> HIDE DEF r
    <3>3. JobSound(r)
      BY <1>0, <2>3, <3>1 DEF JobSound
    <3>q. QED
      BY <1>k, <2>1, <3>1, <3>2, <3>3, QuietJobStep
  <2>5. CASE To(j, [J(j) EXCEPT !.at = "land", !.out = "error"])
    <3> DEFINE r == [J(j) EXCEPT !.at = "land", !.out = "error"]
    <3>1. r \in MuxJob /\ r.at = "land" /\ r.ready = J(j).ready /\ r.seen = J(j).seen
      BY <1>0 DEF MuxJob, Muxing
    <3>2. To(j, r)
      BY <2>5
    <3> HIDE DEF r
    <3>3. JobSound(r)
      BY <1>0, <3>1 DEF JobSound
    <3>q. QED
      BY <1>k, <2>1, <3>1, <3>2, <3>3, QuietJobStep
  <2>q. QED
    BY <2>3, <2>4, <2>5
<1>7. ASSUME NEW j \in AMJobs, SaveMuxed(j) PROVE MuxesSound' /\ Keeps
  <2> DEFINE c == J(j).file
             r == [J(j) EXCEPT !.at = "verdict"]
             path(d) == IF d = c THEN TRUE
                        ELSE amRow[d].path /\ ~((amKey = "video" /\ c = "muxed" /\ ~amPlain) /\ d = "video")
  <2>1. /\ J(j).at = "publish" /\ To(j, r)
        /\ amKey' = (IF amKey = "muxed" \/ amKey = c THEN amKey ELSE c)
        /\ amFile' = [amFile EXCEPT ![c] = TRUE]
        /\ amRow' = [d \in Content |-> [amRow[d] EXCEPT !.path = path(d)]]
        /\ UNCHANGED <<amPlain, amLedger, amTrack, amLeft>>
    BY <1>7 DEF SaveMuxed, Go
  <2>2. c \in Content /\ J(j).out \in {"silent", "has_audio", "failed"}
        /\ (J(j).out = "has_audio" => c = "muxed") /\ j \in Flying
    BY <1>0, <2>1 DEF JobSound, Muxing
  <2>3. r \in MuxJob /\ r.at = "verdict" /\ r.ready = J(j).ready /\ r.seen = J(j).seen
        /\ r.out = J(j).out /\ r.file = J(j).file
    BY <1>0 DEF MuxJob, Muxing
  <2>4. \A d \in Content : path(d) \in BOOLEAN
    OBVIOUS
  <2> HIDE DEF c, r, path
  <2>5. amKey' \in Content /\ (amKey = "muxed" => amKey' = "muxed") /\ (c = "muxed" => amKey' = "muxed")
    BY <1>0, <2>1, <2>2 DEF AMTypeOK, Content
  <2>6. Known' /\ (Known => Known')
    BY <2>5 DEF Known, Content
  <2>7. ASSUME NEW d \in Content
        PROVE  amRow'[d] \in ContentRow /\ amRow'[d].state = amRow[d].state
    <3>1. amRow'[d] = [amRow[d] EXCEPT !.path = path(d)]
      BY <2>1
    <3>q. QED
      BY <1>0, <2>4, <3>1 DEF ContentRow
  <2>8. AMTypeOK'
    <3>1. amRow' \in [Content -> ContentRow] /\ amFile' \in [Content -> BOOLEAN]
      BY <1>0, <2>1, <2>7 DEF AMTypeOK
    <3>q. QED
      BY <1>0, <2>1, <2>3, <2>5, <3>1 DEF AMTypeOK, To
  <2>9. J(j)' = r /\ \A i \in AMJobs : i # j => J(i)' = J(i)
    BY <1>0, <2>1 DEF AMTypeOK, To, J
  <2>10. ASSUME NEW i \in AMJobs PROVE JobSound(J(i))'
    <3>1. CASE i = j
      BY <1>0, <2>2, <2>3, <2>5, <2>6, <2>9, <3>1 DEF JobSound, c
    <3>2. CASE i # j
      BY <1>0, <2>5, <2>6, <2>9, <3>2 DEF JobSound
    <3>q. QED
      BY <3>1, <3>2
  <2>11. Flying' = Flying
    BY <1>0, <2>1, <2>3, <2>9 DEF Flying, Muxing
  <2>12. amRow'["video"].state # "has_audio" /\ Keeps
    BY <1>0, <2>5, <2>7 DEF Content
  <2>q. QED
    BY <2>8, <2>10, <2>11, <2>12 DEF MuxesSound
<1>8. ASSUME NEW j \in AMJobs, Verdict(j) PROVE MuxesSound' /\ Verdicting
  <2> DEFINE r == [J(j) EXCEPT !.at = "land"]
  <2>1. /\ J(j).at = "verdict" /\ To(j, r) /\ UNCHANGED <<amKey, amLedger, amTrack, amLeft>>
    BY <1>8 DEF Verdict, Go
  <2>2. /\ J(j).out \in {"silent", "has_audio", "failed"} /\ J(j).file \in Content
        /\ J(j).out = "has_audio" => J(j).file = "muxed"
        /\ Known /\ (J(j).file = "muxed" => amKey = "muxed") /\ j \in Flying /\ amKey \in Content
    BY <1>0, <2>1 DEF JobSound, Muxing, Known, AMTypeOK
  <2>3. r \in MuxJob /\ r.at = "land" /\ r.ready = J(j).ready /\ r.seen = J(j).seen
    BY <1>0 DEF MuxJob, Muxing
  <2> HIDE DEF r
  <2>4. JobSound(r)
    BY <1>0, <2>3 DEF JobSound
  <2>5. /\ amRow' \in [Content -> ContentRow] /\ amFile' \in [Content -> BOOLEAN] /\ amPlain' \in BOOLEAN
        /\ amRow'["video"].state # "has_audio"
    <3>1. CASE J(j).silent
      <4> DEFINE row == AudioSet(amRow[amKey], "silent")
      <4>1. amRow' = [amRow EXCEPT ![amKey] = row] /\ UNCHANGED <<amFile, amPlain>>
        BY <1>8, <3>1 DEF Verdict
      <4>2. row \in ContentRow /\ row.state = "silent"
        BY <1>0, <2>2, RowsTyped DEF Verdicts
      <4> HIDE DEF row
      <4>q. QED
        BY <1>0, <2>2, <4>1, <4>2 DEF AMTypeOK, Content
    <3>2. CASE ~J(j).silent /\ J(j).out = "failed"
      <4> DEFINE row == AudioFailed(amRow[amKey])
      <4>1. amRow' = [amRow EXCEPT ![amKey] = row] /\ UNCHANGED <<amFile, amPlain>>
        BY <1>8, <3>2 DEF Verdict
      <4>2. row \in ContentRow /\ row.state \in {"failed", "abandoned"}
        BY <1>0, <2>2, RowsTyped
      <4> HIDE DEF row
      <4>q. QED
        BY <1>0, <2>2, <4>1, <4>2 DEF AMTypeOK, Content
    <3>3. CASE ~J(j).silent /\ J(j).out # "failed"
      <4>1. Conclude(J(j).out) /\ J(j).out \in {"silent", "has_audio"}
        BY <1>8, <2>2, <3>3 DEF Verdict
      <4>2. /\ amRow' \in [Content -> ContentRow] /\ amFile' \in [Content -> BOOLEAN] /\ amPlain' = FALSE
            /\ \A d \in Content : amRow'[d].state = IF d = amKey THEN J(j).out ELSE amRow[d].state
        BY <1>0, <2>2, <4>1, ConcludeTyped
      <4>q. QED
        BY <1>0, <2>2, <4>2 DEF Content
    <3>q. QED
      BY <3>1, <3>2, <3>3
  <2>6. AMTypeOK'
    BY <1>0, <2>1, <2>3, <2>5 DEF AMTypeOK, To
  <2>q. QED
    BY <2>1, <2>2, <2>3, <2>4, <2>5, <2>6, JobStep
<1>9. ASSUME NEW j \in AMJobs, LandMux(j) PROVE MuxesSound' /\ Keeps
  <2> DEFINE ok == J(j).out # "error"
  <2>1. /\ J(j).at = "land" /\ UNCHANGED rest /\ UNCHANGED amTrack
        /\ amJob' = [i \in AMJobs |-> IF i = j \/ J(i).at = "wait" THEN After(i, ok) ELSE J(i)]
    BY <1>9 DEF LandMux
  <2>2. ok \in BOOLEAN
    OBVIOUS
  <2> HIDE DEF ok
  <2>3. ASSUME NEW i \in AMJobs
        PROVE  /\ J(i)' \in MuxJob /\ JobSound(J(i)')
               /\ J(i)'.at \in Muxing => J(i).at \in Muxing
    <3>1. CASE i = j \/ J(i).at = "wait"
      <4>1. J(i).at \notin {"publish", "verdict"}
        BY <2>1, <3>1
      <4>2. J(i)' = After(i, ok)
        BY <2>1, <3>1 DEF J
      <4>3. "idle" \notin Muxing /\ "kick" \notin Muxing
        BY DEF Muxing
      <4>q. QED
        BY <2>2, <4>1, <4>2, <4>3, AfterSound
    <3>2. CASE ~(i = j \/ J(i).at = "wait")
      BY <1>0, <2>1, <3>2 DEF J
    <3>q. QED
      BY <3>1, <3>2
  <2>4. amJob' \in [AMJobs -> MuxJob]
    BY <2>1, <2>3 DEF J
  <2>5. AMTypeOK'
    BY <1>0, <2>1, <2>4 DEF AMTypeOK, rest
  <2>6. \A i \in AMJobs : JobSound(J(i))'
    BY <2>1, <2>3 DEF JobSound, Known, rest
  <2>7. Flying' \subseteq Flying
    BY <2>3 DEF Flying
  <2>q. QED
    BY <1>k, <2>1, <2>5, <2>6, <2>7 DEF MuxesSound
<1>10. CASE Track \/ Revive
  <2>1. /\ UNCHANGED <<amKey, amRow, amFile, amPlain, amJob>> /\ amLedger' \in BOOLEAN
        /\ amTrack' \in {"none", "fetching", "cached"}
    BY <1>0, <1>10 DEF Track, Revive, TrackOutcomes, AMTypeOK, rest
  <2>2. AMTypeOK'
    BY <1>0, <2>1 DEF AMTypeOK
  <2>q. QED
    BY <1>0, <2>1, <2>2, RowStep
<1>11. CASE Cool \/ Evict
  <2>1. /\ UNCHANGED <<amKey, amPlain, amLedger, amTrack, amJob>>
        /\ amFile' \in [Content -> BOOLEAN]
        /\ \E c \in Content : \/ amRow' = [amRow EXCEPT ![c].recent = FALSE]
                              \/ amRow' = [amRow EXCEPT ![c].path = FALSE]
    BY <1>0, <1>11 DEF Cool, Evict, AMTypeOK
  <2>2. /\ amRow' \in [Content -> ContentRow]
        /\ \A c \in Content : amRow'[c].state = amRow[c].state
    BY <1>0, <2>1, Marked DEF AMTypeOK
  <2>3. AMTypeOK'
    BY <1>0, <2>1, <2>2 DEF AMTypeOK
  <2>q. QED
    BY <1>0, <2>1, <2>2, <2>3, RowStep DEF Content
<1>12. CASE Restart
  <2>1. /\ UNCHANGED <<amKey, amFile, amLedger>> /\ amJob' = [j \in AMJobs |-> Idle]
        /\ amPlain' \in BOOLEAN /\ amTrack' \in {"none", "fetching", "cached"}
        /\ amRow' = amRow \/ amRow' = [amRow EXCEPT !["video"].path = FALSE]
    BY <1>0, <1>12 DEF Restart, AMTypeOK
  <2>2. /\ amRow' \in [Content -> ContentRow]
        /\ \A c \in Content : amRow'[c].state = amRow[c].state
    BY <1>0, <2>1, Marked DEF AMTypeOK, Content
  <2>3. \A j \in AMJobs : J(j)' = Idle
    BY <2>1 DEF J
  <2>4. AMTypeOK'
    BY <1>0, <2>1, <2>2, IdleSound DEF AMTypeOK
  <2>5. \A j \in AMJobs : JobSound(J(j))'
    BY <2>3 DEF JobSound, Idle
  <2>6. Flying' = {}
    BY <2>3, IdleSound DEF Flying
  <2>q. QED
    BY <1>0, <2>1, <2>2, <2>4, <2>5, <2>6 DEF MuxesSound, Content
<1>13. CASE UNCHANGED amVars
  <2>1. AMTypeOK' /\ amRow'["video"].state # "has_audio" /\ UNCHANGED <<amKey, amRow, amJob>>
    BY <1>0, <1>13 DEF amVars, AMTypeOK
  <2>q. QED
    BY <2>1, RowStep
<1>q. QED
  BY <1>1, <1>2, <1>3, <1>4, <1>5, <1>6, <1>7, <1>8, <1>9, <1>10, <1>11, <1>12, <1>13
     DEF AMNext, Work

\* The inductive invariant of the muxes of one video: one of them flies, and
\* one that is to say that there is sound finds its copy on the key.
THEOREM MuxInvariance == AMSpec => []MuxesSound
<1>1. AMInit => MuxesSound
  <2> SUFFICES ASSUME AMInit PROVE MuxesSound
    OBVIOUS
  <2>1. \A j \in AMJobs : J(j) = Idle
    BY DEF AMInit, J
  <2>2. ASSUME NEW c \in Content PROVE amRow[c] \in ContentRow /\ amRow[c].state = ""
    <3> DEFINE path == amPlain /\ c = "video"
    <3>1. amRow[c] = [NewRow EXCEPT !.path = path]
      BY DEF AMInit
    <3>2. path \in BOOLEAN
      OBVIOUS
    <3> HIDE DEF path
    <3>3. amRow[c] = [state |-> "", fails |-> 0, path |-> path, recent |-> FALSE]
      BY <3>1 DEF NewRow
    <3>4. 0 \in 0..AMThreshold /\ "" \in Verdicts
      BY AMAssumption DEF Verdicts
    <3> HIDE DEF path
    <3> DEFINE none == 0  word == ""
    <3>5. /\ amRow[c] = [state |-> word, fails |-> none, path |-> path, recent |-> FALSE]
          /\ none \in 0..AMThreshold /\ word \in Verdicts
      BY <3>3, <3>4
    <3> HIDE DEF none, word
    <3>6. amRow[c] \in ContentRow
      BY <3>2, <3>5 DEF ContentRow
    <3>7. amRow[c].state = word
      BY ONLY <3>5
    <3>q. QED
      BY ONLY <3>6, <3>7 DEF word
  <2>3. amRow \in [Content -> ContentRow]
    BY <2>2 DEF AMInit
  <2>4. amFile \in [Content -> BOOLEAN]
    BY DEF AMInit
  <2>5. AMTypeOK
    BY <2>3, <2>4, IdleSound DEF AMInit, AMTypeOK
  <2>6. Flying = {}
    BY <2>1, IdleSound DEF Flying
  <2>q. QED
    BY <2>1, <2>2, <2>5, <2>6, IdleSound DEF MuxesSound, Content
<1>2. MuxesSound /\ [AMNext]_amVars => MuxesSound'
  BY MuxStep
<1>3. QED
  BY <1>1, <1>2, PTL DEF AMSpec

\* A row that says there is sound is of the key whose copy was muxed.
LEMMA SoundIsMuxed == ASSUME MuxesSound PROVE SoundIsSound
  BY DEF MuxesSound, SoundIsSound, State, Known, AMTypeOK, Content

\* Neither the table nor the memory of the process says of a silent copy that
\* it has sound, through every overlap of viewers, polls and retries.
THEOREM SoundHasSound == AMSpec => []SoundIsSound
<1>1. MuxesSound => SoundIsSound
  BY SoundIsMuxed
<1>2. QED
  BY <1>1, MuxInvariance, PTL

\* A copy with sound loses its verdict only to a mux decided on before.
THEOREM SoundLostOnlyToStale == AMSpec => LostOnlyToStale
<1>1. MuxesSound /\ MuxesSound' /\ [AMNext]_amVars
        => [State = "has_audio" /\ OnDisk /\ State' # "has_audio"
              => \E j \in AMJobs : J(j).at = "verdict" /\ ~J(j).ready]_amVars
  <2> SUFFICES ASSUME MuxesSound, [AMNext]_amVars,
                      State = "has_audio", State' # "has_audio"
               PROVE  \E j \in AMJobs : J(j).at = "verdict" /\ ~J(j).ready
    OBVIOUS
  <2>1. amKey = "muxed" /\ amRow["muxed"].state = "has_audio"
    BY SoundIsMuxed DEF SoundIsSound, State, Known
  <2>2. ~(amKey' = "muxed" /\ amRow'["muxed"].state = "has_audio")
    BY DEF State, Known
  <2>3. \E j \in AMJobs : J(j).at = "verdict"
    BY <2>1, <2>2, MuxStep
  <2>q. QED
    BY <2>3 DEF MuxesSound, JobSound
<1>2. QED
  BY <1>1, MuxInvariance, PTL DEF AMSpec, LostOnlyToStale

-----------------------------------------------------------------------------
(* Unfurl: the flights of link previews.                                   *)

\* The leader of a link is the one reader who leads for it.
LEMMA LeaderIs ==
  ASSUME Boarded, NEW k \in UFLinks
  PROVE  /\ LeaderOf(k) = {} => LeaderIn(LeaderOf(k)) = "-"
         /\ \A c \in LeaderOf(k) : LeaderIn(LeaderOf(k)) = c /\ c # "-"
<1>1. ASSUME NEW c \in LeaderOf(k) PROVE LeaderIn(LeaderOf(k)) = c /\ c # "-"
  <2>1. LeaderIn(LeaderOf(k)) = CHOOSE d \in LeaderOf(k) : TRUE
    BY <1>1 DEF LeaderIn
  <2>2. (CHOOSE d \in LeaderOf(k) : TRUE) \in LeaderOf(k)
    BY <1>1
  <2>q. QED
    BY <1>1, <2>1, <2>2, UFAssumption DEF Boarded, LeaderOf
<1>q. QED
  BY <1>1 DEF LeaderIn

\* One reader's step that neither enters nor leaves a flight, nor changes what
\* the last one brought, is no step of the flights.
LEMMA Aside ==
  ASSUME Boarded, NEW c \in UFReaders, NEW r \in PreviewRequest,
         ufReader' = [ufReader EXCEPT ![c] = r],
         ufRows' \in [UFLinks -> {"none", "ok", "failed", "stale"}],
         r.got = R(c).got,
         r.at \in Leading <=> R(c).at \in Leading,
         r.at = "wait" <=> R(c).at = "wait",
         r.at \in Leading \cup {"wait"} => r.link = R(c).link /\ r.leader = R(c).leader,
         r.at # "out" => r.link \in UFLinks,
         r.at \in {"save", "land", "landed"} => r.row \in {"ok", "failed", "nil"},
         r.at = "save" => r.row # "nil"
  PROVE  Boarded' /\ UNCHANGED Flights!sfVars
<1>1. /\ R(c)' = r /\ \A d \in UFReaders \ {c} : R(d)' = R(d)
      /\ ufReader' \in [UFReaders -> PreviewRequest]
  BY DEF Boarded, UFTypeOK, R
<1>2. \A k \in UFLinks : LeaderOf(k)' = LeaderOf(k)
  BY <1>1 DEF LeaderOf
<1>3. \A k \in UFLinks : AboardOf(k)' = AboardOf(k)
  BY <1>1 DEF AboardOf
<1>4. \A d \in UFReaders : R(d)'.got = R(d).got
  BY <1>1
<1>5. UNCHANGED Flights!sfVars
  <2>1. \A k \in UFLinks : LeaderIn(LeaderOf(k)') = LeaderIn(LeaderOf(k))
    BY <1>2
  <2>2. [k \in UFLinks |-> LeaderIn(LeaderOf(k))]' = [k \in UFLinks |-> LeaderIn(LeaderOf(k))]
    BY <2>1 DEF LeaderIn
  <2>3. [k \in UFLinks |-> AboardOf(k)]' = [k \in UFLinks |-> AboardOf(k)]
    BY <1>3
  <2>4. [d \in UFReaders |-> R(d).got]' = [d \in UFReaders |-> R(d).got]
    BY <1>4
  <2>q. QED
    BY <2>2, <2>3, <2>4 DEF Flights!sfVars
<1>6. UFTypeOK'
  BY <1>1 DEF UFTypeOK
<1>7. ASSUME NEW d \in UFReaders
      PROVE  /\ R(d)'.at # "out" => R(d)'.link \in UFLinks
             /\ R(d)'.at = "wait" => R(d)'.leader \in LeaderOf(R(d).link)'
             /\ R(d)'.at \in {"save", "land", "landed"} => R(d)'.row \in {"ok", "failed", "nil"}
             /\ R(d)'.at = "save" => R(d)'.row # "nil"
  <2>1. CASE d = c
    <3>1. r.at = "wait" => r.leader \in LeaderOf(r.link)
      BY DEF Boarded
    <3>2. r.at = "wait" => LeaderOf(r.link)' = LeaderOf(r.link)
      BY <1>2
    <3>q. QED
      BY <1>1, <2>1, <3>1, <3>2
  <2>2. CASE d # c
    <3>1. R(d)' = R(d)
      BY <1>1, <2>2
    <3>2. R(d).at = "wait" => R(d).link \in UFLinks /\ R(d).leader \in LeaderOf(R(d).link)
      BY DEF Boarded
    <3>3. R(d).at = "wait" => LeaderOf(R(d).link)' = LeaderOf(R(d).link)
      BY <1>2, <3>1, <3>2
    <3>q. QED
      BY <3>1, <3>2, <3>3 DEF Boarded
  <2>q. QED
    BY <2>1, <2>2
<1>8. \A k \in UFLinks : \A d, e \in LeaderOf(k)' : d = e
  BY <1>2 DEF Boarded
<1>q. QED
  BY <1>5, <1>6, <1>7, <1>8 DEF Boarded

\* A reader boards the flight of the link, or leads one of their own.
LEMMA BoardStep ==
  ASSUME Boarded, NEW c \in UFReaders, FetchOne(c)
  PROVE  Boarded' /\ Flights!Next
<1>0. PICK k \in UFLinks : k = R(c).link
  BY DEF FetchOne, Boarded
<1> DEFINE lead == LeaderOf(k)
           leads == [j \in UFLinks |-> LeaderIn(LeaderOf(j))]
           aboard == [j \in UFLinks |-> AboardOf(j)]
           result == [d \in UFReaders |-> R(d).got]
<1>1. /\ R(c) \in PreviewRequest /\ R(c).at = "ask" /\ UNCHANGED ufRows
      /\ \A j \in UFLinks : c \notin LeaderOf(j)
  BY DEF FetchOne, Boarded, UFTypeOK, R, LeaderOf, Leading
<1>2. PICK r \in PreviewRequest :
        /\ ufReader' = [ufReader EXCEPT ![c] = r] /\ r.got = "-" /\ r.link = k
        /\ IF lead = {} THEN r.at = "recheck" ELSE r.at = "wait" /\ r.leader \in lead
  <2>1. CASE lead = {}
    <3> DEFINE r == [R(c) EXCEPT !.at = "recheck", !.got = "-"]
    <3>1. ufReader' = [ufReader EXCEPT ![c] = r]
      BY <1>0, <2>1 DEF FetchOne, Set
    <3>2. r \in PreviewRequest /\ r.at = "recheck" /\ r.got = "-" /\ r.link = k
      BY <1>0, <1>1 DEF PreviewRequest, Leading
    <3> HIDE DEF r
    <3>q. QED
      BY <2>1, <3>1, <3>2
  <2>2. CASE lead # {}
    <3>1. PICK l \in lead : ufReader' = [ufReader EXCEPT ![c] = [R(c) EXCEPT !.at = "wait", !.leader = l, !.got = "-"]]
      BY <1>0, <2>2 DEF FetchOne, Set
    <3> DEFINE r == [R(c) EXCEPT !.at = "wait", !.leader = l, !.got = "-"]
    <3>2. l \in UFReaders
      BY <3>1 DEF LeaderOf
    <3>3. r \in PreviewRequest /\ r.at = "wait" /\ r.got = "-" /\ r.link = k /\ r.leader = l
      BY <1>0, <1>1, <3>2 DEF PreviewRequest
    <3> HIDE DEF r
    <3>4. ufReader' = [ufReader EXCEPT ![c] = r]
      BY <3>1 DEF r
    <3>q. QED
      BY <2>2, <3>1, <3>3, <3>4
  <2>q. QED
    BY <2>1, <2>2
<1>3. /\ R(c)' = r /\ \A d \in UFReaders \ {c} : R(d)' = R(d)
      /\ ufReader' \in [UFReaders -> PreviewRequest]
  BY <1>2 DEF Boarded, UFTypeOK, R
<1>4. /\ \A j \in UFLinks \ {k} : LeaderOf(j)' = LeaderOf(j)
      /\ LeaderOf(k)' = IF lead = {} THEN {c} ELSE lead
  <2>1. \A j \in UFLinks \ {k} : LeaderOf(j)' = LeaderOf(j)
    BY <1>0, <1>1, <1>2, <1>3 DEF LeaderOf
  <2>2. R(c)'.at \in Leading /\ R(c)'.link = k <=> lead = {}
    BY <1>2, <1>3 DEF Leading
  <2>3. {d \in UFReaders : R(d)'.at \in Leading /\ R(d)'.link = k} = IF lead = {} THEN {c} ELSE lead
    <3>1. CASE lead = {}
      BY <1>3, <2>2, <3>1 DEF LeaderOf
    <3>2. CASE lead # {}
      BY <1>1, <1>3, <2>2, <3>2 DEF LeaderOf
    <3>q. QED
      BY <3>1, <3>2
  <2>q. QED
    BY <2>1, <2>3 DEF LeaderOf
<1>5. /\ \A j \in UFLinks \ {k} : AboardOf(j)' = AboardOf(j)
      /\ AboardOf(k)' = AboardOf(k) \cup {c}
      /\ \A j \in UFLinks : c \notin AboardOf(j)
  BY <1>0, <1>1, <1>2, <1>3 DEF AboardOf, Leading
<1>6. UFTypeOK'
  BY <1>1, <1>3 DEF Boarded, UFTypeOK
<1>7. \A j \in UFLinks : \A d, e \in LeaderOf(j)' : d = e
  BY <1>4 DEF Boarded
<1>8. ASSUME NEW d \in UFReaders
      PROVE  /\ R(d)'.at # "out" => R(d)'.link \in UFLinks
             /\ R(d)'.at = "wait" => R(d)'.leader \in LeaderOf(R(d).link)'
             /\ R(d)'.at \in {"save", "land", "landed"} => R(d)'.row \in {"ok", "failed", "nil"}
             /\ R(d)'.at = "save" => R(d)'.row # "nil"
  <2>1. CASE d = c
    <3>1. r.at = "wait" => r.leader \in LeaderOf(k)'
      BY <1>2, <1>4
    <3>q. QED
      BY <1>2, <1>3, <2>1, <3>1
  <2>2. CASE d # c
    <3>1. R(d)' = R(d)
      BY <1>3, <2>2
    <3>2. R(d).at = "wait" => R(d).link \in UFLinks /\ R(d).leader \in LeaderOf(R(d).link)
      BY DEF Boarded
    <3>3. R(d).at = "wait" => LeaderOf(R(d).link) \subseteq LeaderOf(R(d).link)'
      BY <1>4, <3>1, <3>2
    <3>q. QED
      BY <3>1, <3>2, <3>3 DEF Boarded
  <2>q. QED
    BY <2>1, <2>2
<1>9. Boarded'
  BY <1>6, <1>7, <1>8 DEF Boarded
<1>10. Flights!Board(c, k)
  <2>1. Flights!Grounded(c)
    BY <1>5 DEF Flights!Grounded
  <2>2. aboard' = [aboard EXCEPT ![k] = @ \cup {c}]
    BY <1>5
  <2>3. result' = [result EXCEPT ![c] = "-"]
    BY <1>2, <1>3
  <2>4. leads' = [leads EXCEPT ![k] = IF @ = "-" THEN c ELSE @]
    <3>1. \A j \in UFLinks \ {k} : LeaderIn(LeaderOf(j)') = LeaderIn(LeaderOf(j))
      BY <1>4
    <3>2. LeaderIn(LeaderOf(k)') = IF LeaderIn(lead) = "-" THEN c ELSE LeaderIn(lead)
      <4>1. CASE lead = {}
        BY <1>4, <4>1 DEF LeaderIn
      <4>2. CASE lead # {}
        BY <1>4, <4>2, LeaderIs
      <4>q. QED
        BY <4>1, <4>2
    <3>3. \A j \in UFLinks : leads'[j] = LeaderIn(LeaderOf(j)')
      BY DEF LeaderIn
    <3>4. leads' = [j \in UFLinks |-> leads'[j]]
      OBVIOUS
    <3>5. \A j \in UFLinks : leads'[j] = [leads EXCEPT ![k] = IF @ = "-" THEN c ELSE @][j]
      BY <3>1, <3>2, <3>3
    <3>q. QED
      BY <3>4, <3>5
  <2>q. QED
    BY <2>1, <2>2, <2>3, <2>4 DEF Flights!Board
<1>q. QED
  BY <1>9, <1>10 DEF Flights!Next

\* A reader who waits and is gone leaves the flight.
LEMMA GiveUpStep ==
  ASSUME Boarded, NEW c \in UFReaders, GiveUpWait(c)
  PROVE  Boarded' /\ Flights!Next
<1>0. PICK k \in UFLinks : k = R(c).link
  BY DEF GiveUpWait, Boarded
<1> DEFINE r == Rendered(R(c), "nil")
           aboard == [j \in UFLinks |-> AboardOf(j)]
           leads == [j \in UFLinks |-> LeaderIn(LeaderOf(j))]
           result == [d \in UFReaders |-> R(d).got]
<1>1. /\ R(c) \in PreviewRequest /\ R(c).at = "wait" /\ UNCHANGED ufRows
      /\ ufReader' = [ufReader EXCEPT ![c] = r]
  BY DEF GiveUpWait, Boarded, UFTypeOK, R, Set
<1>2. r \in PreviewRequest /\ r.at = "out" /\ r.got = R(c).got
  BY <1>1 DEF Rendered, PreviewRequest
<1> HIDE DEF r
<1>3. /\ R(c)' = r /\ \A d \in UFReaders \ {c} : R(d)' = R(d)
      /\ ufReader' \in [UFReaders -> PreviewRequest]
  BY <1>1, <1>2 DEF Boarded, UFTypeOK, R
<1>4. \A j \in UFLinks : LeaderOf(j)' = LeaderOf(j) /\ c \notin LeaderOf(j)
  BY <1>1, <1>2, <1>3 DEF LeaderOf, Leading
<1>5. /\ \A j \in UFLinks \ {k} : AboardOf(j)' = AboardOf(j)
      /\ AboardOf(k)' = AboardOf(k) \ {c} /\ c \in AboardOf(k)
  BY <1>0, <1>1, <1>2, <1>3 DEF AboardOf, Leading
<1>6. ASSUME NEW d \in UFReaders
      PROVE  /\ R(d)'.at # "out" => R(d)'.link \in UFLinks
             /\ R(d)'.at = "wait" => R(d)'.leader \in LeaderOf(R(d).link)'
             /\ R(d)'.at \in {"save", "land", "landed"} => R(d)'.row \in {"ok", "failed", "nil"}
             /\ R(d)'.at = "save" => R(d)'.row # "nil"
  <2>1. CASE d = c
    BY <1>2, <1>3, <2>1
  <2>2. CASE d # c
    <3>1. R(d)' = R(d)
      BY <1>3, <2>2
    <3>2. R(d).at = "wait" => R(d).link \in UFLinks /\ R(d).leader \in LeaderOf(R(d).link)
      BY DEF Boarded
    <3>3. R(d).at = "wait" => LeaderOf(R(d).link)' = LeaderOf(R(d).link)
      BY <1>4, <3>1, <3>2
    <3>q. QED
      BY <3>1, <3>2, <3>3 DEF Boarded
  <2>q. QED
    BY <2>1, <2>2
<1>7. Boarded'
  BY <1>1, <1>3, <1>4, <1>6 DEF Boarded, UFTypeOK
<1>8. LeaderIn(LeaderOf(k)) # c
  <2>1. CASE LeaderOf(k) = {}
    BY <2>1, LeaderIs, UFAssumption
  <2>2. CASE LeaderOf(k) # {}
    BY <1>4, <2>2, LeaderIs
  <2>q. QED
    BY <2>1, <2>2
<1>9. Flights!GiveUp(c, k)
  <2>1. c \in aboard[k] /\ leads[k] # c
    BY <1>5, <1>8
  <2>2. aboard' = [aboard EXCEPT ![k] = @ \ {c}]
    BY <1>5
  <2>3. result' = result
    BY <1>2, <1>3
  <2>4. leads' = leads
    <3>1. \A j \in UFLinks : LeaderIn(LeaderOf(j)') = LeaderIn(LeaderOf(j))
      BY <1>4
    <3>q. QED
      BY <3>1 DEF LeaderIn
  <2>q. QED
    BY <2>1, <2>2, <2>3, <2>4 DEF Flights!GiveUp
<1>q. QED
  BY <1>7, <1>9 DEF Flights!Next

\* The flight lands: the leader and all who wait have its row, and no one else.
LEMMA LandStep ==
  ASSUME Boarded, NEW c \in UFReaders, LandFlight(c)
  PROVE  Boarded' /\ Flights!Next
<1>0. PICK k \in UFLinks : k = R(c).link
  BY DEF LandFlight, Boarded
<1> DEFINE row == R(c).row
           own == [Rendered(R(c), row) EXCEPT !.got = row]
           theirs(d) == [R(d) EXCEPT !.at = "landed", !.row = row, !.got = row]
           aboard == [j \in UFLinks |-> AboardOf(j)]
           leads == [j \in UFLinks |-> LeaderIn(LeaderOf(j))]
           result == [d \in UFReaders |-> R(d).got]
<1>1. /\ R(c).at = "land" /\ row \in {"ok", "failed", "nil"} /\ UNCHANGED ufRows
      /\ \A d \in UFReaders : R(d) \in PreviewRequest
      /\ ufReader' = [d \in UFReaders |-> IF d = c THEN own
                         ELSE IF R(d).at = "wait" /\ R(d).leader = c THEN theirs(d) ELSE R(d)]
  BY DEF LandFlight, Boarded, UFTypeOK, R
<1> HIDE DEF row
<1>2. own \in PreviewRequest /\ own.at = "out" /\ own.got = row
  <2> DEFINE reply == IF row = "ok" THEN "ok" ELSE "failed"
  <2>1. own = [R(c) EXCEPT !.at = "out", !.reply = reply, !.got = row]
    BY DEF Rendered
  <2>2. reply \in {"-", "ok", "failed"}
    OBVIOUS
  <2> HIDE DEF reply
  <2>q. QED
    BY <1>1, <2>1, <2>2 DEF PreviewRequest
<1>3. ASSUME NEW d \in UFReaders
      PROVE  /\ theirs(d) \in PreviewRequest /\ theirs(d).at = "landed" /\ theirs(d).got = row
             /\ theirs(d).link = R(d).link /\ theirs(d).row = row
  BY <1>1 DEF PreviewRequest
<1> HIDE DEF own, theirs
<1>4. LeaderOf(k) = {c}
  BY <1>0, <1>1 DEF Boarded, LeaderOf, Leading
<1>5. \A d \in UFReaders : R(d).at = "wait" => (R(d).leader = c <=> R(d).link = k)
  BY <1>0, <1>4 DEF Boarded, LeaderOf
<1>6. \A d \in UFReaders : d \in AboardOf(k) <=> d = c \/ (R(d).at = "wait" /\ R(d).leader = c)
  <2>1. \A d \in UFReaders : R(d).at \in Leading /\ R(d).link = k <=> d = c
    BY <1>4 DEF LeaderOf
  <2>q. QED
    BY <1>5, <2>1 DEF AboardOf
<1>7. /\ R(c)' = own
      /\ \A d \in AboardOf(k) \ {c} : R(d)' = theirs(d)
      /\ \A d \in UFReaders \ AboardOf(k) : R(d)' = R(d)
  BY <1>1, <1>6 DEF R, AboardOf
<1>8. \A d \in UFReaders : R(d)' \in PreviewRequest
  BY <1>1, <1>2, <1>3, <1>7 DEF AboardOf
<1>9. UFTypeOK'
  BY <1>1, <1>8 DEF R, UFTypeOK, Boarded
<1>10. \A d \in AboardOf(k) : R(d)'.at \in {"out", "landed"} /\ R(d)'.got = row
  BY <1>2, <1>3, <1>7 DEF AboardOf
<1>11. AboardOf(k)' = {} /\ \A j \in UFLinks \ {k} : AboardOf(j)' = AboardOf(j)
  <2>1. \A d \in UFReaders, j \in UFLinks \ {k} : d \in AboardOf(k) => d \notin AboardOf(j)
    BY DEF AboardOf
  <2>2. \A d \in UFReaders : R(d)'.at \in Leading \cup {"wait"} => d \notin AboardOf(k)
    BY <1>10 DEF Leading
  <2>3. ASSUME NEW j \in UFLinks, NEW d \in UFReaders
        PROVE  d \in AboardOf(j)' <=> d \in AboardOf(j) \ AboardOf(k)
    <3>1. CASE d \in AboardOf(k)
      BY <2>2, <3>1 DEF AboardOf
    <3>2. CASE d \notin AboardOf(k)
      BY <1>7, <3>2 DEF AboardOf
    <3>q. QED
      BY <3>1, <3>2
  <2>4. \A j \in UFLinks : AboardOf(j)' \subseteq UFReaders /\ AboardOf(j) \subseteq UFReaders
    BY DEF AboardOf
  <2>5. AboardOf(k)' = {}
    BY <2>3, <2>4
  <2>6. ASSUME NEW j \in UFLinks \ {k} PROVE AboardOf(j)' = AboardOf(j)
    BY <2>1, <2>3, <2>4
  <2>q. QED
    BY <2>5, <2>6
<1>12. LeaderOf(k)' = {} /\ \A j \in UFLinks \ {k} : LeaderOf(j)' = LeaderOf(j)
  <2>1. \A d \in UFReaders, j \in UFLinks \ {k} : d \in AboardOf(k) => d \notin LeaderOf(j)
    BY DEF AboardOf, LeaderOf
  <2>2. \A d \in UFReaders : R(d)'.at \in Leading => d \notin AboardOf(k)
    BY <1>10 DEF Leading
  <2>3. ASSUME NEW j \in UFLinks, NEW d \in UFReaders
        PROVE  d \in LeaderOf(j)' <=> d \in LeaderOf(j) \ AboardOf(k)
    <3>1. CASE d \in AboardOf(k)
      BY <2>2, <3>1 DEF LeaderOf
    <3>2. CASE d \notin AboardOf(k)
      BY <1>7, <3>2 DEF LeaderOf
    <3>q. QED
      BY <3>1, <3>2
  <2>4. \A j \in UFLinks : LeaderOf(j)' \subseteq UFReaders /\ LeaderOf(j) \subseteq UFReaders
    BY DEF LeaderOf
  <2>5. LeaderOf(k) \subseteq AboardOf(k)
    BY DEF LeaderOf, AboardOf
  <2>6. LeaderOf(k)' = {}
    BY <2>3, <2>4, <2>5
  <2>7. ASSUME NEW j \in UFLinks \ {k} PROVE LeaderOf(j)' = LeaderOf(j)
    BY <2>1, <2>3, <2>4
  <2>q. QED
    BY <2>6, <2>7
<1>13. ASSUME NEW d \in UFReaders
       PROVE  /\ R(d)'.at # "out" => R(d)'.link \in UFLinks
              /\ R(d)'.at = "wait" => R(d)'.leader \in LeaderOf(R(d).link)'
              /\ R(d)'.at \in {"save", "land", "landed"} => R(d)'.row \in {"ok", "failed", "nil"}
              /\ R(d)'.at = "save" => R(d)'.row # "nil"
  <2>1. CASE d = c
    BY <1>2, <1>7, <2>1
  <2>2. CASE d \in AboardOf(k) \ {c}
    BY <1>0, <1>1, <1>3, <1>7, <2>2 DEF AboardOf
  <2>3. CASE d \notin AboardOf(k)
    <3>1. R(d)' = R(d)
      BY <1>7, <2>3
    <3>2. R(d).at = "wait" => R(d).link \in UFLinks \ {k} /\ R(d).leader \in LeaderOf(R(d).link)
      BY <2>3 DEF Boarded, AboardOf
    <3>3. R(d).at = "wait" => LeaderOf(R(d).link)' = LeaderOf(R(d).link)
      BY <1>12, <3>1, <3>2
    <3>q. QED
      BY <3>1, <3>2, <3>3 DEF Boarded
  <2>q. QED
    BY <2>1, <2>2, <2>3
<1>14. \A j \in UFLinks : \A d, e \in LeaderOf(j)' : d = e
  BY <1>12 DEF Boarded
<1>15. Boarded'
  BY <1>9, <1>13, <1>14 DEF Boarded
<1>16. Flights!Land(k, row)
  <2>1. leads[k] # "-"
    BY <1>4, LeaderIs
  <2>2. aboard' = [aboard EXCEPT ![k] = {}]
    BY <1>11
  <2>3. result' = [d \in UFReaders |-> IF d \in aboard[k] THEN row ELSE result[d]]
    <3>1. \A d \in UFReaders : R(d)'.got = IF d \in AboardOf(k) THEN row ELSE R(d).got
      BY <1>7, <1>10
    <3>q. QED
      BY <3>1
  <2>4. leads' = [leads EXCEPT ![k] = "-"]
    <3>1. \A j \in UFLinks \ {k} : LeaderIn(LeaderOf(j)') = LeaderIn(LeaderOf(j))
      BY <1>12
    <3>2. LeaderIn(LeaderOf(k)') = "-"
      BY <1>12 DEF LeaderIn
    <3>3. \A j \in UFLinks : leads'[j] = LeaderIn(LeaderOf(j)')
      BY DEF LeaderIn
    <3>4. leads' = [j \in UFLinks |-> leads'[j]]
      OBVIOUS
    <3>5. \A j \in UFLinks : leads'[j] = [leads EXCEPT ![k] = "-"][j]
      BY <3>1, <3>2, <3>3
    <3>q. QED
      BY <3>4, <3>5
  <2>q. QED
    BY <2>1, <2>2, <2>3, <2>4 DEF Flights!Land
<1>q. QED
  BY <1>1, <1>15, <1>16 DEF Flights!Next

\* What a reader's request becomes, where no flight is boarded or left.
LEMMA QuietRequest ==
  ASSUME Boarded, NEW c \in UFReaders,
         HandleUnfurl(c) \/ Leave(c) \/ ReadRow(c) \/ Recheck(c) \/ TakeSlot(c)
           \/ Fetch(c) \/ Save(c) \/ Follow(c)
  PROVE  Boarded' /\ UNCHANGED Flights!sfVars
<1> DEFINE q == R(c)
<1>1. q \in PreviewRequest /\ ufRows \in [UFLinks -> {"none", "ok", "failed", "stale"}]
  BY DEF Boarded, UFTypeOK, R
<1>2. /\ q.at # "out" => q.link \in UFLinks
      /\ q.at \in {"save", "land", "landed"} => q.row \in {"ok", "failed", "nil"}
      /\ q.at = "save" => q.row # "nil"
  BY DEF Boarded
<1>a. ASSUME NEW row PROVE
        /\ Rendered(q, row) \in PreviewRequest /\ Rendered(q, row).at = "out"
        /\ Rendered(q, row).got = q.got
  <2> DEFINE reply == IF row = "ok" THEN "ok" ELSE "failed"
  <2>1. Rendered(q, row) = [q EXCEPT !.at = "out", !.reply = reply]
    BY DEF Rendered
  <2>2. reply \in {"-", "ok", "failed"}
    OBVIOUS
  <2> HIDE DEF reply
  <2>q. QED
    BY <1>1, <2>1, <2>2 DEF PreviewRequest
<1>b. ASSUME q.at \in {"read", "landed"}, UNCHANGED ufRows,
             NEW r \in PreviewRequest, r.at = "out", r.got = q.got,
             ufReader' = [ufReader EXCEPT ![c] = r]
      PROVE  Boarded' /\ UNCHANGED Flights!sfVars
  <2>1. r.at \notin Leading /\ q.at \notin Leading /\ q.at # "wait" /\ r.at # "wait"
    BY <1>b DEF Leading
  <2>q. QED
    BY <1>1, <1>b, <2>1, Aside
<1>c. ASSUME NEW at \in {"read", "ask"}, q.at \in {"out", "read"}, UNCHANGED ufRows,
             NEW r \in PreviewRequest, r.at = at, r.link \in UFLinks, r.got = q.got,
             ufReader' = [ufReader EXCEPT ![c] = r]
      PROVE  Boarded' /\ UNCHANGED Flights!sfVars
  <2>1. r.at \notin Leading /\ q.at \notin Leading /\ q.at # "wait" /\ r.at # "wait"
    BY <1>c DEF Leading
  <2>q. QED
    BY <1>1, <1>c, <2>1, Aside
<1>d. ASSUME q.at \in Leading, NEW r \in PreviewRequest, r.at \in Leading,
             r.link = q.link, r.leader = q.leader, r.got = q.got,
             r.at \in {"save", "land"} => r.row \in {"ok", "failed", "nil"},
             r.at = "save" => r.row # "nil",
             ufReader' = [ufReader EXCEPT ![c] = r],
             ufRows' \in [UFLinks -> {"none", "ok", "failed", "stale"}]
      PROVE  Boarded' /\ UNCHANGED Flights!sfVars
  <2>1. q.link \in UFLinks /\ q.at # "wait" /\ r.at # "wait" /\ r.at # "landed" /\ r.at # "out"
    BY <1>2, <1>d DEF Leading
  <2>q. QED
    BY <1>d, <2>1, Aside
<1>3. CASE HandleUnfurl(c)
  <2>1. PICK k \in UFLinks : ufReader' = [ufReader EXCEPT ![c] =
            [q EXCEPT !.at = "read", !.link = k, !.gone = FALSE, !.blind = FALSE,
                      !.reply = "-", !.visits = @ + 1]]
    BY <1>3 DEF HandleUnfurl, Set
  <2> DEFINE no == FALSE  more == q.visits + 1
             r == [q EXCEPT !.at = "read", !.link = k, !.gone = no, !.blind = no,
                            !.reply = "-", !.visits = more]
  <2>2. no \in BOOLEAN /\ more \in Nat
    BY <1>1 DEF PreviewRequest
  <2>3. ufReader' = [ufReader EXCEPT ![c] = r]
    BY <2>1
  <2> HIDE DEF no
  <2> HIDE DEF more
  <2>4. r \in PreviewRequest /\ r.at = "read" /\ r.link = k /\ r.got = q.got
    BY <1>1, <2>2 DEF PreviewRequest
  <2> HIDE DEF r
  <2>5. q.at = "out" /\ UNCHANGED ufRows
    BY <1>3 DEF HandleUnfurl
  <2>q. QED
    BY <1>c, <2>3, <2>4, <2>5
<1>4. CASE Leave(c)
  <2> DEFINE yes == TRUE  r == [q EXCEPT !.gone = yes]
  <2>1. /\ q.at \in {"wait", "slot", "og", "jina", "landed"} /\ UNCHANGED ufRows
        /\ ufReader' = [ufReader EXCEPT ![c] = r] /\ yes \in BOOLEAN
    BY <1>4 DEF Leave, Set
  <2> HIDE DEF yes
  <2>2. /\ r \in PreviewRequest /\ r.at = q.at /\ r.got = q.got /\ r.link = q.link
        /\ r.leader = q.leader /\ r.row = q.row
    BY <1>1 , <2>1 DEF PreviewRequest
  <2> HIDE DEF r
  <2>q. QED
    BY <1>1, <1>2, <2>1, <2>2, Aside
<1>5. CASE ReadRow(c)
  <2>1. q.at = "read" /\ UNCHANGED ufRows
    BY <1>5 DEF ReadRow
  <2>2. CASE ufReader' = [ufReader EXCEPT ![c] = [q EXCEPT !.at = "ask"]]
    <3> DEFINE r == [q EXCEPT !.at = "ask"]
    <3>1. r \in PreviewRequest /\ r.at = "ask" /\ r.link = q.link /\ r.got = q.got
      BY <1>1 DEF PreviewRequest
    <3>2. ufReader' = [ufReader EXCEPT ![c] = r]
      BY <2>2
    <3> HIDE DEF r
    <3>q. QED
      BY <1>2, <1>c, <2>1, <3>1, <3>2
  <2>3. CASE ufReader' = [ufReader EXCEPT ![c] = Rendered(q, ufRows[q.link])]
    <3> DEFINE r == Rendered(q, ufRows[q.link])
    <3>1. r \in PreviewRequest /\ r.at = "out" /\ r.got = q.got
      BY <1>a
    <3>2. q.at \in {"read", "landed"} /\ ufReader' = [ufReader EXCEPT ![c] = r]
      BY <2>1, <2>3
    <3> HIDE DEF r
    <3>q. QED
      BY <1>b, <2>1, <3>1, <3>2
  <2>q. QED
    BY <1>5, <2>2, <2>3 DEF ReadRow, Set
<1>6. CASE Recheck(c)
  <2>1. q.at = "recheck" /\ q.at \in Leading /\ UNCHANGED ufRows
    BY <1>6 DEF Recheck, Leading
  <2>2. PICK r \in PreviewRequest :
          /\ ufReader' = [ufReader EXCEPT ![c] = r]
          /\ r.at = "slot" \/ (r.at = "land" /\ r.row = "ok")
          /\ r.link = q.link /\ r.leader = q.leader /\ r.got = q.got
    <3> DEFINE yes == TRUE
    <3>1. yes \in BOOLEAN
      OBVIOUS
    <3>2. \E r \in {[q EXCEPT !.at = "land", !.row = "ok"], [q EXCEPT !.at = "slot"],
                    [q EXCEPT !.at = "slot", !.blind = yes]} : ufReader' = [ufReader EXCEPT ![c] = r]
      BY <1>6 DEF Recheck, Set
    <3> HIDE DEF yes
    <3>3. PICK r \in {[q EXCEPT !.at = "land", !.row = "ok"], [q EXCEPT !.at = "slot"],
                      [q EXCEPT !.at = "slot", !.blind = yes]} : ufReader' = [ufReader EXCEPT ![c] = r]
      BY <3>2
    <3>4. /\ r \in PreviewRequest
          /\ r.at = "slot" \/ (r.at = "land" /\ r.row = "ok")
          /\ r.link = q.link /\ r.leader = q.leader /\ r.got = q.got
      <4>1. CASE r = [q EXCEPT !.at = "land", !.row = "ok"]
        BY <1>1, <4>1 DEF PreviewRequest, Leading
      <4>2. CASE r = [q EXCEPT !.at = "slot"]
        BY <1>1, <4>2 DEF PreviewRequest, Leading
      <4>3. CASE r = [q EXCEPT !.at = "slot", !.blind = yes]
        BY <1>1, <3>1, <4>3 DEF PreviewRequest, Leading
      <4>q. QED
        BY <3>3, <4>1, <4>2, <4>3
    <3>q. QED
      BY <3>3, <3>4
  <2>3. r.at \in Leading
    BY <2>2 DEF Leading
  <2>q. QED
    BY <1>1, <1>d, <2>1, <2>2, <2>3
<1>7. CASE TakeSlot(c)
  <2>1. q.at = "slot" /\ q.at \in Leading /\ UNCHANGED ufRows
    BY <1>7 DEF TakeSlot, Leading
  <2>2. PICK r \in PreviewRequest :
          /\ ufReader' = [ufReader EXCEPT ![c] = r]
          /\ (r.at \in {"og", "save"} /\ r.row = "failed") \/ (r.at = "land" /\ r.row = "nil")
          /\ r.link = q.link /\ r.leader = q.leader /\ r.got = q.got
    <3> DEFINE at == IF q.link \in UFPublic THEN "og" ELSE "save"
    <3>1. at \in {"og", "save"}
      OBVIOUS
    <3>2. \E r \in {[q EXCEPT !.at = at, !.row = "failed"], [q EXCEPT !.at = "land", !.row = "nil"]} :
            ufReader' = [ufReader EXCEPT ![c] = r]
      BY <1>7 DEF TakeSlot, Set
    <3> HIDE DEF at
    <3>3. PICK r \in {[q EXCEPT !.at = at, !.row = "failed"], [q EXCEPT !.at = "land", !.row = "nil"]} :
            ufReader' = [ufReader EXCEPT ![c] = r]
      BY <3>2
    <3>4. /\ r \in PreviewRequest
          /\ (r.at \in {"og", "save"} /\ r.row = "failed") \/ (r.at = "land" /\ r.row = "nil")
          /\ r.link = q.link /\ r.leader = q.leader /\ r.got = q.got
      <4>1. CASE r = [q EXCEPT !.at = at, !.row = "failed"]
        BY <1>1, <3>1, <4>1 DEF PreviewRequest, Leading
      <4>2. CASE r = [q EXCEPT !.at = "land", !.row = "nil"]
        BY <1>1, <4>2 DEF PreviewRequest, Leading
      <4>q. QED
        BY <3>3, <4>1, <4>2
    <3>q. QED
      BY <3>3, <3>4
  <2>3. r.at \in Leading
    BY <2>2 DEF Leading
  <2>q. QED
    BY <1>1, <1>d, <2>1, <2>2, <2>3
<1>8. CASE Fetch(c)
  <2>1. PICK page : /\ UNCHANGED ufRows
                    /\ \/ q.at = "og" /\ Set(c, [q EXCEPT !.row = Got(c, page),
                             !.at = IF UFJina /\ Got(c, page) = "failed" THEN "jina" ELSE "save"])
                       \/ q.at = "jina" /\ Set(c, [q EXCEPT !.row = Got(c, page), !.at = "save"])
    BY <1>8 DEF Fetch
  <2> DEFINE row == Got(c, page)
             at == IF UFJina /\ row = "failed" THEN "jina" ELSE "save"
  <2>2. row \in {"ok", "failed"} /\ at \in {"jina", "save"}
    BY DEF Got
  <2>3. \E x \in {at, "save"} : ufReader' = [ufReader EXCEPT ![c] = [q EXCEPT !.row = row, !.at = x]]
    BY <2>1 DEF Set
  <2> HIDE DEF at
  <2> HIDE DEF row
  <2>4. PICK x \in {"jina", "save"} : ufReader' = [ufReader EXCEPT ![c] = [q EXCEPT !.row = row, !.at = x]]
    BY <2>2, <2>3
  <2> DEFINE r == [q EXCEPT !.row = row, !.at = x]
  <2>5. /\ r \in PreviewRequest /\ r.at = x /\ r.row = row /\ r.link = q.link
        /\ r.leader = q.leader /\ r.got = q.got
    BY <1>1, <2>2, <2>4 DEF PreviewRequest, Leading
  <2>6. ufReader' = [ufReader EXCEPT ![c] = r]
    BY <2>4
  <2> HIDE DEF r
  <2>7. q.at \in Leading /\ r.at \in Leading
    BY <2>1, <2>4, <2>5 DEF Leading
  <2>8. r.row \in {"ok", "failed", "nil"} /\ r.row # "nil"
    BY <2>2, <2>5
  <2>q. QED
    BY <1>1, <1>d, <2>1, <2>5, <2>6, <2>7, <2>8
<1>9. CASE Save(c)
  <2> DEFINE r == [q EXCEPT !.at = "land"]
  <2>1. /\ q.at = "save" /\ ufReader' = [ufReader EXCEPT ![c] = r]
        /\ ufRows' \in {ufRows, [ufRows EXCEPT ![q.link] = q.row]}
    BY <1>9 DEF Save, Set
  <2>2. /\ r \in PreviewRequest /\ r.at = "land" /\ r.row = q.row /\ r.link = q.link
        /\ r.leader = q.leader /\ r.got = q.got
    BY <1>1 DEF PreviewRequest, Leading
  <2> HIDE DEF r
  <2>3. q.row \in {"ok", "failed"}
    BY <1>2, <2>1
  <2>4. ufRows' \in [UFLinks -> {"none", "ok", "failed", "stale"}]
    BY <1>1, <2>1, <2>3
  <2>5. q.at \in Leading /\ r.at \in Leading
    BY <2>1, <2>2 DEF Leading
  <2>q. QED
    BY <1>d, <2>1, <2>2, <2>3, <2>4, <2>5
<1>10. CASE Follow(c)
  <2>1. q.at = "landed" /\ UNCHANGED ufRows
        /\ \E row \in {q.row, "nil"} : ufReader' = [ufReader EXCEPT ![c] = Rendered(q, row)]
    BY <1>10 DEF Follow, Set
  <2>q. QED
    <3>1. PICK row \in {q.row, "nil"} : ufReader' = [ufReader EXCEPT ![c] = Rendered(q, row)]
      BY <2>1
    <3> DEFINE r == Rendered(q, row)
    <3>2. r \in PreviewRequest /\ r.at = "out" /\ r.got = q.got
      BY <1>a
    <3>3. q.at \in {"read", "landed"} /\ ufReader' = [ufReader EXCEPT ![c] = r]
      BY <2>1, <3>1
    <3> HIDE DEF r
    <3>q. QED
      BY <1>b, <2>1, <3>2, <3>3
<1>q. QED
  BY <1>3, <1>4, <1>5, <1>6, <1>7, <1>8, <1>9, <1>10

\* The inductive invariant of the readers, and what each step is to the flights.
LEMMA PreviewStep ==
  ASSUME Boarded, [UFNext]_ufVars
  PROVE  Boarded' /\ [Flights!Next]_Flights!sfVars
<1>1. ASSUME NEW k \in UFLinks, Age(k) PROVE Boarded' /\ UNCHANGED Flights!sfVars
  <2>1. ufRows' \in [UFLinks -> {"none", "ok", "failed", "stale"}] /\ UNCHANGED ufReader
    BY <1>1 DEF Age, Boarded, UFTypeOK
  <2>2. Boarded'
    BY <2>1 DEF Boarded, UFTypeOK, R, LeaderOf
  <2>3. UNCHANGED Flights!sfVars
    BY <2>1 DEF Flights!sfVars, R, LeaderOf, LeaderIn, AboardOf
  <2>q. QED
    BY <2>2, <2>3
<1>2. CASE UNCHANGED ufVars
  <2>1. Boarded'
    BY <1>2 DEF ufVars, Boarded, UFTypeOK, R, LeaderOf
  <2>2. UNCHANGED Flights!sfVars
    BY <1>2 DEF ufVars, Flights!sfVars, R, LeaderOf, LeaderIn, AboardOf
  <2>q. QED
    BY <2>1, <2>2
<1>3. ASSUME NEW c \in UFReaders, HandleUnfurl(c) \/ Leave(c) \/ Step(c)
      PROVE  Boarded' /\ [Flights!Next]_Flights!sfVars
  BY <1>3, QuietRequest, BoardStep, GiveUpStep, LandStep DEF Step
<1>q. QED
  BY <1>1, <1>2, <1>3 DEF UFNext

\* At first no one is on a flight.
LEMMA GroundedAtFirst == ASSUME UFInit PROVE Boarded /\ Flights!Init
<1> DEFINE no == FALSE  none == 0
           fresh == [at |-> "out", link |-> "-", leader |-> "-", gone |-> no, row |-> "-",
                     got |-> "-", blind |-> no, reply |-> "-", visits |-> none]
<1>1. Fresh = fresh /\ no \in BOOLEAN /\ none \in Nat
  BY DEF Fresh
<1> HIDE DEF no
<1> HIDE DEF none
<1>2. fresh \in PreviewRequest /\ fresh.at = "out" /\ fresh.got = "-"
  BY <1>1 DEF PreviewRequest
<1> HIDE DEF fresh
<1>3. \A c \in UFReaders : R(c) = fresh
  BY <1>1 DEF UFInit, R
<1>4. UFTypeOK
  BY <1>1, <1>2 DEF UFInit, UFTypeOK
<1>5. \A k \in UFLinks : LeaderOf(k) = {} /\ AboardOf(k) = {}
  BY <1>2, <1>3 DEF LeaderOf, AboardOf, Leading
<1>6. Boarded
  BY <1>2, <1>3, <1>4, <1>5 DEF Boarded
<1>7. Flights!Init
  BY <1>2, <1>3, <1>5 DEF Flights!Init, LeaderIn
<1>q. QED
  BY <1>6, <1>7

\* The inductive invariant of the previews: who waits for a link has a leader
\* whose fetch is on its way, and an answer that landed is its own.
THEOREM PreviewInvariance == UFSpec => []Boarded
<1>1. UFInit => Boarded
  BY GroundedAtFirst
<1>2. Boarded /\ [UFNext]_ufVars => Boarded'
  BY PreviewStep
<1>3. QED
  BY <1>1, <1>2, PTL DEF UFSpec

\* The refinement: every step of the previews is a step of a single flight per
\* link, or changes nothing of it (unfurl.go's use of singleflight).
THEOREM PreviewsCoalesce == UFSpec => UnfurlCoalesces
<1>1. UFInit => Flights!Init
  BY GroundedAtFirst
<1>2. Boarded /\ [UFNext]_ufVars => [Flights!Next]_Flights!sfVars
  BY PreviewStep
<1>3. QED
  BY <1>1, <1>2, PreviewInvariance, PTL DEF UFSpec, UnfurlCoalesces, Flights!Spec

-----------------------------------------------------------------------------
(* Settings: the votes on a setting.                                       *)

\* What a setting or a variable of the environment may hold is a value.
LEMMA ValuesAre ==
  /\ Absent \in Settable /\ Settable \subseteq AnyValue
  /\ \A w \in {"env", "legacy", "user"} : STPlain[w] \cup {Absent} \subseteq AnyValue
<1>1. \A w \in {"env", "legacy", "user"} : STPlain[w] \in {STPlain[v] : v \in DOMAIN STPlain}
  BY STAssumption
<1>q. QED
  BY <1>1 DEF AnyValue, Settable

\* A live row that is written with a value and a writer is a row.
LEMMA RowWritten ==
  ASSUME STTypeOK, NEW k \in STKeys, NEW v \in AnyValue,
         NEW src \in {"none", "legacy_sync", "demoted", "env_override", "resolved", "user"},
         stRow' = [stRow EXCEPT ![k] = [val |-> v, src |-> src]]
  PROVE  /\ stRow' \in [STKeys -> SettingRow]
         /\ stRow'[k].val = v /\ \A l \in STKeys \ {k} : stRow'[l] = stRow[l]
<1>1. [val |-> v, src |-> src] \in SettingRow
  BY DEF SettingRow
<1>q. QED
  BY <1>1 DEF STTypeOK

\* The latest vote is the value of one of the two.
LEMMA WinnerVoted ==
  ASSUME NEW user \in Ballot, NEW env \in Ballot
  PROVE  ResolveLatest(user, env) \in Settable
  BY DEF ResolveLatest, Ballot, Settable

\* A vote of the environment is a ballot of now, or the one it was, or none.
LEMMA EnvVoted ==
  ASSUME NEW old \in Ballot, NEW v \in Settable, NEW now \in Nat
  PROVE  /\ EnvVote(old, v, now) \in Ballot
         /\ EnvVote(old, v, now).val = v
         /\ v = Absent => EnvVote(old, v, now).at = 0
         /\ v \notin {Absent, old.val} => EnvVote(old, v, now).at = now
         /\ v # Absent /\ v = old.val => EnvVote(old, v, now) = old
<1>1. [val |-> v, at |-> now] \in Ballot /\ [val |-> Absent, at |-> 0] \in Ballot
  BY DEF Ballot, Settable
<1>q. QED
  BY <1>1 DEF EnvVote, NoVote, Vote, Ballot

\* Nothing is being saved at rest.
LEMMA AtRestSaved == AtRest \in SaveState /\ AtRest.pc = "idle" /\ AtRest.at = 0
<1>1. [managed |-> Absent, plain |-> Absent] \in Choices("user")
  BY ValuesAre DEF Choices
<1>q. QED
  BY <1>1 DEF AtRest, SaveState

\* The steps of a start keep the order of the votes.
LEMMA StartStep ==
  ASSUME VotesCounted, STStarting PROVE VotesCounted'
<1>0. STTypeOK /\ VotesInOrder /\ Reconciled
  BY DEF VotesCounted
<1>a. stVote["user"] \in Ballot /\ stVote["env"] \in Ballot /\ stEnv.managed \in Settable
      /\ stEnv.plain \in AnyValue
  BY <1>0, ValuesAre DEF STTypeOK, Choices
<1>1. CASE STBoot
  <2>1. stPhase' = "legacy" /\ stEnv' \in Choices("env") /\ stPhase = "down"
        /\ UNCHANGED <<stRow, stVote, stMem, stControl, stPages, stSave, stClock, stCast>>
    BY <1>1 DEF STBoot
  <2>2. STTypeOK'
    BY <1>0, <2>1 DEF STTypeOK
  <2>3. VotesInOrder'
    BY <1>0, <2>1 DEF VotesInOrder
  <2>4. Reconciled'
    BY <2>1 DEF Reconciled
  <2>q. QED
    BY <2>2, <2>3, <2>4 DEF VotesCounted
<1>2. CASE STLegacy
  <2>1. stPhase' = "demote" /\ stPhase = "legacy"
        /\ UNCHANGED <<stEnv, stVote, stMem, stControl, stPages, stSave, stClock, stCast>>
    BY <1>2 DEF STLegacy
  <2>2. stRow' \in [STKeys -> SettingRow] /\ stRow'["managed"] = stRow["managed"]
    <3>1. CASE UNCHANGED stRow
      BY <1>0, <3>1 DEF STTypeOK
    <3>2. ASSUME NEW v \in STPlain["legacy"],
                 stRow' = [stRow EXCEPT !["plain"] = [val |-> v, src |-> "legacy_sync"]]
          PROVE  stRow' \in [STKeys -> SettingRow] /\ stRow'["managed"] = stRow["managed"]
      BY <1>0, <3>2, RowWritten, ValuesAre DEF STKeys
    <3>q. QED
      BY <1>2, <3>1, <3>2 DEF STLegacy
  <2>3. STTypeOK'
    BY <1>0, <2>1, <2>2 DEF STTypeOK
  <2>4. VotesInOrder'
    BY <1>0, <2>1 DEF VotesInOrder
  <2>5. Reconciled'
    BY <2>1 DEF Reconciled
  <2>q. QED
    BY <2>3, <2>4, <2>5 DEF VotesCounted
<1>3. CASE STDemote
  <2>1. stPhase' = "override" /\ stPhase = "demote"
        /\ UNCHANGED <<stEnv, stVote, stMem, stControl, stPages, stSave, stClock, stCast>>
    BY <1>3 DEF STDemote
  <2>2. stRow' \in [STKeys -> SettingRow] /\ stRow'["managed"] = stRow["managed"]
    <3>1. CASE stRow' = stRow
      BY <1>0, <3>1 DEF STTypeOK
    <3>2. CASE stRow' = [stRow EXCEPT !["plain"].src = "demoted"]
      <4> DEFINE r == [stRow["plain"] EXCEPT !.src = "demoted"]
      <4>1. stRow["plain"] \in SettingRow
        BY <1>0 DEF STTypeOK, STKeys
      <4>2. r \in SettingRow
        BY <4>1 DEF SettingRow
      <4>3. stRow' = [stRow EXCEPT !["plain"] = r]
        BY <3>2
      <4> HIDE DEF r
      <4>q. QED
        BY <1>0, <4>2, <4>3 DEF STTypeOK, STKeys
    <3>q. QED
      BY <1>3, <3>1, <3>2 DEF STDemote, DemoteOrphans
  <2>3. STTypeOK'
    BY <1>0, <2>1, <2>2 DEF STTypeOK
  <2>4. VotesInOrder'
    BY <1>0, <2>1 DEF VotesInOrder
  <2>5. Reconciled'
    BY <2>1 DEF Reconciled
  <2>q. QED
    BY <2>3, <2>4, <2>5 DEF VotesCounted
<1>4. CASE STOverride
  <2>1. stPhase' = "stamp" /\ stPhase = "override" /\ stClock' = stClock + 1
        /\ UNCHANGED <<stEnv, stVote, stMem, stControl, stPages, stSave, stCast>>
    BY <1>4 DEF STOverride
  <2>2. /\ stRow' \in [STKeys -> SettingRow] /\ stRow'["managed"] = stRow["managed"]
        /\ stEnv.plain # Absent => stRow'["plain"].val = stEnv.plain
    <3>1. CASE stEnv.plain = Absent
      BY <1>0, <1>4, <3>1 DEF STOverride, STTypeOK
    <3>2. CASE stEnv.plain # Absent
      <4>1. stRow' = [stRow EXCEPT !["plain"] = [val |-> stEnv.plain, src |-> "env_override"]]
        BY <1>4, <3>2 DEF STOverride
      <4>q. QED
        BY <1>0, <1>a, <4>1, RowWritten DEF STKeys
    <3>q. QED
      BY <3>1, <3>2
  <2>3. STTypeOK'
    BY <1>0, <2>1, <2>2 DEF STTypeOK
  <2>4. VotesInOrder'
    BY <1>0, <1>a, <2>1 DEF VotesInOrder, STTypeOK, Ballot, SaveState
  <2>5. Reconciled'
    BY <2>1, <2>2 DEF Reconciled
  <2>q. QED
    BY <2>3, <2>4, <2>5 DEF VotesCounted
<1>5. CASE STStamp
  <2> DEFINE env == EnvVote(stVote["env"], stEnv.managed, stClock)
  <2>1. /\ stPhase' = "resolve" /\ stPhase = "stamp" /\ stVote' = [stVote EXCEPT !["env"] = env]
        /\ UNCHANGED <<stRow, stEnv, stMem, stControl, stPages, stSave, stClock, stOk>>
        /\ stCast' = IF stEnv.managed \notin {Absent, stVote["env"].val} THEN {} ELSE stCast
    BY <1>5 DEF STStamp
  <2>2. /\ env \in Ballot /\ env.val = stEnv.managed
        /\ stEnv.managed = Absent => env.at = 0
        /\ stEnv.managed \notin {Absent, stVote["env"].val} => env.at = stClock
        /\ stEnv.managed # Absent /\ stEnv.managed = stVote["env"].val => env = stVote["env"]
    BY <1>0, <1>a, EnvVoted DEF STTypeOK
  <2> HIDE DEF env
  <2>3. stVote'["env"] = env /\ stVote'["user"] = stVote["user"]
    BY <1>0, <2>1 DEF STTypeOK
  <2>4. STTypeOK'
    BY <1>0, <2>1, <2>2 DEF STTypeOK
  <2>5. \A s \in STSavers : stSave[s].pc = "idle" /\ stSave[s].at <= stClock
    BY <1>0, <2>1 DEF VotesInOrder
  <2>6. VotesInOrder'
    <3>1. stVote'["user"].at <= stClock' /\ stVote'["env"].at <= stClock'
      BY <1>0, <1>a, <2>1, <2>2, <2>3 DEF VotesInOrder, STTypeOK, Ballot
    <3>2. stCast' # {} => /\ env.at <= stVote["user"].at
                          /\ \E c \in stCast' : c.val = stVote["user"].val
      BY <1>0, <1>a, <2>1, <2>2 DEF VotesInOrder, Ballot
    <3>3. stCast' = {} /\ env.val # Absent => stVote["user"].val = Absent \/ stVote["user"].at < env.at
      <4>1. CASE stEnv.managed \notin {Absent, stVote["env"].val}
        BY <1>0, <2>1, <2>2, <4>1 DEF VotesInOrder
      <4>2. CASE stEnv.managed = Absent
        BY <2>2, <4>2
      <4>3. CASE stEnv.managed # Absent /\ stEnv.managed = stVote["env"].val
        BY <1>0, <2>1, <2>2, <4>3 DEF VotesInOrder
      <4>q. QED
        BY <4>1, <4>2, <4>3
    <3>q. QED
      BY <2>1, <2>3, <2>5, <3>1, <3>2, <3>3 DEF VotesInOrder
  <2>7. Reconciled'
    BY <1>0, <2>1, <2>2, <2>3 DEF Reconciled
  <2>q. QED
    BY <2>4, <2>6, <2>7 DEF VotesCounted
<1>6. CASE STResolve
  <2> DEFINE eff == ResolveLatest(stVote["user"], stVote["env"])
  <2>1. /\ stPhase' = "load" /\ stPhase = "resolve"
        /\ UNCHANGED <<stVote, stEnv, stMem, stControl, stPages, stSave, stClock, stCast, stOk>>
        /\ stRow' = IF eff \in {Absent, stRow["managed"].val} THEN stRow
                    ELSE [stRow EXCEPT !["managed"] = [val |-> eff, src |-> "resolved"]]
    BY <1>6 DEF STResolve
  <2>2. eff \in Settable
    BY <1>a, WinnerVoted
  <2> HIDE DEF eff
  <2>3. /\ stRow' \in [STKeys -> SettingRow] /\ stRow'["managed"].val \in Settable
        /\ eff \in {Absent, stRow'["managed"].val} /\ stRow'["plain"] = stRow["plain"]
    <3>1. CASE eff \in {Absent, stRow["managed"].val}
      BY <1>0, <2>1, <3>1 DEF STTypeOK
    <3>2. CASE eff \notin {Absent, stRow["managed"].val}
      BY <1>0, <2>1, <2>2, <3>2, RowWritten, ValuesAre DEF STKeys
    <3>q. QED
      BY <3>1, <3>2
  <2>4. STTypeOK'
    BY <1>0, <2>1, <2>3 DEF STTypeOK
  <2>5. VotesInOrder'
    BY <1>0, <2>1 DEF VotesInOrder
  <2>6. Reconciled'
    BY <1>0, <2>1, <2>3 DEF Reconciled, eff
  <2>q. QED
    BY <2>4, <2>5, <2>6 DEF VotesCounted
<1>7. CASE STStartFails
  <2>1. /\ stPhase \in {"demote", "override", "stamp", "resolve"}
        /\ stPhase' = CASE stPhase = "demote" -> "override"
                         [] stPhase = "override" -> "stamp"
                         [] OTHER -> "load"
        /\ stClock' = IF stPhase = "override" THEN stClock + 1 ELSE stClock
        /\ stOk' = FALSE
        /\ UNCHANGED <<stRow, stVote, stEnv, stMem, stControl, stPages, stSave, stCast>>
    BY <1>7 DEF STStartFails
  <2>2. /\ stPhase' \in {"override", "stamp", "load"} /\ stClock' \in Nat /\ stClock <= stClock'
        /\ stPhase' = "stamp" => stClock' = stClock + 1
    BY <1>0, <2>1 DEF STTypeOK
  <2>3. STTypeOK'
    BY <1>0, <2>1, <2>2 DEF STTypeOK
  <2>4. VotesInOrder'
    BY <1>0, <1>a, <2>1, <2>2 DEF VotesInOrder, STTypeOK, Ballot, SaveState
  <2>5. Reconciled'
    BY <2>1 DEF Reconciled
  <2>q. QED
    BY <2>3, <2>4, <2>5 DEF VotesCounted
<1>8. CASE STLoad
  <2>1. /\ stPhase' = "up" /\ stPhase = "load" /\ stMem' = [k \in STKeys |-> stRow[k].val]
        /\ stControl' = stRow["managed"].val
        /\ UNCHANGED <<stRow, stVote, stEnv, stPages, stSave, stClock, stCast>>
    BY <1>8 DEF STLoad
  <2>2. \A k \in STKeys : stRow[k].val \in AnyValue
    BY <1>0 DEF STTypeOK, SettingRow
  <2>3. STTypeOK'
    BY <1>0, <2>1, <2>2 DEF STTypeOK
  <2>4. VotesInOrder'
    BY <1>0, <2>1 DEF VotesInOrder
  <2>5. Reconciled'
    BY <2>1 DEF Reconciled
  <2>q. QED
    BY <2>3, <2>4, <2>5 DEF VotesCounted
<1>9. CASE STStop
  <2>1. /\ stPhase' = "down" /\ stMem' = [k \in STKeys |-> Absent] /\ stControl' = Absent
        /\ stSave' = [s \in STSavers |-> AtRest]
        /\ UNCHANGED <<stRow, stVote, stEnv, stPages, stClock, stCast>>
    BY <1>9 DEF STStop
  <2>2. STTypeOK'
    BY <1>0, <2>1, ValuesAre, AtRestSaved DEF STTypeOK
  <2>3. VotesInOrder'
    BY <1>0, <2>1, AtRestSaved DEF VotesInOrder, STTypeOK
  <2>4. Reconciled'
    BY <2>1 DEF Reconciled
  <2>q. QED
    BY <2>2, <2>3, <2>4 DEF VotesCounted
<1>10. CASE STView
  <2>1. /\ stPages' = {stMem["plain"]}
        /\ UNCHANGED <<stRow, stVote, stEnv, stMem, stControl, stPhase, stSave, stClock, stCast, stOk>>
    BY <1>10 DEF STView
  <2>2. STTypeOK'
    BY <1>0, <2>1 DEF STTypeOK, STKeys
  <2>3. VotesInOrder' /\ Reconciled'
    BY <1>0, <2>1 DEF VotesInOrder, Reconciled
  <2>q. QED
    BY <2>2, <2>3 DEF VotesCounted
<1>q. QED
  BY <1>1, <1>2, <1>3, <1>4, <1>5, <1>6, <1>7, <1>8, <1>9, <1>10 DEF STStarting

\* The steps of a save keep the order of the votes.
LEMMA SaveStep ==
  ASSUME VotesCounted, NEW s \in STSavers, STSaving(s) PROVE VotesCounted'
<1>0. STTypeOK /\ VotesInOrder /\ Reconciled
  BY DEF VotesCounted
<1>a. stVote["user"] \in Ballot /\ stVote["env"] \in Ballot
  BY <1>0 DEF STTypeOK
<1>b. /\ stSave[s] \in SaveState
      /\ stSave[s].new.managed \in Settable /\ stSave[s].new.plain \in AnyValue
  BY <1>0, ValuesAre DEF STTypeOK, SaveState, Choices
<1>c. ASSUME NEW pc \in {"batch", "memory", "swap", "sweep"}, stPhase = "up",
             stSave' = [stSave EXCEPT ![s].pc = pc] \/ stSave' = [stSave EXCEPT ![s] = AtRest],
             UNCHANGED <<stPhase, stVote, stClock, stCast>>
      PROVE  stSave' \in [STSavers -> SaveState] /\ VotesInOrder' /\ Reconciled'
  <2> DEFINE r == [stSave[s] EXCEPT !.pc = pc]
  <2>1. r \in SaveState /\ r.at = stSave[s].at /\ r.pc = pc
    BY <1>b DEF SaveState
  <2>2. stSave' = [stSave EXCEPT ![s] = r] \/ stSave' = [stSave EXCEPT ![s] = AtRest]
    BY <1>c
  <2> HIDE DEF r
  <2>3. stSave' \in [STSavers -> SaveState]
    BY <1>0, <2>1, <2>2, AtRestSaved DEF STTypeOK
  <2>4. \A i \in STSavers : stSave'[i] = stSave[i] \/ (stSave'[i].pc # "vote" /\ stSave'[i].at <= stClock)
    BY <1>0, <2>1, <2>2, AtRestSaved DEF STTypeOK, VotesInOrder
  <2>5. VotesInOrder'
    BY <1>0, <1>c, <2>4 DEF VotesInOrder
  <2>6. Reconciled'
    BY <1>c DEF Reconciled
  <2>q. QED
    BY <2>3, <2>5, <2>6
<1>1. CASE STPost(s)
  <2>1. PICK new \in Choices("user") :
          stSave' = [stSave EXCEPT ![s] = [pc |-> IF Changed(s, new) THEN "vote" ELSE "batch",
                                           new |-> new, at |-> stClock + 1]]
    BY <1>1 DEF STPost
  <2>2. /\ stPhase = "up" /\ stClock' = stClock + 1
        /\ UNCHANGED <<stRow, stVote, stEnv, stMem, stControl, stPages, stPhase, stCast, stOk>>
    BY <1>1 DEF STPost
  <2> DEFINE pc == IF Changed(s, new) THEN "vote" ELSE "batch"
             at == stClock + 1
             r == [pc |-> pc, new |-> new, at |-> at]
  <2>3. pc \in {"vote", "batch"} /\ (pc = "vote" => new.managed # Absent)
    BY DEF Changed
  <2>4. at \in Nat /\ stClock <= at
    BY <1>0 DEF STTypeOK
  <2> HIDE DEF pc
  <2> HIDE DEF at
  <2>5. r \in SaveState
    BY <2>3, <2>4 DEF SaveState
  <2>6. stSave' = [stSave EXCEPT ![s] = r]
    BY <2>1 DEF pc, at
  <2>7. STTypeOK'
    <3> HIDE DEF r
    <3>q. QED
      BY <1>0, <2>2, <2>4, <2>5, <2>6 DEF STTypeOK
  <2>8. stSave'[s].pc = pc /\ stSave'[s].at = at /\ stSave'[s].new = new
    BY <1>0, <2>6 DEF STTypeOK
  <2>9. stClock' = at
    BY <2>2 DEF at
  <2>10. \A i \in STSavers \ {s} : stSave'[i] = stSave[i]
    BY <1>0, <2>6 DEF STTypeOK
  <2>11. \A i \in STSavers : stSave[i].at \in Nat
    BY <1>0 DEF STTypeOK, SaveState
  <2>12. stClock \in Nat
    BY <1>0 DEF STTypeOK
  <2> HIDE DEF r
  <2>13. VotesInOrder'
    <3>1. ASSUME NEW i \in STSavers
          PROVE  /\ stSave'[i].at <= stClock'
                 /\ stSave'[i].pc = "vote" => stSave'[i].new.managed # Absent
                                              /\ stVote["env"].at <= stSave'[i].at
      <4>1. CASE i = s
        BY <1>0, <1>a, <2>3, <2>4, <2>8, <2>9, <2>12, <4>1 DEF VotesInOrder, Ballot
      <4>2. CASE i # s
        BY <1>0, <2>4, <2>9, <2>10, <2>11, <2>12, <4>2 DEF VotesInOrder
      <4>q. QED
        BY <4>1, <4>2
    <3>2. stVote["user"].at <= stClock' /\ stVote["env"].at <= stClock'
      BY <1>0, <1>a, <2>4, <2>9, <2>12 DEF VotesInOrder, Ballot
    <3>q. QED
      BY <1>0, <2>2, <3>1, <3>2 DEF VotesInOrder
  <2>14. Reconciled'
    BY <1>0, <2>2 DEF Reconciled
  <2>q. QED
    BY <2>7, <2>13, <2>14 DEF VotesCounted
<1>2. CASE STVote(s)
  <2> DEFINE v == stSave[s].new.managed
             at == stSave[s].at
             c == [by |-> s, val |-> v, at |-> at]
             r == [stSave[s] EXCEPT !.pc = "batch"]
  <2>1. /\ stVote' = [stVote EXCEPT !["user"] = [val |-> v, at |-> at]]
        /\ stCast' = (stCast \ stEnded[s]) \cup {c}
        /\ stSave' = [stSave EXCEPT ![s] = r] /\ stSave[s].pc = "vote"
        /\ UNCHANGED <<stRow, stEnv, stMem, stControl, stPages, stPhase, stClock>>
    BY <1>2 DEF STVote, Vote
  <2>2. /\ v \in STValues /\ at \in Nat /\ at <= stClock /\ stVote["env"].at <= at /\ stPhase = "up"
    BY <1>0, <1>b, <2>1 DEF VotesInOrder, Settable, SaveState
  <2>3. r \in SaveState /\ r.pc = "batch" /\ r.at = at
    BY <1>b DEF SaveState
  <2> HIDE DEF v, at, r
  <2>4. [val |-> v, at |-> at] \in Ballot /\ c \in [by : STSavers, val : STValues, at : Nat]
    BY <2>2 DEF Ballot, Settable
  <2>5. stVote'["env"] = stVote["env"] /\ stVote'["user"].val = v /\ stVote'["user"].at = at
    BY <1>0, <2>1 DEF STTypeOK
  <2>6. STTypeOK'
    BY <1>0, <2>1, <2>3, <2>4 DEF STTypeOK
  <2>7. c \in stCast' /\ c.val = v
    BY <2>1
  <2>8. \A i \in STSavers : stSave'[i] = stSave[i] \/ (stSave'[i].pc = "batch" /\ stSave'[i].at <= stClock)
    BY <1>0, <2>1, <2>2, <2>3 DEF STTypeOK
  <2> HIDE DEF c
  <2>9. VotesInOrder'
    BY <1>0, <2>1, <2>2, <2>5, <2>7, <2>8 DEF VotesInOrder
  <2>10. Reconciled'
    BY <2>1, <2>2 DEF Reconciled
  <2>q. QED
    BY <2>6, <2>9, <2>10 DEF VotesCounted
<1>3. CASE STVoteLost(s) \/ STBatchFails(s)
  <2>1. /\ stSave' = [stSave EXCEPT ![s].pc = "batch"] \/ stSave' = [stSave EXCEPT ![s] = AtRest]
        /\ stSave[s].pc # "idle"
        /\ UNCHANGED <<stRow, stVote, stEnv, stMem, stControl, stPages, stPhase, stClock, stCast>>
    BY <1>3 DEF STVoteLost, STBatchFails
  <2>2. stPhase = "up"
    BY <1>0, <2>1 DEF VotesInOrder
  <2>q. QED
    BY <1>0, <1>c, <2>1, <2>2 DEF VotesCounted, STTypeOK
<1>4. CASE STBatch(s)
  <2>1. /\ stSave' = [stSave EXCEPT ![s].pc = "memory"] /\ stSave[s].pc # "idle"
        /\ stRow' = [k \in STKeys |-> IF stSave[s].new[k] = Absent THEN stRow[k]
                                      ELSE [val |-> stSave[s].new[k], src |-> "user"]]
        /\ UNCHANGED <<stVote, stEnv, stMem, stControl, stPages, stPhase, stClock, stCast>>
    BY <1>4 DEF STBatch
  <2>2. stPhase = "up"
    BY <1>0, <2>1 DEF VotesInOrder
  <2>3. \A k \in STKeys : stSave[s].new[k] \in AnyValue
    BY <1>b, ValuesAre DEF STKeys
  <2>4. ASSUME NEW k \in STKeys PROVE stRow'[k] \in SettingRow
    <3>1. CASE stSave[s].new[k] = Absent
      BY <1>0, <2>1, <3>1 DEF STTypeOK
    <3>2. CASE stSave[s].new[k] # Absent
      <4> DEFINE v == stSave[s].new[k]
      <4>1. stRow'[k] = [val |-> v, src |-> "user"] /\ v \in AnyValue
        BY <2>1, <2>3, <3>2
      <4> HIDE DEF v
      <4>q. QED
        BY <4>1 DEF SettingRow
    <3>q. QED
      BY <3>1, <3>2
  <2>5. stRow'["managed"].val \in Settable
    BY <1>0, <1>b, <2>1 DEF STTypeOK, STKeys
  <2>6. stRow' \in [STKeys -> SettingRow]
    BY <2>1, <2>4
  <2>q. QED
    BY <1>0, <1>c, <2>1, <2>2, <2>5, <2>6 DEF VotesCounted, STTypeOK
<1>5. CASE STRemember(s)
  <2>1. /\ stSave' = [stSave EXCEPT ![s].pc = "swap"] /\ stSave[s].pc # "idle"
        /\ stMem' = [k \in STKeys |-> IF stSave[s].new[k] = Absent THEN stMem[k] ELSE stSave[s].new[k]]
        /\ UNCHANGED <<stRow, stVote, stEnv, stControl, stPages, stPhase, stClock, stCast>>
    BY <1>5 DEF STRemember
  <2>2. stPhase = "up"
    BY <1>0, <2>1 DEF VotesInOrder
  <2>3. stSave[s].new["managed"] \in AnyValue /\ stSave[s].new["plain"] \in AnyValue
    BY <1>b, ValuesAre
  <2>4. stMem' \in [STKeys -> AnyValue]
    BY <1>0, <2>1, <2>3 DEF STTypeOK, STKeys
  <2>q. QED
    BY <1>0, <1>c, <2>1, <2>2, <2>4 DEF VotesCounted, STTypeOK
<1>6. CASE STSwap(s)
  <2>1. /\ stSave' = [stSave EXCEPT ![s].pc = "sweep"] /\ stSave[s].pc # "idle"
        /\ stControl' \in {stControl, stSave[s].new.managed}
        /\ UNCHANGED <<stRow, stVote, stEnv, stMem, stPages, stPhase, stClock, stCast>>
    BY <1>6 DEF STSwap
  <2>2. stPhase = "up"
    BY <1>0, <2>1 DEF VotesInOrder
  <2>q. QED
    BY <1>0, <1>b, <1>c, <2>1, <2>2 DEF VotesCounted, STTypeOK
<1>7. CASE STSweep(s)
  <2>1. /\ stSave' = [stSave EXCEPT ![s] = AtRest] /\ stSave[s].pc # "idle"
        /\ stPages' \in {{}, stPages}
        /\ UNCHANGED <<stRow, stVote, stEnv, stMem, stControl, stPhase, stClock, stCast>>
    BY <1>7 DEF STSweep
  <2>2. stPhase = "up"
    BY <1>0, <2>1 DEF VotesInOrder
  <2>q. QED
    BY <1>0, <1>c, <2>1, <2>2 DEF VotesCounted, STTypeOK
<1>q. QED
  BY <1>1, <1>2, <1>3, <1>4, <1>5, <1>6, <1>7 DEF STSaving

\* The inductive invariant of the settings: every vote that is stored is one
\* that was cast, and a start reconciles them in order (config.go).
THEOREM SettingsInvariance == STSpec => []VotesCounted
<1>1. STInit => VotesCounted
  <2> SUFFICES ASSUME STInit PROVE VotesCounted
    OBVIOUS
  <2>1. [val |-> Absent, src |-> "none"] \in SettingRow /\ [val |-> Absent, at |-> 0] \in Ballot
    BY ValuesAre DEF SettingRow, Ballot
  <2>2. /\ stVote["user"] = [val |-> Absent, at |-> 0] /\ stVote["env"] = [val |-> Absent, at |-> 0]
        /\ stRow["managed"].val = Absent /\ stCast = {} /\ stPhase = "down" /\ stClock = 0
        /\ stSave = [s \in STSavers |-> AtRest]
    BY DEF STInit, NoVote, NoRow, STKeys
  <2>3. STTypeOK
    BY <2>1, <2>2, ValuesAre, AtRestSaved DEF STInit, STTypeOK, NoVote, NoRow, STKeys, Choices
  <2>4. VotesInOrder
    BY <2>2, AtRestSaved DEF VotesInOrder
  <2>5. Reconciled
    BY <2>2 DEF Reconciled
  <2>q. QED
    BY <2>3, <2>4, <2>5 DEF VotesCounted
<1>2. VotesCounted /\ [STNext]_stVars => VotesCounted'
  <2>1. CASE UNCHANGED stVars
    BY <2>1 DEF stVars, VotesCounted, STTypeOK, VotesInOrder, Reconciled
  <2>q. QED
    BY <2>1, StartStep, SaveStep DEF STNext
<1>3. QED
  BY <1>1, <1>2, PTL DEF STSpec

\* After a start that met no error, a setting holds the latest of the votes of
\* the environment and the user, or the plain value where nobody voted.
THEOREM LatestVoteIsKept == STSpec => []LatestVoteWins
<1>1. VotesCounted => LatestVoteWins
  <2> SUFFICES ASSUME VotesCounted, stPhase = "load", stOk PROVE LatestVoteWins
    BY DEF LatestVoteWins
  <2>1. stVote["user"] \in Ballot /\ stVote["env"] \in Ballot
    BY DEF VotesCounted, STTypeOK
  <2>2. /\ stVote["env"].val = stEnv.managed
        /\ ResolveLatest(stVote["user"], stVote["env"]) \in {Absent, stRow["managed"].val}
        /\ stEnv.plain # Absent => stRow["plain"].val = stEnv.plain
    BY DEF VotesCounted, Reconciled
  <2>3. ASSUME stCast # {} PROVE stRow["managed"].val \in {c.val : c \in stCast}
    <3>1. PICK c \in stCast : c.val = stVote["user"].val
      BY <2>3 DEF VotesCounted, VotesInOrder
    <3>2. c.val # Absent
      BY STAssumption DEF VotesCounted, STTypeOK
    <3>3. ~(stVote["env"].at > stVote["user"].at)
      BY <2>1, <2>3 DEF VotesCounted, VotesInOrder, Ballot
    <3>q. QED
      BY <2>2, <3>1, <3>2, <3>3 DEF ResolveLatest
  <2>4. ASSUME stCast = {}, stEnv.managed # Absent PROVE stRow["managed"].val = stEnv.managed
    <3>1. stVote["user"].val = Absent \/ stVote["env"].at > stVote["user"].at
      BY <2>1, <2>2, <2>4 DEF VotesCounted, VotesInOrder, Ballot
    <3>q. QED
      BY <2>2, <2>4, <3>1 DEF ResolveLatest
  <2>q. QED
    BY <2>2, <2>3, <2>4 DEF LatestVoteWins
<1>2. QED
  BY <1>1, SettingsInvariance, PTL

-----------------------------------------------------------------------------
(* PostMedia: the files of a kept post.                                    *)

\* An address of this site leads where it was taken from: the key under which
\* the request looks is the key under which the prefetcher keeps.
LEMMA RoutesAgree ==
  ASSUME NEW u, u.host \in Ours
  PROVE  Routed(u) /\ CanonicalKey(Served(u)) = CanonicalKey(UnformatURL(u))
<1>1. Routed(u)
  BY DEF Routed, Ours, VideoRoutes
<1>2. (IF u.host \in VideoRoutes THEN "v.redd.it" ELSE pathToCDNURL(u.host)) = Remote(u.host)
  BY DEF Ours, VideoRoutes, pathToCDNURL, Remote
<1>3. Served(u) = UnformatURL(u)
  BY <1>2 DEF Served, UnformatURL
<1>q. QED
  BY <1>1, <1>3

\* A file of Reddit's hosts gets an address of this site.
LEMMA FormattedIsOurs ==
  ASSUME NEW u, Hosted(u, Thumbs) \/ Hosted(u, {"v.redd.it"}), FormatURL(u) # None
  PROVE  FormatURL(u).host \in Ours
<1>1. u # None /\ Address(u)
  BY DEF Hosted, FormatURL
<1>2. ASSUME NEW h PROVE [u EXCEPT !.host = h].host = h
  BY <1>1 DEF Address
<1>3. CASE u.host = "v.redd.it"
  BY <1>1, <1>2, <1>3 DEF FormatURL, Ours, VideoRoutes
<1>4. CASE u.host \in Thumbs
  <2>1. Local(u.host) \in Ours
    BY <1>4 DEF Thumbs, Photos, Local, Pages, Ours
  <2>2. FormatURL(u) = [u EXCEPT !.host = Local(u.host)]
    BY <1>1, <1>4 DEF FormatURL, Thumbs, Photos
  <2>q. QED
    BY <1>2, <2>1, <2>2
<1>q. QED
  BY <1>1, <1>3, <1>4 DEF Hosted

\* Every file of an archived post has an address of this site.
LEMMA PartsAreOurs ==
  ASSUME NEW d, Payload(d)
  PROVE  \A u \in Parts(buildPost(d)) \ {None} : u.host \in Ours
<1> DEFINE m == parseMedia(d)
<1>1. /\ Hosted(d.source, Thumbs) /\ Hosted(d.mp4, Thumbs) /\ Hosted(d.thumb, Thumbs)
      /\ \A u \in d.items : Hosted(u, Thumbs)
      /\ d.parent # None => Hosted(d.parent.source, Thumbs) /\ \A u \in d.parent.items : Hosted(u, Thumbs)
  BY DEF Payload, Hosted, Thumbs
<1>2. /\ d.preview # None => Hosted(d.preview.url, {"v.redd.it"})
      /\ d.secure # None => Hosted(d.secure.url, {"v.redd.it"})
      /\ d.parent # None /\ d.parent.secure # None => Hosted(d.parent.secure.url, {"v.redd.it"})
  BY DEF Payload, Clipped
<1>3. ASSUME NEW v, Hosted(v.url, {"v.redd.it"}), NEW poster, Hosted(poster, Thumbs), m = Video(v, poster)
      PROVE  \A u \in {m.url, m.poster} \ {None} : u.host \in Ours
  BY <1>3, FormattedIsOurs DEF Video
<1>4. ASSUME d.hint, m = Image(d)
      PROVE  \A u \in {m.url, m.poster} \ {None} : u.host \in Ours
  <2>1. CASE d.mp4 # None
    BY <1>1, <1>4, <2>1, FormattedIsOurs DEF Image, Plain
  <2>2. CASE d.mp4 = None
    <3>1. d.url.host = "i.redd.it" => Hosted(d.url, Thumbs)
      BY DEF Payload, Hosted, Thumbs, Photos
    <3>q. QED
      BY <1>1, <1>4, <2>2, <3>1, FormattedIsOurs DEF Image, Plain
  <2>q. QED
    BY <2>1, <2>2
<1>5. \A u \in {m.poster} \cup (IF m.type # "link" THEN {m.url} ELSE {}) : u # None => u.host \in Ours
  <2>1. CASE d.preview # None
    BY <1>1, <1>2, <1>3, <2>1 DEF parseMedia
  <2>2. CASE d.preview = None /\ d.secure # None
    BY <1>1, <1>2, <1>3, <2>2 DEF parseMedia
  <2>3. CASE d.preview = None /\ d.secure = None /\ d.parent # None /\ d.parent.secure # None
    BY <1>1, <1>2, <1>3, <2>3 DEF parseMedia
  <2>4. CASE /\ d.preview = None /\ d.secure = None /\ ~(d.parent # None /\ d.parent.secure # None)
             /\ d.hint
    BY <1>4, <2>4 DEF parseMedia
  <2>5. CASE /\ d.preview = None /\ d.secure = None /\ ~(d.parent # None /\ d.parent.secure # None)
             /\ ~d.hint
    <3>1. \/ m = Plain("self", None) \/ m = Plain("gallery", None) \/ m = Plain("link", d.url)
          \/ d.url.host = "i.redd.it" /\ m = Plain("image", FormatURL(d.url))
      <4>1. m = CASE d.self -> Plain("self", None)
                  [] ~d.self /\ (d.isGallery \/ (d.parent # None /\ d.parent.isGallery)) -> Plain("gallery", None)
                  [] OTHER -> IF d.url.host = "i.redd.it" THEN Plain("image", FormatURL(d.url)) ELSE Plain("link", d.url)
        BY <2>5 DEF parseMedia
      <4> HIDE DEF m
      <4>q. QED
        BY <4>1
    <3>2. CASE m = Plain("self", None) \/ m = Plain("gallery", None) \/ m = Plain("link", d.url)
      BY <3>2 DEF Plain
    <3>3. CASE d.url.host = "i.redd.it" /\ m = Plain("image", FormatURL(d.url))
      <4>1. Hosted(d.url, Thumbs)
        BY <3>3 DEF Payload, Hosted, Thumbs, Photos
      <4>q. QED
        BY <3>3, <4>1, FormattedIsOurs DEF Plain
    <3>q. QED
      BY <3>1, <3>2, <3>3
  <2>q. QED
    BY <2>1, <2>2, <2>3, <2>4, <2>5
<1>6. \A u \in parseGallery(d) : u # None => u.host \in Ours
  BY <1>1, FormattedIsOurs DEF parseGallery
<1>7. FormatURL(d.thumb) # None => FormatURL(d.thumb).host \in Ours
  BY <1>1, FormattedIsOurs
<1> DEFINE p == buildPost(d)
<1>8. p.poster = m.poster /\ p.type = m.type /\ p.media = m.url /\ p.thumb = FormatURL(d.thumb)
      /\ p.gallery = parseGallery(d)
  BY DEF buildPost
<1> HIDE DEF m, p
<1>q. QED
  BY <1>5, <1>6, <1>7, <1>8 DEF Parts, p

\* A picture pasted into a text is under the key it is looked for.
LEMMA PastedIsGathered ==
  ASSUME NEW links, NEW u \in Embedded(links)
  PROVE  Routed(u) /\ CanonicalKey(Served(u)) \in Keys(commentMediaURLs(links))
<1>1. u.host \in Ours /\ UnformatURL(u) \in ExtractBodyImageURLs(links)
  BY DEF Embedded, ExtractBodyImageURLs, Pictures, Ours
<1>q. QED
  BY <1>1, RoutesAgree DEF Keys, commentMediaURLs

\* What a page or a card asks for is what the prefetcher gathers.
LEMMA ShownIsGathered ==
  ASSUME NEW p, \A u \in Parts(p) \ {None} : u.host \in Ours,
         NEW u \in postDetail(p, 0) \cup Cards(p, 0)
  PROVE  Routed(u) /\ CanonicalKey(Served(u)) \in Keys(ExtractMediaItems(p))
<1> DEFINE parts == ({p.poster} \cup p.gallery
                       \cup (IF p.type # "link" THEN {p.media} ELSE {})
                       \cup (IF p.type \notin {"image", "video", "gif", "self"} THEN {p.thumb} ELSE {})) \ {None}
<1>1. VideoQualityURL(p.media, 0) = p.media
  BY DEF VideoQualityURL
<1>2. u # None
  BY DEF postDetail, Cards
<1>3. ShowsImage(p) \cup ShowsVideo(p, 0) \cup ShowsGallery(p) \subseteq parts \cup {None}
  BY <1>1 DEF ShowsImage, ShowsVideo, ShowsGallery
<1>4. CardImage(p) \cup CardGif(p, 0) \cup CardVideo(p, 0) \cup CardGallery(p) \subseteq parts \cup {None}
  BY <1>1 DEF CardImage, CardGif, CardVideo, CardGallery
<1>5. p.type # "self" => CardThumbnail(p) \subseteq parts \cup {None}
  <2>1. p.type \notin {"link", "self"} => listingPreviewURL(p) = {}
    BY DEF listingPreviewURL
  <2>q. QED
    BY <2>1 DEF CardThumbnail
<1>6. u \in parts \/ u \in Embedded(p.links)
  BY <1>2, <1>3, <1>4, <1>5 DEF postDetail, Cards
<1>7. CASE u \in parts
  <2>1. u \in Parts(p) \ {None}
    BY <1>7 DEF Parts
  <2>2. Routed(u) /\ CanonicalKey(Served(u)) = CanonicalKey(UnformatURL(u))
    BY <2>1, RoutesAgree
  <2>3. UnformatURL(u) \in Gathered(p)
    BY <1>7 DEF Gathered
  <2>q. QED
    BY <2>2, <2>3 DEF Keys, ExtractMediaItems
<1>8. CASE u \in Embedded(p.links)
  BY <1>8, PastedIsGathered DEF Keys, ExtractMediaItems, commentMediaURLs
<1>q. QED
  BY <1>6, <1>7, <1>8

\* An edit leaves a post one that Reddit can hold.
LEMMA EditedPayload ==
  ASSUME NEW d, Payload(d), NEW links PROVE Payload([d EXCEPT !.links = links])
<1> DEFINE e == [d EXCEPT !.links = links]
<1>1. /\ DOMAIN e = DOMAIN d /\ e.preview = d.preview /\ e.secure = d.secure /\ e.thumb = d.thumb
      /\ e.url = d.url /\ e.source = d.source /\ e.mp4 = d.mp4 /\ e.items = d.items /\ e.parent = d.parent
  BY DEF Payload
<1> HIDE DEF e
<1>2. Payload(e)
  BY <1>1 DEF Payload
<1>q. QED
  BY <1>2 DEF e

\* Every step keeps what was seen when a post was marked done, and the wave
\* that will mark it next.
LEMMA PostStep == ASSUME PostsKept, [PMNext]_pmVars PROVE PostsKept'
<1>1. CASE Archive
  <2>1. /\ pmPost' = buildPost(pmData.post)
        /\ UNCHANGED <<pmData, pmThread, pmKept, pmDone, pmWave, pmSeen, pmTold>>
    BY <1>1 DEF Archive
  <2>2. \A u \in Parts(pmPost') \ {None} : u.host \in Ours
    BY <2>1, PartsAreOurs DEF PostsKept
  <2>q. QED
    BY <2>1, <2>2 DEF PostsKept, HasRead, Needed
<1>2. CASE BeginWave
  <2>1. /\ pmWave' = [at |-> "listed", post |-> pmPost, thread |-> {}]
        /\ UNCHANGED <<pmData, pmPost, pmThread, pmKept, pmDone, pmSeen, pmTold>>
    BY <1>2 DEF BeginWave
  <2>2. ~HasRead' /\ DOMAIN pmWave' = {"at", "post", "thread"}
    BY <2>1 DEF HasRead
  <2>q. QED
    BY <2>1, <2>2 DEF PostsKept, Needed
<1>3. CASE Harvest
  <2>1. /\ pmWave' = [pmWave EXCEPT !.at = "read", !.thread = pmThread]
        /\ UNCHANGED <<pmData, pmPost, pmThread, pmKept, pmDone, pmSeen, pmTold>>
    BY <1>3 DEF Harvest
  <2>2. /\ DOMAIN pmWave' = {"at", "post", "thread"}
        /\ pmWave'.at = "read" /\ pmWave'.thread = pmThread
    BY <1>3, <2>1 DEF Harvest, PostsKept
  <2>q. QED
    BY <2>1, <2>2 DEF PostsKept, Needed, HasRead
<1>4. CASE Download
  <2>1. /\ pmKept \subseteq pmKept' /\ UNCHANGED <<pmData, pmPost, pmThread, pmDone, pmSeen, pmTold>>
    BY <1>4 DEF Download
  <2>2. CASE pmKept' = pmKept \cup Needed(pmWave) /\ pmWave' = [pmWave EXCEPT !.at = "fetched"]
    <3>1. HasRead
      BY <1>4 DEF Download, HasRead
    <3>2. /\ DOMAIN pmWave' = {"at", "post", "thread"}
          /\ pmWave'.post = pmWave.post /\ pmWave'.thread = pmWave.thread
      BY <2>2, <3>1 DEF HasRead, PostsKept
    <3>3. Needed(pmWave') \subseteq pmKept'
      BY <2>2, <3>2 DEF Needed
    <3>q. QED
      BY <2>1, <3>1, <3>2, <3>3 DEF PostsKept, Needed, HasRead
  <2>3. CASE pmWave' = None
    BY <2>1, <2>3 DEF PostsKept, HasRead, Needed
  <2>q. QED
    BY <1>4, <2>2, <2>3 DEF Download
<1>5. CASE Mark
  <2>1. /\ pmDone' = TRUE /\ pmSeen' = [post |-> pmWave.post, thread |-> pmWave.thread] /\ pmWave' = None
        /\ UNCHANGED <<pmData, pmPost, pmThread, pmKept, pmTold>>
        /\ HasRead /\ pmWave.at = "fetched"
    BY <1>5 DEF Mark, HasRead
  <2>2. Needed(pmWave) \subseteq pmKept /\ (pmTold => pmWave.thread = pmThread)
    BY <2>1 DEF PostsKept
  <2>3. Needed(pmSeen') = Needed(pmWave)
    BY <2>1 DEF Needed
  <2>4. Keys(commentMediaURLs(pmWave.thread)) \subseteq Needed(pmWave)
    BY DEF Needed, Keys
  <2>q. QED
    BY <2>1, <2>2, <2>3, <2>4 DEF PostsKept, HasRead
<1>6. CASE Cancel
  <2>1. pmWave' = None /\ UNCHANGED <<pmData, pmPost, pmThread, pmKept, pmDone, pmSeen, pmTold>>
    BY <1>6 DEF Cancel
  <2>q. QED
    BY <2>1 DEF PostsKept, HasRead, Needed
<1>7. CASE FetchComments
  <2>1. /\ pmDone' = (pmDone /\ Keys(commentMediaURLs(pmThread')) \subseteq pmKept)
        /\ pmTold' = ~HasRead /\ UNCHANGED <<pmData, pmPost, pmKept, pmWave, pmSeen>>
    BY <1>7 DEF FetchComments, Rearmed
  <2>q. QED
    BY <2>1 DEF PostsKept, HasRead, Needed
<1>8. CASE Visit
  <2>1. /\ pmTold' = FALSE /\ pmKept \subseteq pmKept'
        /\ UNCHANGED <<pmData, pmPost, pmDone, pmWave, pmSeen>>
    BY <1>8 DEF Visit
  <2>q. QED
    BY <2>1 DEF PostsKept, HasRead, Needed
<1>9. CASE Reply
  <2>1. PICK t : pmData' = [pmData EXCEPT !.comments = t]
    BY <1>9 DEF Reply
  <2>2. DOMAIN pmData' = DOMAIN pmData /\ pmData'.post = pmData.post
    BY <2>1 DEF PostsKept
  <2>3. UNCHANGED <<pmPost, pmThread, pmKept, pmDone, pmWave, pmSeen, pmTold>>
    BY <1>9 DEF Reply
  <2>q. QED
    BY <2>2, <2>3 DEF PostsKept, HasRead, Needed
<1>10. CASE Edit
  <2> DEFINE links == pmData.post.links \cup PMPasted
             edited == [pmData.post EXCEPT !.links = links]
  <2>1. pmData' = [pmData EXCEPT !.post = edited]
    BY <1>10 DEF Edit
  <2>2. Payload(edited)
    <3> HIDE DEF links
    <3>q. QED
      BY EditedPayload DEF PostsKept
  <2> HIDE DEF edited
  <2>3. DOMAIN pmData' = DOMAIN pmData /\ pmData'.post = edited
    BY <2>1 DEF PostsKept
  <2>4. UNCHANGED <<pmPost, pmThread, pmKept, pmDone, pmWave, pmSeen, pmTold>>
    BY <1>10 DEF Edit
  <2>q. QED
    BY <2>2, <2>3, <2>4 DEF PostsKept, HasRead, Needed
<1>11. CASE UNCHANGED pmVars
  BY <1>11 DEF pmVars, PostsKept, HasRead, Needed
<1>q. QED
  BY <1>1, <1>2, <1>3, <1>4, <1>5, <1>6, <1>7, <1>8, <1>9, <1>10, <1>11 DEF PMNext

\* The inductive invariant of kept posts: every file of the archived post has
\* an address of this site, and what a wave had read when it fetched, and when
\* it marked the post done, is on disk, whatever was archived in between.
THEOREM KeptInvariance == PMSpec => []PostsKept
<1>1. PMInit => PostsKept
  <2> SUFFICES ASSUME PMInit PROVE PostsKept
    OBVIOUS
  <2>1. DOMAIN pmData = {"post", "comments"} /\ pmData.post \in PMPayloads
    BY DEF PMInit
  <2>2. pmPost = None /\ pmSeen = None /\ pmWave = None /\ pmDone = FALSE
    BY DEF PMInit
  <2>q. QED
    BY <2>1, <2>2, PMAssumption DEF PostsKept, HasRead
<1>2. PostsKept /\ [PMNext]_pmVars => PostsKept'
  BY PostStep
<1>3. QED
  BY <1>1, <1>2, PTL DEF PMSpec

\* Once a post is kept, every file that its page and its card ask for is found
\* while the post is as the wave read it, and every picture of its comments
\* while they are, or when L3 archived them and overtook no wave.
THEOREM KeptPagesAreWhole == PMSpec => []PageIsKept
<1>1. PostsKept => PageIsKept
  <2> SUFFICES ASSUME PostsKept, pmPost # None, pmDone PROVE
        /\ pmPost = pmSeen.post => \A u \in postDetail(pmPost, 0) \cup Cards(pmPost, 0) : Found(u)
        /\ pmTold \/ pmThread = pmSeen.thread => \A u \in Embedded(pmThread) : Found(u)
    BY DEF PageIsKept
  <2>0. /\ Keys(ExtractMediaItems(pmSeen.post)) \subseteq pmKept
        /\ Keys(commentMediaURLs(pmSeen.thread)) \subseteq pmKept
    <3>1. Needed(pmSeen) \subseteq pmKept
      BY DEF PostsKept
    <3>q. QED
      BY <3>1 DEF Needed, Keys
  <2>1. ASSUME pmPost = pmSeen.post, NEW u \in postDetail(pmPost, 0) \cup Cards(pmPost, 0) PROVE Found(u)
    <3>1. Routed(u) /\ CanonicalKey(Served(u)) \in Keys(ExtractMediaItems(pmPost))
      BY <2>1, ShownIsGathered DEF PostsKept
    <3>q. QED
      BY <2>0, <2>1, <3>1 DEF Found
  <2>2. ASSUME pmTold \/ pmThread = pmSeen.thread, NEW u \in Embedded(pmThread) PROVE Found(u)
    <3>1. Keys(commentMediaURLs(pmThread)) \subseteq pmKept
      BY <2>0, <2>2 DEF PostsKept
    <3>q. QED
      BY <2>2, <3>1, PastedIsGathered DEF Found
  <2>q. QED
    BY <2>1, <2>2
<1>2. QED
  BY <1>1, KeptInvariance, PTL

-----------------------------------------------------------------------------
(* SearchQuery and SettingsForm: what a text says when it is written down   *)
(* and read again.  The loops of both are folds: first what each gives with *)
(* one element more, then what that makes of whole sequences, the box of a  *)
(* search, and the text of the settings form.                               *)

\* What holds at 0 and after each turn when it held before holds to the end.
LEMMA UpTo ==
  ASSUME NEW n \in Nat, NEW P, 0 \in P, \A i \in 1 .. n : i - 1 \in P => i \in P
  PROVE  0 .. n \subseteq P
<1> DEFINE Lesser == {p \in Nat \X Nat : p[1] < p[2]}
           out == {i \in Nat : i <= n /\ i \notin P}
<1>1. \A k, m \in Nat : m < k => <<m, k>> \in Lesser  OBVIOUS
<1>2. IsWellFoundedOn(Lesser, Nat)  BY NatLessThanWellFounded DEF OpToRel
<1> HIDE DEF Lesser
<1> SUFFICES ASSUME out # {} PROVE FALSE  OBVIOUS
<1>3. PICK k \in out : \A m \in out : <<m, k>> \notin Lesser
  <2>1. out \subseteq Nat  OBVIOUS
  <2> HIDE DEF out
  <2> QED BY <1>2, <2>1, WFMin
<1>4. k \in 1 .. n /\ k - 1 \in Nat /\ k - 1 < k  OBVIOUS
<1>5. k - 1 \notin out  BY <1>1, <1>3, <1>4
<1> QED BY <1>4, <1>5

\* What holds of no element, and of one more, holds of every sequence.
LEMMA EverySequence ==
  ASSUME NEW Item, NEW P, << >> \in P, \A s \in Seq(Item), x \in Item : s \in P => Append(s, x) \in P
  PROVE  Seq(Item) \subseteq P
<1> SUFFICES ASSUME NEW s \in Seq(Item) PROVE s \in P  OBVIOUS
<1> DEFINE n == Len(s)
           Q == {i \in 0 .. n : SubSeq(s, 1, i) \in P}
<1>0. n \in Nat  OBVIOUS
<1>1. 0 \in Q
  <2>1. SubSeq(s, 1, 0) = << >>  OBVIOUS
  <2>2. SubSeq(s, 1, 0) \in P  BY <2>1
  <2>3. 0 \in 0 .. n  BY <1>0
  <2> QED BY <2>2, <2>3
<1>2. ASSUME NEW i \in 1 .. n, i - 1 \in Q PROVE i \in Q
  <2>1. SubSeq(s, 1, i - 1) \in Seq(Item) /\ s[i] \in Item  OBVIOUS
  <2>2. SubSeq(s, 1, i) = Append(SubSeq(s, 1, i - 1), s[i])  OBVIOUS
  <2>3. SubSeq(s, 1, i) \in P  BY <1>2, <2>1, <2>2
  <2>4. i \in 0 .. n  BY <1>0
  <2> QED BY <2>3, <2>4
<1>3. n \in Q
  <2> HIDE DEF Q, n
  <2>1. 0 .. n \subseteq Q  BY <1>0, <1>1, <1>2, UpTo
  <2> QED BY <1>0, <2>1
<1>4. SubSeq(s, 1, n) = s  OBVIOUS
<1> QED BY <1>3, <1>4

\* Whatever a turn does with a value it may meet, there is such a loop,
IsTurn(turn, n, S) == turn \in [1 .. n -> [S -> S]]
IsLoop(g, n, base, turn, S) ==
  g \in [0 .. n -> S] /\ g[0] = base /\ \A i \in 1 .. n : g[i] = turn[i][g[i - 1]]

\* A loop whose turns stay in a set has a run of any length.
LEMMA TurnsExist ==
  ASSUME NEW S, NEW base \in S, NEW n \in Nat, NEW turn, IsTurn(turn, n, S)
  PROVE  \E g : IsLoop(g, n, base, turn, S)
<1> USE DEF IsTurn, IsLoop
<1> DEFINE Upto(m) == \E g \in [0 .. m -> S] :
                        g[0] = base /\ \A i \in 1 .. m : g[i] = turn[i][g[i - 1]]
           P == {m \in 0 .. n : Upto(m)}
<1>1. 0 \in P
  <2> DEFINE g == [i \in 0 .. 0 |-> base]
  <2>1. g \in [0 .. 0 -> S] /\ g[0] = base /\ \A i \in 1 .. 0 : g[i] = turn[i][g[i - 1]]
    OBVIOUS
  <2>2. Upto(0)  BY <2>1
  <2> QED BY <2>2
<1>2. ASSUME NEW m \in 1 .. n, m - 1 \in P PROVE m \in P
  <2>1. PICK g \in [0 .. m - 1 -> S] :
          g[0] = base /\ \A i \in 1 .. m - 1 : g[i] = turn[i][g[i - 1]]
    BY <1>2
  <2> DEFINE h == [i \in 0 .. m |-> IF i = m THEN turn[m][g[m - 1]] ELSE g[i]]
  <2>2. g[m - 1] \in S /\ turn[m] \in [S -> S]  BY <2>1
  <2>3. h \in [0 .. m -> S]
    <3>1. \A i \in 0 .. m : i # m => i \in 0 .. m - 1  OBVIOUS
    <3> QED BY <2>1, <2>2, <3>1
  <2>4. h[0] = base  BY <2>1
  <2>5. ASSUME NEW i \in 1 .. m PROVE h[i] = turn[i][h[i - 1]]
    <3>1. i - 1 \in 0 .. m /\ i - 1 # m /\ h[i - 1] = g[i - 1]  OBVIOUS
    <3>2. CASE i = m  BY <3>1, <3>2
    <3>3. CASE i \in 1 .. m - 1  BY <2>1, <3>1, <3>3
    <3>4. i = m \/ i \in 1 .. m - 1  OBVIOUS
    <3> QED BY <3>2, <3>3, <3>4
  <2>6. Upto(m)
    <3> HIDE DEF h
    <3> QED BY <2>3, <2>4, <2>5
  <2>7. m \in 0 .. n  OBVIOUS
  <2> QED BY <2>6, <2>7
<1>3. n \in P
  <2> HIDE DEF P
  <2>1. 0 .. n \subseteq P  BY <1>1, <1>2, UpTo
  <2> QED BY <2>1
<1> QED BY <1>3

\* and one more turn starts from where the others ended.
LEMMA OneMore ==
  ASSUME NEW S, NEW base \in S, NEW n \in Nat, NEW turn, NEW more, NEW f, NEW g,
         IsTurn(more, n + 1, S), \A i \in 1 .. n : turn[i] = more[i],
         IsLoop(f, n, base, turn, S), IsLoop(g, n + 1, base, more, S)
  PROVE  f[n] \in S /\ g[n + 1] = more[n + 1][f[n]]
<1> DEFINE P == {i \in 0 .. n : g[i] = f[i]}
<1>1. 0 \in P  BY DEF IsLoop
<1>2. ASSUME NEW i \in 1 .. n, i - 1 \in P PROVE i \in P
  <2>1. i \in 1 .. n + 1 /\ i \in 0 .. n  OBVIOUS
  <2> QED BY <1>2, <2>1 DEF IsLoop
<1>3. n \in P
  <2> HIDE DEF P
  <2>1. 0 .. n \subseteq P  BY <1>1, <1>2, UpTo
  <2> QED BY <2>1
<1>4. n \in 0 .. n /\ n + 1 \in 1 .. n + 1 /\ (n + 1) - 1 = n  OBVIOUS
<1> QED BY <1>3, <1>4 DEF IsLoop

\* A loop that takes these turns where they are defined is one of them.
LEMMA LoopIs ==
  ASSUME NEW S, NEW base \in S, NEW n \in Nat, NEW turn, IsTurn(turn, n, S), NEW f,
         \A g : IsLoop(g, n, base, turn, S) =>
           /\ f = [i \in 0 .. n |-> f[i]] /\ f[0] = base
           /\ \A i \in 1 .. n : f[i - 1] \in S => f[i] = turn[i][f[i - 1]]
  PROVE  IsLoop(f, n, base, turn, S)
<1>1. /\ f = [i \in 0 .. n |-> f[i]] /\ f[0] = base
      /\ \A i \in 1 .. n : f[i - 1] \in S => f[i] = turn[i][f[i - 1]]
  BY TurnsExist
<1> DEFINE P == {i \in 0 .. n : f[i] \in S}
<1>2. 0 \in P  BY <1>1
<1>3. \A i \in 1 .. n : i - 1 \in P => i \in P  BY <1>1 DEF IsTurn
<1>4. 0 .. n \subseteq P
  <2> HIDE DEF P
  <2> QED BY <1>2, <1>3, UpTo
<1>5. \A i \in 1 .. n : i - 1 \in 0 .. n  OBVIOUS
<1>6. f \in [0 .. n -> S]  BY <1>1, <1>4
<1> QED BY <1>1, <1>4, <1>5, <1>6 DEF IsLoop

-----------------------------------------------------------------------------
\* Only, one element at a time.
OnlyTurn(s, S, Item) ==
  [i \in 1 .. Len(s) |-> [x \in Seq(Item) |-> IF s[i] \in S THEN Append(x, s[i]) ELSE x]]

\* KeptSoFar is such a run.
LEMMA OnlyLoop ==
  ASSUME NEW Item, NEW s \in Seq(Item), NEW S
  PROVE  /\ IsTurn(OnlyTurn(s, S, Item), Len(s), Seq(Item))
         /\ IsLoop(KeptSoFar(s, S), Len(s), << >>, OnlyTurn(s, S, Item), Seq(Item))
<1> DEFINE n == Len(s)
           A == Seq(Item)
           base == << >>
           Turn(x, i) == IF s[i] \in S THEN Append(x, s[i]) ELSE x
           turn == OnlyTurn(s, S, Item)
           f == KeptSoFar(s, S)
<1>1. n \in Nat /\ base \in A  OBVIOUS
<1>2. \A i \in 1 .. n, x \in A : Turn(x, i) \in A  OBVIOUS
<1>3. turn = [i \in 1 .. n |-> [x \in A |-> Turn(x, i)]]  BY DEF OnlyTurn
<1>4. ASSUME NEW g, g = [i \in 0 .. n |-> IF i = 0 THEN base ELSE Turn(g[i - 1], i)]
      PROVE  f = [i \in 0 .. n |-> IF i = 0 THEN base ELSE Turn(f[i - 1], i)]
  BY <1>4 DEF KeptSoFar, Turns
<1> HIDE DEF n, A, base, Turn, turn, f
<1>5. IsTurn(turn, n, A) /\ \A i \in 1 .. n, x \in A : turn[i][x] = Turn(x, i)
  BY <1>2, <1>3 DEF IsTurn
<1>6. ASSUME NEW g, IsLoop(g, n, base, turn, A)
      PROVE  /\ f = [i \in 0 .. n |-> f[i]] /\ f[0] = base
             /\ \A i \in 1 .. n : f[i - 1] \in A => f[i] = turn[i][f[i - 1]]
  <2>1. \A i \in 1 .. n : i - 1 \in 0 .. n  BY <1>1
  <2>2. g = [i \in 0 .. n |-> IF i = 0 THEN base ELSE Turn(g[i - 1], i)]
    <3>1. \A i \in 0 .. n : g[i] = IF i = 0 THEN base ELSE Turn(g[i - 1], i)
      BY <1>1, <1>5, <1>6, <2>1 DEF IsLoop
    <3>2. g = [i \in 0 .. n |-> g[i]]  BY <1>6 DEF IsLoop
    <3> QED BY <3>1, <3>2
  <2>3. f = [i \in 0 .. n |-> IF i = 0 THEN base ELSE Turn(f[i - 1], i)]  BY <1>4, <2>2
  <2>4. f = [i \in 0 .. n |-> f[i]]  BY <2>3
  <2>5. f[0] = base /\ \A i \in 1 .. n : f[i] = Turn(f[i - 1], i)  BY <1>1, <2>1, <2>3
  <2> QED BY <1>5, <2>4, <2>5
<1>7. IsLoop(f, n, base, turn, A)  BY <1>1, <1>5, <1>6, LoopIs
<1> QED BY <1>5, <1>7 DEF n, A, base, turn, f

\* What Only keeps of a sequence with one more element.
LEMMA OnlyMore ==
  ASSUME NEW Item, NEW S
  PROVE  /\ Only(<< >>, S) = << >>
         /\ \A s \in Seq(Item) : Only(s, S) \in Seq(Item)
         /\ \A s \in Seq(Item), x \in Item :
              Only(Append(s, x), S) = IF x \in S THEN Append(Only(s, S), x) ELSE Only(s, S)
<1>1. Only(<< >>, S) = << >>
  <2> DEFINE e == << >>
  <2>1. e \in Seq(Item) /\ Len(e) = 0  OBVIOUS
  <2> HIDE DEF e
  <2>2. IsLoop(KeptSoFar(e, S), Len(e), << >>, OnlyTurn(e, S, Item), Seq(Item))  BY <2>1, OnlyLoop
  <2> QED BY <2>1, <2>2 DEF Only, IsLoop, e
<1>2. ASSUME NEW s \in Seq(Item) PROVE Only(s, S) \in Seq(Item)
  <2>1. Len(s) \in 0 .. Len(s)  OBVIOUS
  <2> QED BY <2>1, OnlyLoop DEF Only, IsLoop
<1>3. ASSUME NEW s \in Seq(Item), NEW x \in Item
      PROVE  Only(Append(s, x), S) = IF x \in S THEN Append(Only(s, S), x) ELSE Only(s, S)
  <2> DEFINE r == Append(s, x)
             n == Len(s)
             A == Seq(Item)
             f == KeptSoFar(s, S)
             g == KeptSoFar(r, S)
             turn == OnlyTurn(s, S, Item)
             more == OnlyTurn(r, S, Item)
  <2>1. /\ r \in A /\ n \in Nat /\ Len(r) = n + 1 /\ r[n + 1] = x
        /\ << >> \in A /\ \A i \in 1 .. n : r[i] = s[i]
    OBVIOUS
  <2>2. IsTurn(more, Len(r), A) /\ IsLoop(g, Len(r), << >>, more, A)  BY <2>1, OnlyLoop
  <2>3. IsLoop(f, n, << >>, turn, A)  BY OnlyLoop
  <2>4. Only(r, S) = g[Len(r)] /\ Only(s, S) = f[n]  BY DEF Only
  <2> HIDE DEF r, f, g
  <2>5. \A i \in 1 .. n : turn[i] = more[i]
    <3>1. \A i \in 1 .. n : i \in 1 .. Len(r) /\ r[i] = s[i]  BY <2>1
    <3> QED BY <3>1 DEF OnlyTurn
  <2>6. \A y \in A : more[n + 1][y] = IF x \in S THEN Append(y, x) ELSE y
    <3>1. n + 1 \in 1 .. Len(r)  BY <2>1
    <3> HIDE DEF A
    <3> QED BY <2>1, <3>1 DEF OnlyTurn, A
  <2> HIDE DEF A, n, turn, more
  <2>7. f[n] \in A /\ g[n + 1] = more[n + 1][f[n]]  BY <2>1, <2>2, <2>3, <2>5, OneMore
  <2> QED BY <2>1, <2>4, <2>6, <2>7 DEF r
<1> QED BY <1>1, <1>2, <1>3

\* FirstSeen, one element at a time.
SeenTurn(s, Item) ==
  [i \in 1 .. Len(s) |-> [x \in Seq(Item) |-> IF InSeq(s[i], x) THEN x ELSE Append(x, s[i])]]

\* SeenSoFar is such a run.
LEMMA SeenLoop ==
  ASSUME NEW Item, NEW s \in Seq(Item)
  PROVE  /\ IsTurn(SeenTurn(s, Item), Len(s), Seq(Item))
         /\ IsLoop(SeenSoFar(s), Len(s), << >>, SeenTurn(s, Item), Seq(Item))
<1> DEFINE n == Len(s)
           A == Seq(Item)
           base == << >>
           Turn(x, i) == IF InSeq(s[i], x) THEN x ELSE Append(x, s[i])
           turn == SeenTurn(s, Item)
           f == SeenSoFar(s)
<1>1. n \in Nat /\ base \in A  OBVIOUS
<1>2. \A i \in 1 .. n, x \in A : Turn(x, i) \in A  OBVIOUS
<1>3. turn = [i \in 1 .. n |-> [x \in A |-> Turn(x, i)]]  BY DEF SeenTurn
<1>4. ASSUME NEW g, g = [i \in 0 .. n |-> IF i = 0 THEN base ELSE Turn(g[i - 1], i)]
      PROVE  f = [i \in 0 .. n |-> IF i = 0 THEN base ELSE Turn(f[i - 1], i)]
  BY <1>4 DEF SeenSoFar, Turns
<1> HIDE DEF n, A, base, Turn, turn, f
<1>5. IsTurn(turn, n, A) /\ \A i \in 1 .. n, x \in A : turn[i][x] = Turn(x, i)
  BY <1>2, <1>3 DEF IsTurn
<1>6. ASSUME NEW g, IsLoop(g, n, base, turn, A)
      PROVE  /\ f = [i \in 0 .. n |-> f[i]] /\ f[0] = base
             /\ \A i \in 1 .. n : f[i - 1] \in A => f[i] = turn[i][f[i - 1]]
  <2>1. \A i \in 1 .. n : i - 1 \in 0 .. n  BY <1>1
  <2>2. g = [i \in 0 .. n |-> IF i = 0 THEN base ELSE Turn(g[i - 1], i)]
    <3>1. \A i \in 0 .. n : g[i] = IF i = 0 THEN base ELSE Turn(g[i - 1], i)
      BY <1>1, <1>5, <1>6, <2>1 DEF IsLoop
    <3>2. g = [i \in 0 .. n |-> g[i]]  BY <1>6 DEF IsLoop
    <3> QED BY <3>1, <3>2
  <2>3. f = [i \in 0 .. n |-> IF i = 0 THEN base ELSE Turn(f[i - 1], i)]  BY <1>4, <2>2
  <2>4. f = [i \in 0 .. n |-> f[i]]  BY <2>3
  <2>5. f[0] = base /\ \A i \in 1 .. n : f[i] = Turn(f[i - 1], i)  BY <1>1, <2>1, <2>3
  <2> QED BY <1>5, <2>4, <2>5
<1>7. IsLoop(f, n, base, turn, A)  BY <1>1, <1>5, <1>6, LoopIs
<1> QED BY <1>5, <1>7 DEF n, A, base, turn, f

\* What FirstSeen keeps of a sequence with one more element.
LEMMA SeenMore ==
  ASSUME NEW Item
  PROVE  /\ FirstSeen(<< >>) = << >>
         /\ \A s \in Seq(Item) : FirstSeen(s) \in Seq(Item)
         /\ \A s \in Seq(Item), x \in Item :
              FirstSeen(Append(s, x)) = IF InSeq(x, FirstSeen(s)) THEN FirstSeen(s) ELSE Append(FirstSeen(s), x)
<1>1. FirstSeen(<< >>) = << >>
  <2> DEFINE e == << >>
  <2>1. e \in Seq(Item) /\ Len(e) = 0  OBVIOUS
  <2> HIDE DEF e
  <2>2. IsLoop(SeenSoFar(e), Len(e), << >>, SeenTurn(e, Item), Seq(Item))  BY <2>1, SeenLoop
  <2> QED BY <2>1, <2>2 DEF FirstSeen, IsLoop, e
<1>2. ASSUME NEW s \in Seq(Item) PROVE FirstSeen(s) \in Seq(Item)
  <2>1. Len(s) \in 0 .. Len(s)  OBVIOUS
  <2> QED BY <2>1, SeenLoop DEF FirstSeen, IsLoop
<1>3. ASSUME NEW s \in Seq(Item), NEW x \in Item
      PROVE  FirstSeen(Append(s, x)) = IF InSeq(x, FirstSeen(s)) THEN FirstSeen(s) ELSE Append(FirstSeen(s), x)
  <2> DEFINE r == Append(s, x)
             n == Len(s)
             A == Seq(Item)
             f == SeenSoFar(s)
             g == SeenSoFar(r)
             turn == SeenTurn(s, Item)
             more == SeenTurn(r, Item)
  <2>1. /\ r \in A /\ n \in Nat /\ Len(r) = n + 1 /\ r[n + 1] = x
        /\ << >> \in A /\ \A i \in 1 .. n : r[i] = s[i]
    OBVIOUS
  <2>2. IsTurn(more, Len(r), A) /\ IsLoop(g, Len(r), << >>, more, A)  BY <2>1, SeenLoop
  <2>3. IsLoop(f, n, << >>, turn, A)  BY SeenLoop
  <2>4. FirstSeen(r) = g[Len(r)] /\ FirstSeen(s) = f[n]  BY DEF FirstSeen
  <2> HIDE DEF r, f, g
  <2>5. \A i \in 1 .. n : turn[i] = more[i]
    <3>1. \A i \in 1 .. n : i \in 1 .. Len(r) /\ r[i] = s[i]  BY <2>1
    <3> QED BY <3>1 DEF SeenTurn
  <2>6. \A y \in A : more[n + 1][y] = IF InSeq(x, y) THEN y ELSE Append(y, x)
    <3>1. n + 1 \in 1 .. Len(r)  BY <2>1
    <3> HIDE DEF A
    <3> QED BY <2>1, <3>1 DEF SeenTurn, A
  <2> HIDE DEF A, n, turn, more
  <2>7. f[n] \in A /\ g[n + 1] = more[n + 1][f[n]]  BY <2>1, <2>2, <2>3, <2>5, OneMore
  <2> QED BY <2>1, <2>4, <2>6, <2>7 DEF r
<1> QED BY <1>1, <1>2, <1>3

-----------------------------------------------------------------------------
\* ReadFrom, one token at a time.
IsReading(g, p, box) ==
  /\ g = [i \in 0 .. Len(box) |-> g[i]] /\ g[0] = p
  /\ \A i \in 1 .. Len(box) : g[i] = Read(g[i - 1], box[i])

\* ReadSoFar reads the tokens of the box one after the other.
LEMMA ReadLoop ==
  ASSUME NEW Item, NEW p, NEW box \in Seq(Item)
  PROVE  IsReading(ReadSoFar(p, box), p, box)
<1> DEFINE Readable(b) == \E g : IsReading(g, p, b)
           P == {b \in Seq(Item) : Readable(b)}
<1>1. << >> \in P
  <2> DEFINE g == [i \in 0 .. 0 |-> p]
             e == << >>
  <2>1. /\ e \in Seq(Item) /\ Len(e) = 0
        /\ g = [i \in 0 .. 0 |-> g[i]] /\ g[0] = p /\ \A i \in 1 .. 0 : g[i] = Read(g[i - 1], e[i])
    OBVIOUS
  <2> HIDE DEF g, e
  <2>2. IsReading(g, p, e)  BY <2>1 DEF IsReading
  <2> QED BY <2>1, <2>2 DEF e
<1>2. ASSUME NEW b \in Seq(Item), NEW x \in Item, b \in P PROVE Append(b, x) \in P
  <2> DEFINE r == Append(b, x)
             n == Len(b)
  <2>1. /\ r \in Seq(Item) /\ n \in Nat /\ Len(r) = n + 1 /\ r[n + 1] = x
        /\ \A i \in 1 .. n : r[i] = b[i]
    OBVIOUS
  <2>2. PICK g : IsReading(g, p, b)  BY <1>2
  <2> DEFINE h == [i \in 0 .. n + 1 |-> IF i = n + 1 THEN Read(g[n], x) ELSE g[i]]
  <2> HIDE DEF r
  <2>3. h = [i \in 0 .. n + 1 |-> h[i]] /\ h[0] = p  BY <2>1, <2>2 DEF IsReading
  <2>4. ASSUME NEW i \in 1 .. n + 1 PROVE h[i] = Read(h[i - 1], r[i])
    <3>1. i - 1 \in 0 .. n + 1 /\ i - 1 # n + 1 /\ h[i - 1] = g[i - 1]  BY <2>1
    <3>2. CASE i = n + 1  BY <2>1, <3>1, <3>2
    <3>3. CASE i \in 1 .. n
      <4>1. h[i] = g[i]  BY <2>1, <3>3
      <4>2. g[i] = Read(g[i - 1], b[i])  BY <2>2, <3>3 DEF IsReading
      <4> QED BY <2>1, <3>1, <3>3, <4>1, <4>2
    <3> QED BY <2>1, <3>2, <3>3
  <2> HIDE DEF h
  <2>5. IsReading(h, p, r)  BY <2>1, <2>3, <2>4 DEF IsReading
  <2> QED BY <2>1, <2>5 DEF r
<1>3. PICK g : IsReading(g, p, box)
  <2>1. Seq(Item) \subseteq P
    <3> HIDE DEF P
    <3> QED BY <1>1, <1>2, EverySequence
  <2> QED BY <2>1
<1> DEFINE n == Len(box)
           f == ReadSoFar(p, box)
<1>4. n \in Nat  OBVIOUS
<1>5. g = [i \in 0 .. n |-> IF i = 0 THEN p ELSE Read(g[i - 1], box[i])]
  <2>1. \A i \in 0 .. n : g[i] = IF i = 0 THEN p ELSE Read(g[i - 1], box[i])
    <3>1. g[0] = p /\ \A i \in 1 .. n : g[i] = Read(g[i - 1], box[i])  BY <1>3 DEF IsReading
    <3>2. \A i \in 0 .. n : i # 0 => i \in 1 .. n  BY <1>4
    <3> QED BY <3>1, <3>2
  <2>2. g = [i \in 0 .. n |-> g[i]]  BY <1>3 DEF IsReading
  <2> QED BY <2>1, <2>2
<1>6. f = [i \in 0 .. n |-> IF i = 0 THEN p ELSE Read(f[i - 1], box[i])]
  BY <1>5 DEF ReadSoFar, Turns
<1> HIDE DEF f
<1>7. f = [i \in 0 .. n |-> f[i]]  BY <1>6
<1>8. f[0] = p /\ \A i \in 1 .. n : f[i] = Read(f[i - 1], box[i])  BY <1>4, <1>6
<1> QED BY <1>7, <1>8 DEF IsReading, f

\* Reading a box with one more token is reading the box, then the token.
LEMMA ReadMore ==
  ASSUME NEW Item
  PROVE  /\ \A p : ReadFrom(p, << >>) = p
         /\ \A p : \A box \in Seq(Item), tok \in Item :
              ReadFrom(p, Append(box, tok)) = Read(ReadFrom(p, box), tok)
<1>1. ASSUME NEW p PROVE ReadFrom(p, << >>) = p
  <2> DEFINE e == << >>
  <2>1. e \in Seq(Item) /\ Len(e) = 0  OBVIOUS
  <2> HIDE DEF e
  <2>2. IsReading(ReadSoFar(p, e), p, e)  BY <2>1, ReadLoop
  <2> QED BY <2>1, <2>2 DEF ReadFrom, IsReading, e
<1>2. ASSUME NEW p, NEW box \in Seq(Item), NEW tok \in Item
      PROVE  ReadFrom(p, Append(box, tok)) = Read(ReadFrom(p, box), tok)
  <2> DEFINE r == Append(box, tok)
             n == Len(box)
             f == ReadSoFar(p, box)
             g == ReadSoFar(p, r)
             P == {i \in 0 .. n : g[i] = f[i]}
  <2>1. /\ r \in Seq(Item) /\ n \in Nat /\ Len(r) = n + 1 /\ r[n + 1] = tok
        /\ \A i \in 1 .. n : r[i] = box[i]
    OBVIOUS
  <2>2. IsReading(f, p, box) /\ IsReading(g, p, r)  BY <2>1, ReadLoop
  <2>3. ReadFrom(p, r) = g[n + 1] /\ ReadFrom(p, box) = f[n]  BY <2>1 DEF ReadFrom
  <2> HIDE DEF r, f, g
  <2>4. 0 \in P  BY <2>1, <2>2 DEF IsReading
  <2>5. ASSUME NEW i \in 1 .. n, i - 1 \in P PROVE i \in P
    <3>1. i \in 0 .. n /\ i \in 1 .. Len(r) /\ r[i] = box[i]  BY <2>1
    <3>2. g[i] = Read(g[i - 1], r[i]) /\ f[i] = Read(f[i - 1], box[i])  BY <2>2, <3>1 DEF IsReading
    <3> QED BY <2>5, <3>1, <3>2
  <2>6. n \in P
    <3> HIDE DEF P, n
    <3>1. 0 .. n \subseteq P  BY <2>1, <2>4, <2>5, UpTo
    <3> QED BY <2>1, <3>1
  <2>7. g[n + 1] = Read(g[n], tok)
    <3>1. n + 1 \in 1 .. Len(r) /\ (n + 1) - 1 = n  BY <2>1
    <3> QED BY <2>1, <2>2, <3>1 DEF IsReading
  <2> QED BY <2>3, <2>6, <2>7 DEF r
<1> QED BY <1>1, <1>2

-----------------------------------------------------------------------------
(* What FirstSeen and Only keep. *)
Distinct(s) == \A i, j \in DOMAIN s : s[i] = s[j] => i = j

\* The elements of a sequence with one more.
LEMMA ElementsMore ==
  ASSUME NEW Item, NEW s \in Seq(Item), NEW x \in Item
  PROVE  /\ Elements(s) \subseteq Item /\ Elements(Append(s, x)) = Elements(s) \cup {x}
         /\ InSeq(x, s) <=> x \in Elements(s)
         /\ Distinct(s) /\ x \notin Elements(s) => Distinct(Append(s, x))
         /\ Distinct(Append(s, x)) => Distinct(s) /\ x \notin Elements(s)
<1> DEFINE r == Append(s, x)
           n == Len(s)
<1>1. /\ n \in Nat /\ DOMAIN s = 1 .. n /\ DOMAIN r = 1 .. n + 1 /\ r[n + 1] = x
      /\ \A i \in 1 .. n : r[i] = s[i] /\ s[i] \in Item
  OBVIOUS
<1> HIDE DEF r, n
<1>2. Elements(s) \subseteq Item /\ (InSeq(x, s) <=> x \in Elements(s))
  BY <1>1 DEF Elements, InSeq
<1>3. Elements(r) = Elements(s) \cup {x}
  <2>1. \A i \in 1 .. n + 1 : i \in 1 .. n \/ i = n + 1  BY <1>1
  <2>2. Elements(r) \subseteq Elements(s) \cup {x}  BY <1>1, <2>1 DEF Elements
  <2>3. \A i \in 1 .. n : i \in 1 .. n + 1 /\ s[i] = r[i]  BY <1>1
  <2>4. Elements(s) \subseteq Elements(r)  BY <1>1, <2>3 DEF Elements
  <2>5. n + 1 \in 1 .. n + 1  BY <1>1
  <2>6. x \in Elements(r)  BY <1>1, <2>5 DEF Elements
  <2> QED BY <2>2, <2>4, <2>6
<1>4. ASSUME Distinct(s), x \notin Elements(s) PROVE Distinct(r)
  <2>1. \A i \in 1 .. n : s[i] # x  BY <1>1, <1>4 DEF Elements
  <2> SUFFICES ASSUME NEW i \in 1 .. n + 1, NEW j \in 1 .. n + 1, r[i] = r[j] PROVE i = j
    BY <1>1 DEF Distinct
  <2>2. (i \in 1 .. n \/ i = n + 1) /\ (j \in 1 .. n \/ j = n + 1)  BY <1>1
  <2> QED BY <1>1, <1>4, <2>1, <2>2 DEF Distinct
<1>5. ASSUME Distinct(r) PROVE Distinct(s) /\ x \notin Elements(s)
  <2>1. \A i \in 1 .. n : i \in 1 .. n + 1 /\ i # n + 1  BY <1>1
  <2>2. n + 1 \in 1 .. n + 1  BY <1>1
  <2>3. \A i \in 1 .. n : s[i] # x  BY <1>1, <1>5, <2>1, <2>2 DEF Distinct
  <2>4. Distinct(s)  BY <1>1, <1>5, <2>1 DEF Distinct
  <2> QED BY <1>1, <2>3, <2>4 DEF Elements
<1> QED BY <1>2, <1>3, <1>4, <1>5 DEF r

\* FirstSeen keeps every element once, and a sequence that does so already.
LEMMA SeenOnce ==
  ASSUME NEW Item, NEW s \in Seq(Item)
  PROVE  /\ FirstSeen(s) \in Seq(Item) /\ Distinct(FirstSeen(s))
         /\ Elements(FirstSeen(s)) = Elements(s)
         /\ Distinct(s) => FirstSeen(s) = s
<1> DEFINE Once(r) == /\ FirstSeen(r) \in Seq(Item) /\ Distinct(FirstSeen(r))
                      /\ Elements(FirstSeen(r)) = Elements(r)
                      /\ Distinct(r) => FirstSeen(r) = r
           P == {r \in Seq(Item) : Once(r)}
<1>1. << >> \in P
  <2>1. FirstSeen(<< >>) = << >>  BY SeenMore
  <2>2. Distinct(<< >>) /\ << >> \in Seq(Item)  BY DEF Distinct
  <2> QED BY <2>1, <2>2
<1>2. ASSUME NEW r \in Seq(Item), NEW x \in Item, r \in P PROVE Append(r, x) \in P
  <2>1. Once(r)  BY <1>2
  <2>2. FirstSeen(Append(r, x))
          = IF InSeq(x, FirstSeen(r)) THEN FirstSeen(r) ELSE Append(FirstSeen(r), x)
    BY SeenMore
  <2> DEFINE e == FirstSeen(r)
             a == Append(r, x)
             o == FirstSeen(a)
             b == Append(e, x)
  <2>3. /\ Elements(a) = Elements(r) \cup {x}
        /\ Distinct(a) => Distinct(r) /\ x \notin Elements(r)
    BY ElementsMore
  <2>4. /\ InSeq(x, e) <=> x \in Elements(e)
        /\ Elements(b) = Elements(e) \cup {x}
        /\ Distinct(e) /\ x \notin Elements(e) => Distinct(b)
    <3> HIDE DEF e
    <3>1. e \in Seq(Item)  BY <2>1 DEF e
    <3> QED BY <3>1, ElementsMore
  <2>5. a \in Seq(Item)  OBVIOUS
  <2>6. e \in Seq(Item) => b \in Seq(Item)  OBVIOUS
  <2>7. e = r => b = a  OBVIOUS
  <2>8. e \in Seq(Item) /\ Distinct(e) /\ Elements(e) = Elements(r) /\ (Distinct(r) => e = r)
    BY <2>1
  <2>9. o = IF InSeq(x, e) THEN e ELSE b  BY <2>2
  <2> HIDE DEF e, a, b, o
  <2>10. o \in Seq(Item) /\ Distinct(o) /\ Elements(o) = Elements(a) /\ (Distinct(a) => o = a)
    BY <2>3, <2>4, <2>6, <2>7, <2>8, <2>9
  <2> QED BY <2>5, <2>10 DEF a, o
<1>3. Seq(Item) \subseteq P
  <2> HIDE DEF P
  <2> QED BY <1>1, <1>2, EverySequence
<1> QED BY <1>3

\* Only keeps the elements that are in the set, each as often as it was.
LEMMA OnlyKeeps ==
  ASSUME NEW Item, NEW s \in Seq(Item), NEW S
  PROVE  /\ Only(s, S) \in Seq(Item) /\ Elements(Only(s, S)) = Elements(s) \cap S
         /\ Distinct(s) => Distinct(Only(s, S))
         /\ Elements(s) \subseteq S => Only(s, S) = s
<1> DEFINE Keeps(r) == /\ Only(r, S) \in Seq(Item) /\ Elements(Only(r, S)) = Elements(r) \cap S
                       /\ Distinct(r) => Distinct(Only(r, S))
                       /\ Elements(r) \subseteq S => Only(r, S) = r
           P == {r \in Seq(Item) : Keeps(r)}
<1>0. \A q \in Seq(Item), y \in Item :
         Only(Append(q, y), S) = IF y \in S THEN Append(Only(q, S), y) ELSE Only(q, S)
  BY OnlyMore
<1>1. << >> \in P
  <2>1. Only(<< >>, S) = << >>  BY OnlyMore
  <2>2. Distinct(<< >>) /\ << >> \in Seq(Item) /\ Elements(<< >>) = {}  BY DEF Distinct, Elements
  <2> QED BY <2>1, <2>2
<1>2. ASSUME NEW r \in Seq(Item), NEW x \in Item, r \in P PROVE Append(r, x) \in P
  <2> DEFINE e == Only(r, S)
             a == Append(r, x)
             o == Only(a, S)
             b == Append(e, x)
  <2>1. /\ e \in Seq(Item) /\ Elements(e) = Elements(r) \cap S
        /\ Distinct(r) => Distinct(e)
        /\ Elements(r) \subseteq S => e = r
    BY <1>2
  <2>2. o = IF x \in S THEN b ELSE e  BY <1>0
  <2>3. /\ Elements(a) = Elements(r) \cup {x}
        /\ Distinct(a) => Distinct(r) /\ x \notin Elements(r)
    BY ElementsMore
  <2>4. a \in Seq(Item) /\ b \in Seq(Item) /\ (e = r => b = a)  BY <2>1
  <2> HIDE DEF e, a, o
  <2>5. /\ Elements(b) = Elements(e) \cup {x}
        /\ Distinct(e) /\ x \notin Elements(e) => Distinct(b)
    BY <2>1, ElementsMore
  <2> HIDE DEF b
  <2>6. o \in Seq(Item) /\ Elements(o) = Elements(a) \cap S /\ (Distinct(a) => Distinct(o))
    BY <2>1, <2>2, <2>3, <2>4, <2>5
  <2>7. Elements(a) \subseteq S => o = a  BY <2>1, <2>2, <2>3, <2>4
  <2> QED BY <2>4, <2>6, <2>7 DEF a, o
<1>3. Seq(Item) \subseteq P
  <2> HIDE DEF P
  <2> QED BY <1>1, <1>2, EverySequence
<1> QED BY <1>3

\* The elements of two sequences end to end.
LEMMA ElementsJoined ==
  ASSUME NEW Item, NEW s \in Seq(Item), NEW t \in Seq(Item)
  PROVE  /\ s \o t \in Seq(Item) /\ Elements(s \o t) = Elements(s) \cup Elements(t)
         /\ Distinct(s) /\ Distinct(t) /\ Elements(s) \cap Elements(t) = {} => Distinct(s \o t)
<1> DEFINE n == Len(s)
           m == Len(t)
           u == s \o t
<1>1. /\ n \in Nat /\ m \in Nat /\ u \in Seq(Item)
      /\ DOMAIN s = 1 .. n /\ DOMAIN t = 1 .. m /\ DOMAIN u = 1 .. n + m
      /\ \A i \in 1 .. n : u[i] = s[i]
      /\ \A i \in 1 .. m : u[n + i] = t[i]
  OBVIOUS
<1> HIDE DEF n, m, u
<1>2. ASSUME NEW k \in 1 .. n + m
      PROVE  k \in 1 .. n \/ \E i \in 1 .. m : k = n + i
  <2>1. CASE k <= n  BY <1>1, <2>1
  <2>2. CASE k > n
    <3>1. k - n \in 1 .. m /\ k = n + (k - n)  BY <1>1, <2>2
    <3> QED BY <3>1
  <2> QED BY <1>1, <2>1, <2>2
<1>3. \A i \in 1 .. n : i \in 1 .. n + m  BY <1>1
<1>4. \A i \in 1 .. m : n + i \in 1 .. n + m  BY <1>1
<1>5. Elements(u) = Elements(s) \cup Elements(t)
  <2>1. Elements(u) \subseteq Elements(s) \cup Elements(t)
    <3>1. \A k \in 1 .. n + m :
            (\E i \in 1 .. n : u[k] = s[i]) \/ (\E i \in 1 .. m : u[k] = t[i])
      BY <1>1, <1>2
    <3>2. \A k \in DOMAIN u : u[k] \in Elements(s) \cup Elements(t)  BY <1>1, <3>1 DEF Elements
    <3> QED BY <3>2 DEF Elements
  <2>2. Elements(s) \subseteq Elements(u)
    <3>1. \A i \in 1 .. n : i \in 1 .. n + m /\ s[i] = u[i]  BY <1>1, <1>3
    <3> QED BY <1>1, <3>1 DEF Elements
  <2>3. Elements(t) \subseteq Elements(u)
    <3>1. \A i \in 1 .. m : n + i \in 1 .. n + m /\ t[i] = u[n + i]  BY <1>1, <1>4
    <3> QED BY <1>1, <3>1 DEF Elements
  <2> QED BY <2>1, <2>2, <2>3
<1>6. ASSUME Distinct(s), Distinct(t), Elements(s) \cap Elements(t) = {}
      PROVE  Distinct(u)
  <2>1. \A i \in 1 .. n, j \in 1 .. m : s[i] # t[j]  BY <1>1, <1>6 DEF Elements
  <2> SUFFICES ASSUME NEW i \in 1 .. n + m, NEW j \in 1 .. n + m, u[i] = u[j] PROVE i = j
    BY <1>1 DEF Distinct
  <2>2. CASE i \in 1 .. n /\ j \in 1 .. n  BY <1>1, <1>6, <2>2 DEF Distinct
  <2>3. CASE i \in 1 .. n /\ \E l \in 1 .. m : j = n + l
    <3>1. PICK b \in 1 .. m : j = n + b  BY <2>3
    <3>2. u[i] = s[i] /\ u[j] = t[b]  BY <1>1, <2>3, <3>1
    <3> QED BY <2>1, <2>3, <3>2
  <2>4. CASE j \in 1 .. n /\ \E l \in 1 .. m : i = n + l
    <3>1. PICK b \in 1 .. m : i = n + b  BY <2>4
    <3>2. u[j] = s[j] /\ u[i] = t[b]  BY <1>1, <2>4, <3>1
    <3> QED BY <2>1, <2>4, <3>2
  <2>5. CASE (\E l \in 1 .. m : i = n + l) /\ (\E l \in 1 .. m : j = n + l)
    <3>1. PICK a \in 1 .. m : i = n + a  BY <2>5
    <3>2. PICK b \in 1 .. m : j = n + b  BY <2>5
    <3>3. t[a] = t[b]  BY <1>1, <3>1, <3>2
    <3> QED BY <1>1, <1>6, <3>1, <3>2, <3>3 DEF Distinct
  <2> QED BY <1>2, <2>2, <2>3, <2>4, <2>5
<1> QED BY <1>1, <1>5, <1>6 DEF u

GrowsBehind(a, b, c) == Append(a \o b, c) = a \o Append(b, c)

\* An element behind two sequences is one behind the second.
LEMMA JoinedMore ==
  ASSUME NEW Item, NEW a \in Seq(Item), NEW b \in Seq(Item), NEW c \in Item
  PROVE  GrowsBehind(a, b, c)
BY DEF GrowsBehind

\* Of two sequences end to end Only keeps what it keeps of each.
LEMMA OnlyJoined ==
  ASSUME NEW Item, NEW s \in Seq(Item), NEW t \in Seq(Item), NEW S
  PROVE  Only(s \o t, S) = Only(s, S) \o Only(t, S)
<1> DEFINE P == {r \in Seq(Item) : Only(s \o r, S) = Only(s, S) \o Only(r, S)}
           k == Only(s, S)
<1>0. /\ k \in Seq(Item) /\ \A q \in Seq(Item) : Only(q, S) \in Seq(Item)
      /\ \A q \in Seq(Item), y \in Item :
           Only(Append(q, y), S) = IF y \in S THEN Append(Only(q, S), y) ELSE Only(q, S)
  BY OnlyMore
<1>1. << >> \in P
  <2>1. s \o << >> = s /\ << >> \in Seq(Item)  OBVIOUS
  <2>2. Only(<< >>, S) = << >>  BY OnlyMore
  <2> HIDE DEF k
  <2>3. k \o << >> = k  BY <1>0
  <2> QED BY <2>1, <2>2, <2>3 DEF k
<1>2. ASSUME NEW r \in Seq(Item), NEW x \in Item, r \in P PROVE Append(r, x) \in P
  <2> DEFINE e == Only(r, S)
             a == s \o r
  <2>1. s \o Append(r, x) = Append(a, x) /\ a \in Seq(Item) /\ Append(r, x) \in Seq(Item)  OBVIOUS
  <2>2. Only(Append(r, x), S) = IF x \in S THEN Append(e, x) ELSE e  BY <1>0
  <2>3. e \in Seq(Item)  BY <1>0
  <2>4. Only(a, S) = k \o e  BY <1>2
  <2> HIDE DEF a, e, k
  <2>5. Only(Append(a, x), S) = IF x \in S THEN Append(Only(a, S), x) ELSE Only(a, S)
    BY <1>0, <2>1
  <2>6. Append(k \o e, x) = k \o Append(e, x)
    <3>1. k \in Seq(Item)  BY <1>0
    <3>2. GrowsBehind(k, e, x)  BY <2>3, <3>1, JoinedMore
    <3> QED BY <3>2 DEF GrowsBehind
  <2>7. Only(s \o Append(r, x), S) = k \o Only(Append(r, x), S)
    BY <2>1, <2>2, <2>4, <2>5, <2>6
  <2> QED BY <2>1, <2>7 DEF k
<1>3. Seq(Item) \subseteq P
  <2> HIDE DEF P
  <2> QED BY <1>1, <1>2, EverySequence
<1> QED BY <1>3

\* Where the elements of two sequences end to end are.
LEMMA JoinedAre ==
  ASSUME NEW Item, NEW s \in Seq(Item), NEW t \in Seq(Item)
  PROVE  /\ s \o t \in Seq(Item) /\ Len(s \o t) = Len(s) + Len(t)
         /\ Len(s) \in Nat /\ Len(t) \in Nat
         /\ DOMAIN s = 1 .. Len(s) /\ DOMAIN t = 1 .. Len(t)
         /\ DOMAIN (s \o t) = 1 .. Len(s) + Len(t)
         /\ \A i \in 1 .. Len(s) : (s \o t)[i] = s[i]
         /\ \A i \in 1 .. Len(t) : (s \o t)[Len(s) + i] = t[i]
OBVIOUS

\* A sequence is the function of its places.
LEMMA SequenceIs ==
  ASSUME NEW Item, NEW s \in Seq(Item)
  PROVE  s = [i \in 1 .. Len(s) |-> s[i]]
OBVIOUS

\* Two boxes end to end are read one after the other.
LEMMA ReadJoined ==
  ASSUME NEW Item, NEW a \in Seq(Item), NEW b \in Seq(Item), NEW p
  PROVE  ReadFrom(p, a \o b) = ReadFrom(ReadFrom(p, a), b)
<1> DEFINE P == {r \in Seq(Item) : ReadFrom(p, a \o r) = ReadFrom(ReadFrom(p, a), r)}
<1>1. << >> \in P
  <2>1. a \o << >> = a /\ << >> \in Seq(Item)  OBVIOUS
  <2>2. ReadFrom(ReadFrom(p, a), << >>) = ReadFrom(p, a)  BY ReadMore
  <2> QED BY <2>1, <2>2
<1>2. ASSUME NEW r \in Seq(Item), NEW x \in Item, r \in P PROVE Append(r, x) \in P
  <2> DEFINE c == a \o r
             q == ReadFrom(p, a)
  <2>1. a \o Append(r, x) = Append(c, x) /\ c \in Seq(Item) /\ Append(r, x) \in Seq(Item)  OBVIOUS
  <2>2. ReadFrom(p, c) = ReadFrom(q, r)  BY <1>2
  <2> HIDE DEF c, q
  <2>3. ReadFrom(p, Append(c, x)) = Read(ReadFrom(p, c), x)  BY <2>1, ReadMore
  <2>4. ReadFrom(q, Append(r, x)) = Read(ReadFrom(q, r), x)  BY ReadMore
  <2> QED BY <2>1, <2>2, <2>3, <2>4 DEF q
<1>3. Seq(Item) \subseteq P
  <2> HIDE DEF P
  <2> QED BY <1>1, <1>2, EverySequence
<1> QED BY <1>3

\* A box of one token.
LEMMA ReadOne ==
  ASSUME NEW p, NEW tok
  PROVE  ReadFrom(p, <<tok>>) = Read(p, tok)
<1> DEFINE e == << >>
<1>1. e \in Seq({tok}) /\ tok \in {tok} /\ Append(e, tok) = <<tok>>  OBVIOUS
<1>2. ReadFrom(p, e) = p  BY ReadMore
<1> HIDE DEF e
<1>0. \A box \in Seq({tok}), x \in {tok} : ReadFrom(p, Append(box, x)) = Read(ReadFrom(p, box), x)
  BY ReadMore
<1>3. ReadFrom(p, Append(e, tok)) = Read(ReadFrom(p, e), tok)  BY <1>0, <1>1
<1> QED BY <1>1, <1>2, <1>3

\* The names of a sequence of named things.
LEMMA NamesAre ==
  ASSUME NEW Item, NEW N, \A x \in Item : x.name \in N, NEW e \in Seq(Item)
  PROVE  /\ NamesOf(e) \in Seq(N) /\ Len(NamesOf(e)) = Len(e)
         /\ DOMAIN NamesOf(e) = DOMAIN e /\ DOMAIN e = 1 .. Len(e) /\ Len(e) \in Nat
         /\ \A i \in DOMAIN e : NamesOf(e)[i] = e[i].name /\ e[i] \in Item
         /\ Elements(NamesOf(e)) = {x.name : x \in Elements(e)}
<1>1. DOMAIN e = 1 .. Len(e) /\ Len(e) \in Nat /\ \A i \in DOMAIN e : e[i] \in Item  OBVIOUS
<1>2. NamesOf(e) = [i \in 1 .. Len(e) |-> e[i].name]  BY <1>1 DEF NamesOf
<1>3. \A i \in 1 .. Len(e) : e[i].name \in N  BY <1>1
<1>4. NamesOf(e) \in Seq(N) /\ Len(NamesOf(e)) = Len(e)  BY <1>1, <1>2, <1>3
<1>5. Elements(NamesOf(e)) = {x.name : x \in Elements(e)}  BY <1>1, <1>2 DEF Elements
<1> QED BY <1>1, <1>2, <1>4, <1>5

\* The names of media types, given and built in.
Kinds == STRING \cup {"image", "video", "gif"}
SignedKinds == [name : Kinds, inc : BOOLEAN]

\* A type clause names kinds of media.
LEMMA TypesAre ==
  ASSUME NEW seg \in Seq(SignedKinds)
  PROVE  TypesOf(seg) \in Seq(Kinds)
<1> DEFINE S == {e \in Elements(seg) : e.inc}
           kept == Only(seg, S)
           base == IF Included(seg) = <<>> /\ Excluded(seg) # {} THEN AllMediaTypes ELSE Included(seg)
<1>1. \A x \in SignedKinds : x.name \in Kinds  BY DEF SignedKinds
<1>2. kept \in Seq(SignedKinds)
  <2> HIDE DEF S
  <2> QED BY OnlyMore
<1>3. NamesOf(kept) \in Seq(Kinds)
  <2> HIDE DEF kept
  <2> QED BY <1>1, <1>2, NamesAre
<1>4. Included(seg) \in Seq(Kinds)  BY <1>3, SeenMore DEF Included
<1>5. AllMediaTypes \in Seq(Kinds)
  <2> DEFINE a == "image"
             b == "video"
             c == "gif"
  <2>1. a \in Kinds /\ b \in Kinds /\ c \in Kinds  BY DEF Kinds
  <2> HIDE DEF a, b, c
  <2>2. <<a, b, c>> \in Seq(Kinds)  BY <2>1
  <2> QED BY <2>2 DEF AllMediaTypes, a, b, c
<1>6. base \in Seq(Kinds)  BY <1>4, <1>5
<1>7. TypesOf(seg) = Only(base, Elements(base) \ Excluded(seg))  BY DEF TypesOf
<1> HIDE DEF base
<1>8. \A Q : Only(base, Q) \in Seq(Kinds)  BY <1>6, OnlyMore
<1> QED BY <1>7, <1>8

-----------------------------------------------------------------------------
(* What reading a box leaves. *)
Unquotable == {tok \in SQTokens : ~LosesQuotes(tok)}
OneWord(v) == v = None \/ (v \in Seq(STRING) /\ Len(v) = 1)
PlainTerms == {tok \in Unquotable : \A p : Read(p, tok) = Text(p, tok)}
IsQuery(p) ==
  /\ p = [f \in Fields |-> p[f]]
  /\ p.subs \in Seq(Signs) /\ p.types \in Seq(Kinds) /\ Distinct(p.types)
  /\ p.terms \in Seq(PlainTerms)
  /\ p.after \in Moments \cup {None} /\ p.before \in Moments \cup {None}
  /\ OneWord(p.author)

\* A field that is set to what it may be leaves a query.
LEMMA QueryKeeps ==
  ASSUME NEW p, IsQuery(p)
  PROVE  /\ \A v \in Seq(Signs) : IsQuery([p EXCEPT !.subs = v])
         /\ \A v \in Seq(Kinds) : Distinct(v) => IsQuery([p EXCEPT !.types = v])
         /\ \A v \in Seq(PlainTerms) : IsQuery([p EXCEPT !.terms = v])
         /\ \A v \in Moments \cup {None} : IsQuery([p EXCEPT !.after = v])
         /\ \A v \in Moments \cup {None} : IsQuery([p EXCEPT !.before = v])
         /\ \A v : OneWord(v) => IsQuery([p EXCEPT !.author = v])
         /\ \A k \in Values \ {"author"} : \A v : IsQuery([p EXCEPT ![k] = v])
<1> DEFINE Others == {"subs", "types", "terms", "after", "before", "author"}
<1> USE DEF IsQuery
<1>1. Others \subseteq Fields /\ Values \ {"author"} \subseteq Fields \ Others
  BY DEF Fields, Lists, Values
<1> HIDE DEF Fields, Values, OneWord
<1>2. ASSUME NEW v \in Seq(Signs) PROVE IsQuery([p EXCEPT !.subs = v])  BY <1>1
<1>3. ASSUME NEW v \in Seq(Kinds), Distinct(v) PROVE IsQuery([p EXCEPT !.types = v])  BY <1>1, <1>3
<1>4. ASSUME NEW v \in Seq(PlainTerms) PROVE IsQuery([p EXCEPT !.terms = v])  BY <1>1
<1>5. ASSUME NEW v \in Moments \cup {None} PROVE IsQuery([p EXCEPT !.after = v])  BY <1>1
<1>6. ASSUME NEW v \in Moments \cup {None} PROVE IsQuery([p EXCEPT !.before = v])  BY <1>1
<1>7. ASSUME NEW v, OneWord(v) PROVE IsQuery([p EXCEPT !.author = v])  BY <1>1, <1>7
<1>8. ASSUME NEW k \in Values \ {"author"}, NEW v PROVE IsQuery([p EXCEPT ![k] = v])  BY <1>1
<1> QED BY <1>2, <1>3, <1>4, <1>5, <1>6, <1>7, <1>8

\* One token, by its kind.
LEMMA ReadIs ==
  ASSUME NEW p, NEW tok
  PROVE  /\ tok.k = "sub" => Read(p, tok) = [p EXCEPT !.subs = p.subs \o tok.v]
         /\ tok.k = "type" => Read(p, tok) = IF TypesOf(tok.v) = <<>> THEN Text(p, tok)
                                             ELSE [p EXCEPT !.types = FirstSeen(p.types \o TypesOf(tok.v))]
         /\ tok.k \in Values => Read(p, tok) = [p EXCEPT ![tok.k] = tok.v]
         /\ tok.k = "date" => Read(p, tok) = DateEq(p, tok.v)
         /\ tok.k = "after" => Read(p, tok) = IF tok.v.grain = "month" THEN Text(p, tok) ELSE DateOp(p, ">", tok.v)
         /\ tok.k = "before" => Read(p, tok) = IF tok.v.grain = "month" THEN Text(p, tok) ELSE DateOp(p, "<", tok.v)
         /\ tok.k \in {">", "<"} => Read(p, tok) = DateOp(p, tok.k, tok.v)
         /\ tok.k = "text" => Read(p, tok) = Text(p, tok)
<1>1. tok.k \in Values =>
        tok.k \notin {"sub", "type", "date", "after", "before", ">", "<", "quoted", "text"}
  BY DEF Values
<1>3. tok.k \in {"date", "after", "before", ">", "<", "text", "sub", "type"} => tok.k \notin Values
  BY DEF Values
<1> HIDE DEF Values
<1>4. tok.k = "sub" => Read(p, tok) = [p EXCEPT !.subs = p.subs \o tok.v]  BY <1>3 DEF Read
<1>5. tok.k = "type" => Read(p, tok) = IF TypesOf(tok.v) = <<>> THEN Text(p, tok)
                                       ELSE [p EXCEPT !.types = FirstSeen(p.types \o TypesOf(tok.v))]
  BY <1>3 DEF Read
<1>6. tok.k \in Values => Read(p, tok) = [p EXCEPT ![tok.k] = tok.v]  BY <1>1 DEF Read
<1>7. tok.k = "date" => Read(p, tok) = DateEq(p, tok.v)  BY <1>3 DEF Read
<1>8. tok.k = "after" => Read(p, tok) = IF tok.v.grain = "month" THEN Text(p, tok) ELSE DateOp(p, ">", tok.v)
  BY <1>3 DEF Read
<1>9. tok.k = "before" => Read(p, tok) = IF tok.v.grain = "month" THEN Text(p, tok) ELSE DateOp(p, "<", tok.v)
  BY <1>3 DEF Read
<1>10. tok.k \in {">", "<"} => Read(p, tok) = DateOp(p, tok.k, tok.v)  BY <1>3 DEF Read
<1>11. tok.k = "text" => Read(p, tok) = Text(p, tok)  BY <1>3 DEF Read
<1> QED BY <1>4, <1>5, <1>6, <1>7, <1>8, <1>9, <1>10, <1>11

\* What a date stands for are moments.
LEMMA BoundsAre ==
  ASSUME NEW d \in Dates
  PROVE  Bounds(d).from \in Moments /\ Bounds(d).to \in Moments \cup {None}
<1>1. d.n \in Int /\ d.grain \in {"day", "month", "ago"}  BY DEF Dates
<1>2. \A n \in Int : <<n, "start">> \in Moments /\ <<n, "mid">> \in Moments /\ <<n, "end">> \in Moments
  BY DEF Moments
<1>3. 30 * d.n + 1 \in Int /\ 30 * d.n + 30 \in Int /\ SQToday - d.n \in Int  BY <1>1, SQAssumption
<1> HIDE DEF Moments
<1> QED BY <1>1, <1>2, <1>3 DEF Bounds

\* A date leaves a query.
LEMMA DatesKeep ==
  ASSUME NEW p, IsQuery(p), NEW d \in Dates
  PROVE  IsQuery(DateEq(p, d)) /\ \A op : IsQuery(DateOp(p, op, d))
<1> DEFINE from == Bounds(d).from
           to == Bounds(d).to
           q == [p EXCEPT !.after = from]
<1>1. from \in Moments /\ to \in Moments \cup {None}  BY BoundsAre
<1>2. DateEq(p, d) = IF to = None THEN q ELSE [q EXCEPT !.before = to]  BY DEF DateEq
<1>3. \A op : DateOp(p, op, d) = IF op = ">" THEN q
                                 ELSE [p EXCEPT !.before = IF to # None THEN to ELSE from]
  BY DEF DateOp
<1> HIDE DEF from, to
<1>4. IsQuery(q)  BY <1>1, QueryKeeps
<1> HIDE DEF q
<1>5. \A m \in Moments \cup {None} : IsQuery([q EXCEPT !.before = m]) /\ IsQuery([p EXCEPT !.before = m])
  BY <1>4, QueryKeeps
<1>6. (IF to # None THEN to ELSE from) \in Moments \cup {None}  BY <1>1
<1> QED BY <1>1, <1>2, <1>3, <1>4, <1>5, <1>6

\* So does every token that can be typed.
LEMMA ReadKeeps ==
  ASSUME NEW p, IsQuery(p), NEW tok \in Unquotable
  PROVE  IsQuery(Read(p, tok))
<1>1. /\ p.subs \in Seq(Signs) /\ p.types \in Seq(Kinds) /\ p.terms \in Seq(PlainTerms)
  BY DEF IsQuery
<1>2. ASSUME \A q : Read(q, tok) = Text(q, tok) PROVE IsQuery(Read(p, tok))
  <2>1. tok \in PlainTerms  BY <1>2 DEF PlainTerms
  <2>2. Append(p.terms, tok) \in Seq(PlainTerms)  BY <1>1, <2>1
  <2> DEFINE v == Append(p.terms, tok)
  <2>3. Text(p, tok) = [p EXCEPT !.terms = v]  BY DEF Text
  <2> HIDE DEF v
  <2>4. v \in Seq(PlainTerms)  BY <2>2 DEF v
  <2>5. IsQuery([p EXCEPT !.terms = v])  BY <2>4, QueryKeeps
  <2> QED BY <1>2, <2>3, <2>5
<1>3. CASE tok.k = "sub" /\ tok.v \in Seq(Signs)
  <2> DEFINE v == p.subs \o tok.v
  <2>1. v \in Seq(Signs)  BY <1>1, <1>3
  <2>2. Read(p, tok) = [p EXCEPT !.subs = v]  BY <1>3, ReadIs
  <2> HIDE DEF v
  <2>3. IsQuery([p EXCEPT !.subs = v])  BY <2>1, QueryKeeps
  <2> QED BY <2>2, <2>3
<1>4. CASE tok.k = "type" /\ tok.v \in Seq(Signs)
  <2> DEFINE t == TypesOf(tok.v)
  <2>1. tok.v \in Seq(SignedKinds)
    <3>1. Signs \subseteq SignedKinds  BY DEF Signs, SignedKinds, Kinds
    <3> QED BY <1>4, <3>1
  <2>2. t \in Seq(Kinds)  BY <2>1, TypesAre
  <2>3. \A q : Read(q, tok) = IF t = <<>> THEN Text(q, tok) ELSE [q EXCEPT !.types = FirstSeen(q.types \o t)]
    BY <1>4, ReadIs
  <2> HIDE DEF t
  <2>4. p.types \o t \in Seq(Kinds)  BY <1>1, <2>2
  <2>5. FirstSeen(p.types \o t) \in Seq(Kinds) /\ Distinct(FirstSeen(p.types \o t))  BY <2>4, SeenOnce
  <2> QED BY <1>2, <2>3, <2>5, QueryKeeps
<1>5. CASE tok.k \in Values /\ (tok.k = "author" => OneWord(tok.v))
  <2>1. IsQuery([p EXCEPT ![tok.k] = tok.v])
    <3>1. CASE tok.k = "author"
      <4>1. IsQuery([p EXCEPT !.author = tok.v])  BY <1>5, <3>1, QueryKeeps
      <4> QED BY <3>1, <4>1
    <3>2. CASE tok.k # "author"  BY <1>5, <3>2, QueryKeeps
    <3> QED BY <3>1, <3>2
  <2>2. Read(p, tok) = [p EXCEPT ![tok.k] = tok.v]  BY <1>5, ReadIs
  <2> QED BY <2>1, <2>2
<1>6. CASE tok.k = "text"  BY <1>2, <1>6, ReadIs
<1>7. CASE tok.k = "date" /\ tok.v \in Dates
  <2>1. IsQuery(DateEq(p, tok.v))  BY <1>7, DatesKeep
  <2>2. Read(p, tok) = DateEq(p, tok.v)  BY <1>7, ReadIs
  <2> QED BY <2>1, <2>2
<1>8. CASE tok.k = "after" /\ tok.v \in Dates
  <2>1. \A q : Read(q, tok) = IF tok.v.grain = "month" THEN Text(q, tok) ELSE DateOp(q, ">", tok.v)
    BY <1>8, ReadIs
  <2>2. IsQuery(DateOp(p, ">", tok.v))  BY <1>8, DatesKeep
  <2> QED BY <1>2, <2>1, <2>2
<1>9. CASE tok.k = "before" /\ tok.v \in Dates
  <2>1. \A q : Read(q, tok) = IF tok.v.grain = "month" THEN Text(q, tok) ELSE DateOp(q, "<", tok.v)
    BY <1>9, ReadIs
  <2>2. IsQuery(DateOp(p, "<", tok.v))  BY <1>9, DatesKeep
  <2> QED BY <1>2, <2>1, <2>2
<1>10. CASE tok.k \in {">", "<"} /\ tok.v \in Dates
  <2>1. IsQuery(DateOp(p, tok.k, tok.v))  BY <1>10, DatesKeep
  <2>2. Read(p, tok) = DateOp(p, tok.k, tok.v)  BY <1>10, ReadIs
  <2> QED BY <2>1, <2>2
<1>11. tok \in SQTokens /\ tok.k # "quoted"  BY DEF Unquotable, LosesQuotes
<1>12. tok.k = "author" => OneWord(tok.v)
  <2>1. ASSUME tok.k = "author" PROVE tok.v \in Seq(STRING) /\ tok.v # <<>>
    BY <1>11, <2>1, SQAssumption
  <2>2. tok.k = "author" => ~(Len(tok.v) > 1)  BY DEF Unquotable, LosesQuotes
  <2>3. \A v \in Seq(STRING) : v # <<>> /\ ~(Len(v) > 1) => Len(v) = 1
    <3>1. ASSUME NEW v \in Seq(STRING), v # <<>>, ~(Len(v) > 1) PROVE Len(v) = 1
      <4> DEFINE n == Len(v)
      <4>1. n \in Nat \ {0}  BY <3>1, EmptySeq
      <4>2. ~(n > 1)  BY <3>1
      <4> HIDE DEF n
      <4>3. n = 1  BY <4>1, <4>2
      <4> QED BY <4>3 DEF n
    <3> QED BY <3>1
  <2> QED BY <2>1, <2>2, <2>3 DEF OneWord
<1>13. \/ tok.k \in Values \ {"author"} \/ tok.k = "text" \/ tok.k = "author"
       \/ tok.k \in {"sub", "type"} /\ tok.v \in Seq(Signs)
       \/ tok.k \in {"date", "after", "before", ">", "<"} /\ tok.v \in Dates
  BY <1>11, SQAssumption
<1>14. CASE tok.k = "author"
  <2>1. "author" \in Values  BY DEF Values
  <2> QED BY <1>5, <1>12, <1>14, <2>1
<1>15. CASE tok.k \in Values \ {"author"}  BY <1>5, <1>15
<1> QED BY <1>3, <1>4, <1>6, <1>7, <1>8, <1>9, <1>10, <1>13, <1>14, <1>15

\* Every box without quotes is read as a query.
LEMMA ParseIs ==
  ASSUME NEW box \in Seq(Unquotable)
  PROVE  IsQuery(Parse(box))
<1> DEFINE P == {b \in Seq(Unquotable) : IsQuery(ReadFrom(NoQuery, b))}
<1>1. << >> \in P
  <2>1. ReadFrom(NoQuery, << >>) = NoQuery  BY ReadMore
  <2>2. IsQuery(NoQuery)
    <3>1. NoQuery = [f \in Fields |-> NoQuery[f]]  BY DEF NoQuery
    <3>2. NoQuery.subs = << >> /\ NoQuery.types = << >> /\ NoQuery.terms = << >>
          /\ NoQuery.after = None /\ NoQuery.before = None /\ NoQuery.author = None
      BY DEF NoQuery, Fields, Lists, Values
    <3>3. \A S : << >> \in Seq(S)  OBVIOUS
    <3>4. Distinct(<< >>)  BY DEF Distinct
    <3> QED BY <3>1, <3>2, <3>3, <3>4 DEF IsQuery, OneWord
  <2>3. << >> \in Seq(Unquotable)  OBVIOUS
  <2> QED BY <2>1, <2>2, <2>3
<1>2. ASSUME NEW b \in Seq(Unquotable), NEW x \in Unquotable, b \in P PROVE Append(b, x) \in P
  <2>1. ReadFrom(NoQuery, Append(b, x)) = Read(ReadFrom(NoQuery, b), x)  BY ReadMore
  <2>2. IsQuery(ReadFrom(NoQuery, b))  BY <1>2
  <2>3. Append(b, x) \in Seq(Unquotable)  OBVIOUS
  <2> QED BY <2>1, <2>2, <2>3, ReadKeeps
<1>3. Seq(Unquotable) \subseteq P
  <2> HIDE DEF P
  <2> QED BY <1>1, <1>2, EverySequence
<1> QED BY <1>3 DEF Parse

-----------------------------------------------------------------------------
(* What is written of the subs says the same. *)
LEMMA OneIsBoth ==
  ASSUME NEW i \in Int
  PROVE  Greatest({i}) = i /\ Least({i}) = i
BY DEF Greatest, Least

\* A sequence without elements is empty.
LEMMA NothingIn ==
  ASSUME NEW Item, NEW s \in Seq(Item), Elements(s) = {}
  PROVE  s = << >>
<1>1. DOMAIN s = 1 .. Len(s) /\ Len(s) \in Nat  OBVIOUS
<1>2. DOMAIN s = {}  BY DEF Elements
<1>3. Len(s) = 0  BY <1>1, <1>2
<1> QED BY <1>3

\* Names with one sign.
LEMMA AsIs ==
  ASSUME NEW N, NEW names \in Seq(N), NEW inc \in BOOLEAN
  PROVE  /\ As(names, inc) \in Seq([name : N, inc : BOOLEAN])
         /\ Len(As(names, inc)) = Len(names) /\ Len(names) \in Nat
         /\ \A i \in 1 .. Len(names) : As(names, inc)[i] = [name |-> names[i], inc |-> inc]
         /\ NamesOf(As(names, inc)) = names
<1> DEFINE a == As(names, inc)
           n == Len(names)
           Item == [name : N, inc : BOOLEAN]
<1>1. n \in Nat /\ DOMAIN names = 1 .. n /\ names = [i \in 1 .. n |-> names[i]]
      /\ \A i \in 1 .. n : names[i] \in N
  OBVIOUS
<1>2. a = [i \in 1 .. n |-> [name |-> names[i], inc |-> inc]]  BY <1>1 DEF As
<1>3. \A i \in 1 .. n : [name |-> names[i], inc |-> inc] \in Item  BY <1>1
<1>4. a \in Seq(Item) /\ Len(a) = n
  <2> HIDE DEF Item, n
  <2> QED BY <1>1, <1>2, <1>3
<1>5. DOMAIN a = 1 .. n /\ \A i \in 1 .. n : a[i] = [name |-> names[i], inc |-> inc]  BY <1>2
<1>6. NamesOf(a) = [i \in 1 .. n |-> a[i].name]  BY <1>5 DEF NamesOf
<1>7. \A i \in 1 .. n : a[i].name = names[i]  BY <1>5
<1> HIDE DEF a, n, Item
<1>8. NamesOf(a) = names  BY <1>1, <1>6, <1>7
<1> QED BY <1>1, <1>4, <1>5, <1>8 DEF a, n, Item

\* The names in and the names out are distinct, and none is both.
LEMMA SignedIs ==
  ASSUME NEW e \in Seq(Signs)
  PROVE  /\ Signed(e, TRUE) \in Seq(STRING) /\ Signed(e, FALSE) \in Seq(STRING)
         /\ Distinct(Signed(e, TRUE)) /\ Distinct(Signed(e, FALSE))
         /\ Elements(Signed(e, TRUE)) \cap Elements(Signed(e, FALSE)) = {}
<1> DEFINE order == FirstSeen(NamesOf(e))
           S(inc) == {n \in Elements(order) : LastSign(e, n) = inc}
<1>1. NamesOf(e) \in Seq(STRING)
  <2>1. \A x \in Signs : x.name \in STRING  BY DEF Signs
  <2> QED BY <2>1, NamesAre
<1>2. order \in Seq(STRING) /\ Distinct(order)  BY <1>1, SeenOnce
<1>3. \A inc : Signed(e, inc) = Only(order, S(inc))  BY DEF Signed
<1> HIDE DEF order
<1>4. S(TRUE) \cap S(FALSE) = {}  OBVIOUS
<1> HIDE DEF S
<1>5. \A inc : /\ Only(order, S(inc)) \in Seq(STRING) /\ Distinct(Only(order, S(inc)))
               /\ Elements(Only(order, S(inc))) \subseteq S(inc)
  BY <1>2, OnlyKeeps
<1> QED BY <1>3, <1>4, <1>5

\* The names in, then the names out, are read as they were written.
LEMMA SignedBack ==
  ASSUME NEW W \in Seq(STRING), NEW B \in Seq(STRING), Distinct(W), Distinct(B),
         Elements(W) \cap Elements(B) = {}
  PROVE  LET e == As(W, TRUE) \o As(B, FALSE) IN
           e \in Seq(Signs) /\ Signed(e, TRUE) = W /\ Signed(e, FALSE) = B
<1> DEFINE w == As(W, TRUE)
           b == As(B, FALSE)
           e == w \o b
           o == W \o B
           n == Len(W)
           m == Len(B)
           S(inc) == {x \in Elements(o) : LastSign(e, x) = inc}
<1>1. /\ w \in Seq(Signs) /\ Len(w) = n /\ n \in Nat
      /\ \A i \in 1 .. n : w[i] = [name |-> W[i], inc |-> TRUE]
  BY AsIs DEF Signs
<1>2. /\ b \in Seq(Signs) /\ Len(b) = m /\ m \in Nat
      /\ \A i \in 1 .. m : b[i] = [name |-> B[i], inc |-> FALSE]
  BY AsIs DEF Signs
<1>3. /\ o \in Seq(STRING) /\ Len(o) = n + m /\ DOMAIN o = 1 .. n + m
      /\ \A i \in 1 .. n : o[i] = W[i]
      /\ \A i \in 1 .. m : o[n + i] = B[i]
  BY JoinedAre
<1>4. DOMAIN W = 1 .. n /\ DOMAIN B = 1 .. m  OBVIOUS
<1>5. o \in Seq(STRING) /\ Elements(o) = Elements(W) \cup Elements(B) /\ Distinct(o)
  BY ElementsJoined
<1> HIDE DEF e, w, b, o
<1>0. o = [i \in 1 .. n + m |-> o[i]]
  <2>1. o = [i \in 1 .. Len(o) |-> o[i]]  BY <1>3, SequenceIs
  <2> QED BY <1>3, <2>1
<1> HIDE DEF n, m
<1>6. /\ e \in Seq(Signs) /\ DOMAIN e = 1 .. n + m
      /\ \A i \in 1 .. n : e[i] = w[i]
      /\ \A i \in 1 .. m : e[n + i] = b[i]
  <2>0. w \in Seq(Signs) /\ b \in Seq(Signs)  BY <1>1, <1>2
  <2>1. /\ w \o b \in Seq(Signs) /\ DOMAIN (w \o b) = 1 .. Len(w) + Len(b)
        /\ \A i \in 1 .. Len(w) : (w \o b)[i] = w[i]
        /\ \A i \in 1 .. Len(b) : (w \o b)[Len(w) + i] = b[i]
    BY <2>0, JoinedAre
  <2> QED BY <1>1, <1>2, <2>1 DEF e
<1>7. \A i \in 1 .. n : e[i].name = o[i] /\ e[i].inc = TRUE  BY <1>1, <1>3, <1>6
<1>8. ASSUME NEW i \in 1 .. m PROVE e[n + i].name = o[n + i] /\ e[n + i].inc = FALSE
  <2>1. e[n + i] = b[i] /\ o[n + i] = B[i]  BY <1>3, <1>6
  <2>2. b[i].name = B[i] /\ b[i].inc = FALSE  BY <1>2
  <2> QED BY <2>1, <2>2
<1>9. \A i \in 1 .. n + m : i \in 1 .. n \/ \E j \in 1 .. m : i = n + j
  <2> SUFFICES ASSUME NEW i \in 1 .. n + m, i \notin 1 .. n PROVE \E j \in 1 .. m : i = n + j
    OBVIOUS
  <2>1. i - n \in 1 .. m /\ i = n + (i - n)  BY <1>1, <1>2
  <2> QED BY <2>1
<1>10. \A i \in 1 .. n + m : e[i].name = o[i]  BY <1>7, <1>8, <1>9
<1>11. NamesOf(e) = o  BY <1>0, <1>6, <1>10 DEF NamesOf
<1>12. FirstSeen(NamesOf(e)) = o  BY <1>5, <1>11, SeenOnce
<1>13. ASSUME NEW i \in 1 .. n + m PROVE LastSign(e, o[i]) = e[i].inc
  <2>1. {j \in DOMAIN e : e[j].name = o[i]} = {i}  BY <1>3, <1>5, <1>6, <1>10 DEF Distinct
  <2>2. i \in Int  BY <1>1, <1>2
  <2> QED BY <2>1, <2>2, OneIsBoth DEF LastSign
<1>14. \A x \in Elements(W) : x \in S(TRUE) /\ x \notin S(FALSE)
  <2> SUFFICES ASSUME NEW i \in 1 .. n PROVE W[i] \in S(TRUE) /\ W[i] \notin S(FALSE)
    BY <1>4 DEF Elements
  <2>1. i \in 1 .. n + m /\ W[i] = o[i] /\ e[i].inc = TRUE  BY <1>1, <1>2, <1>3, <1>7
  <2>2. LastSign(e, W[i]) = TRUE  BY <2>1, <1>13
  <2>3. W[i] \in Elements(o)  BY <1>3, <2>1 DEF Elements
  <2> QED BY <2>2, <2>3
<1>15. \A x \in Elements(B) : x \in S(FALSE) /\ x \notin S(TRUE)
  <2> SUFFICES ASSUME NEW i \in 1 .. m PROVE B[i] \in S(FALSE) /\ B[i] \notin S(TRUE)
    BY <1>4 DEF Elements
  <2>4. n + i \in 1 .. n + m  BY <1>1, <1>2
  <2>1. n + i \in 1 .. n + m /\ B[i] = o[n + i] /\ e[n + i].inc = FALSE  BY <1>3, <1>8, <2>4
  <2>2. LastSign(e, B[i]) = FALSE  BY <2>1, <1>13
  <2>3. B[i] \in Elements(o)  BY <1>3, <2>1 DEF Elements
  <2> QED BY <2>2, <2>3
<1>16. \A inc : Signed(e, inc) = Only(o, S(inc))  BY <1>12 DEF Signed
<1> HIDE DEF S
<1>17. \A inc : Only(o, S(inc)) = Only(W, S(inc)) \o Only(B, S(inc))  BY OnlyJoined DEF o
<1>18. Only(W, S(TRUE)) = W /\ Only(B, S(FALSE)) = B  BY <1>14, <1>15, OnlyKeeps
<1>19. Only(W, S(FALSE)) = << >>
  <2> DEFINE F == S(FALSE)
  <2>1. Elements(W) \cap F = {}  BY <1>14
  <2> HIDE DEF F
  <2>2. Only(W, F) \in Seq(STRING) /\ Elements(Only(W, F)) = Elements(W) \cap F  BY OnlyKeeps
  <2>3. Only(W, F) = << >>  BY <2>1, <2>2, NothingIn
  <2> QED BY <2>3 DEF F
<1>20. Only(B, S(TRUE)) = << >>
  <2> DEFINE F == S(TRUE)
  <2>1. Elements(B) \cap F = {}  BY <1>15
  <2> HIDE DEF F
  <2>2. Only(B, F) \in Seq(STRING) /\ Elements(Only(B, F)) = Elements(B) \cap F  BY OnlyKeeps
  <2>3. Only(B, F) = << >>  BY <2>1, <2>2, NothingIn
  <2> QED BY <2>3 DEF F
<1>21. W \o << >> = W /\ << >> \o B = B  OBVIOUS
<1>22. Signed(e, TRUE) = W /\ Signed(e, FALSE) = B  BY <1>16, <1>17, <1>18, <1>19, <1>20, <1>21
<1> QED BY <1>6, <1>22 DEF e, w, b

-----------------------------------------------------------------------------
(* What is read of what was written: the scope sorted by sign, the dates    *)
(* without their part of the day, and all else as it was.                   *)
Day1(t) == IF t = None THEN None ELSE <<t[1], "start">>
Day2(t) == IF t = None THEN None ELSE <<t[1], "end">>
Reread(p) ==
  [f \in Fields |-> CASE f = "subs"   -> Scope(p)
                      [] f = "after"  -> Day1(p.after)
                      [] f = "before" -> Day2(p.before)
                      [] f \in Fields \ {"subs", "after", "before"} -> p[f]]
\* The same, as far as it is read.
Part(p, S) == [f \in Fields |-> IF f \in S THEN Reread(p)[f] ELSE NoQuery[f]]
OwnTokens(p) ==
  {Tok("sub", Scope(p)), Tok("type", As(p.types, TRUE))}
    \cup {Tok(k, p[k]) : k \in Values}
    \cup [k : {">", "<"}, v : [grain : {"day"}, n : Int]] \cup PlainTerms

\* The tokens Canonical writes are tokens it may write.
LEMMA OwnAre ==
  ASSUME NEW p
  PROVE  /\ \A k \in Values : Tok(k, p[k]) \in OwnTokens(p)
         /\ \A op \in {">", "<"}, n \in Int : Tok(op, [grain |-> "day", n |-> n]) \in OwnTokens(p)
         /\ PlainTerms \subseteq OwnTokens(p)
<1> DEFINE A == {Tok("sub", Scope(p)), Tok("type", As(p.types, TRUE))}
           B == {Tok(k, p[k]) : k \in Values}
           C == [k : {">", "<"}, v : [grain : {"day"}, n : Int]]
<1>1. OwnTokens(p) = A \cup B \cup C \cup PlainTerms  BY Zenon DEF OwnTokens
<1>2. \A k \in Values : Tok(k, p[k]) \in B  OBVIOUS
<1>3. \A op \in {">", "<"}, n \in Int : Tok(op, [grain |-> "day", n |-> n]) \in C  BY DEF Tok
<1> HIDE DEF A, B, C
<1> QED BY <1>1, <1>2, <1>3

\* The fields of a query, and what they are before anything is read.
LEMMA FieldsAre ==
  /\ {"subs", "types", "terms", "after", "before"} \subseteq Fields
  /\ Values \subseteq Fields \ {"subs", "types", "terms", "after", "before"}
  /\ NoQuery.subs = << >> /\ NoQuery.types = << >> /\ NoQuery.terms = << >>
  /\ NoQuery.after = None /\ NoQuery.before = None /\ \A k \in Values : NoQuery[k] = None
  /\ Fields = Values \cup {"subs", "types", "terms", "after", "before"}
BY DEF Fields, Values, Lists, NoQuery

\* Setting one more field.
LEMMA PartSet ==
  ASSUME NEW p, NEW S, NEW f \in Fields
  PROVE  [Part(p, S) EXCEPT ![f] = Reread(p)[f]] = Part(p, S \cup {f})
BY DEF Part

\* A field that nothing is written of needs no reading.
LEMMA PartSame ==
  ASSUME NEW p, NEW S, NEW f \in Fields, Reread(p)[f] = NoQuery[f]
  PROVE  Part(p, S \cup {f}) = Part(p, S)
BY DEF Part

\* A field that was not read yet is empty.
LEMMA PartUnread ==
  ASSUME NEW p, NEW S, NEW f \in Fields, f \notin S
  PROVE  Part(p, S)[f] = NoQuery[f]
BY DEF Part

\* Reading the clause of a value sets that field.
LEMMA OptRead ==
  ASSUME NEW p, NEW S, NEW k \in Values
  PROVE  /\ Opt(p, k) \in Seq(OwnTokens(p))
         /\ ReadFrom(Part(p, S), Opt(p, k)) = Part(p, S \cup {k})
<1>1. k \in Fields /\ k \notin {"subs", "types", "terms", "after", "before"}  BY FieldsAre
<1>2. Reread(p)[k] = p[k]  BY <1>1 DEF Reread
<1>3. NoQuery[k] = None  BY FieldsAre
<1>4. CASE p[k] = None
  <2>1. Opt(p, k) = << >>  BY <1>4 DEF Opt
  <2>2. << >> \in Seq(OwnTokens(p))  OBVIOUS
  <2>3. ReadFrom(Part(p, S), << >>) = Part(p, S)  BY ReadMore
  <2>4. Part(p, S \cup {k}) = Part(p, S)  BY <1>1, <1>2, <1>3, <1>4, PartSame
  <2> QED BY <2>1, <2>2, <2>3, <2>4
<1>5. CASE p[k] # None
  <2> DEFINE t == Tok(k, p[k])
  <2>1. Opt(p, k) = <<t>>  BY <1>5 DEF Opt
  <2>2. t \in OwnTokens(p)  BY OwnAre
  <2>3. t.k = k /\ t.v = p[k]  BY DEF Tok
  <2> HIDE DEF t
  <2>4. <<t>> \in Seq(OwnTokens(p))  BY <2>2
  <2>5. ReadFrom(Part(p, S), <<t>>) = Read(Part(p, S), t)  BY ReadOne
  <2>6. \A q : Read(q, t) = [q EXCEPT ![t.k] = t.v]  BY <2>3, ReadIs
  <2>7. [Part(p, S) EXCEPT ![k] = Reread(p)[k]] = Part(p, S \cup {k})  BY <1>1, PartSet
  <2>8. Read(Part(p, S), t) = Part(p, S \cup {k})  BY <1>2, <2>3, <2>6, <2>7
  <2> QED BY <2>1, <2>4, <2>5, <2>8
<1> QED BY <1>4, <1>5

\* An author of one word is written as any value.
LEMMA AuthorIs ==
  ASSUME NEW p, IsQuery(p)
  PROVE  AuthorClause(p) = Opt(p, "author")
<1>1. OneWord(p.author)  BY DEF IsQuery
<1>2. CASE p.author = None  BY <1>2 DEF AuthorClause, Opt
<1>3. CASE p.author # None
  <2> DEFINE a == p.author
  <2>1. a \in Seq(STRING) /\ Len(a) = 1  BY <1>1, <1>3 DEF OneWord
  <2> HIDE DEF a
  <2>2. a = <<Head(a)>>  BY <2>1
  <2> DEFINE more == [i \in 1 .. Len(a) - 1 |-> Tok("text", a[i + 1])]
             t == Tok("author", a)
  <2>3. more = <<>>  BY <2>1
  <2>4. AuthorClause(p) = <<t>> \o more  BY <1>3, <2>2 DEF AuthorClause, a
  <2>5. Opt(p, "author") = <<t>>  BY <1>3 DEF Opt, a
  <2> HIDE DEF t, more
  <2> QED BY <2>3, <2>4, <2>5
<1> QED BY <1>2, <1>3

\* Reading the clause of the subs sets that field.
LEMMA SubsRead ==
  ASSUME NEW p, IsQuery(p), NEW S, "subs" \notin S
  PROVE  /\ SubClause(p) \in Seq(OwnTokens(p))
         /\ ReadFrom(Part(p, S), SubClause(p)) = Part(p, S \cup {"subs"})
<1> DEFINE e == Scope(p)
           q == Part(p, S)
<1>1. e \in Seq(Signs)
  <2>1. p.subs \in Seq(Signs)  BY DEF IsQuery
  <2> QED BY <2>1, SignedIs, SignedBack DEF Scope, WhiteSubs, BlackSubs
<1>2. "subs" \in Fields  BY FieldsAre
<1>3. Reread(p)["subs"] = e  BY <1>2 DEF Reread
<1>4. NoQuery["subs"] = << >>  BY FieldsAre
<1>5. q.subs = << >>  BY <1>2, <1>4, PartUnread
<1>6. CASE e = << >>
  <2>1. SubClause(p) = << >>  BY <1>6 DEF SubClause
  <2>2. << >> \in Seq(OwnTokens(p))  OBVIOUS
  <2>3. ReadFrom(q, << >>) = q  BY ReadMore
  <2>4. Part(p, S \cup {"subs"}) = q  BY <1>2, <1>3, <1>4, <1>6, PartSame
  <2> QED BY <2>1, <2>2, <2>3, <2>4
<1>7. CASE e # << >>
  <2> DEFINE t == Tok("sub", e)
  <2>1. SubClause(p) = <<t>>  BY <1>7 DEF SubClause
  <2>2. t \in OwnTokens(p)  BY DEF OwnTokens
  <2>3. t.k = "sub" /\ t.v = e  BY DEF Tok
  <2> HIDE DEF t, e, q
  <2>4. <<t>> \in Seq(OwnTokens(p))  BY <2>2
  <2>5. ReadFrom(q, <<t>>) = Read(q, t)  BY ReadOne
  <2>6. Read(q, t) = [q EXCEPT !.subs = q.subs \o t.v]  BY <2>3, ReadIs
  <2>7. q.subs \o t.v = e  BY <1>1, <1>5, <2>3
  <2>8. [q EXCEPT !.subs = e] = Part(p, S \cup {"subs"})  BY <1>2, <1>3, PartSet DEF q
  <2> QED BY <2>1, <2>4, <2>5, <2>6, <2>7, <2>8 DEF q
<1> QED BY <1>6, <1>7

\* Reading the clause of the types sets that field.
LEMMA TypesRead ==
  ASSUME NEW p, IsQuery(p), NEW S, "types" \notin S
  PROVE  /\ TypeClause(p) \in Seq(OwnTokens(p))
         /\ ReadFrom(Part(p, S), TypeClause(p)) = Part(p, S \cup {"types"})
<1> DEFINE e == As(p.types, TRUE)
           q == Part(p, S)
<1>1. p.types \in Seq(Kinds) /\ Distinct(p.types)  BY DEF IsQuery
<1>2. "types" \in Fields /\ "types" \notin {"subs", "after", "before"}  BY FieldsAre
<1>3. Reread(p)["types"] = p.types  BY <1>2 DEF Reread
<1>4. NoQuery["types"] = << >>  BY FieldsAre
<1>5. q.types = << >>  BY <1>2, <1>4, PartUnread
<1>6. CASE p.types = << >>
  <2>1. TypeClause(p) = << >>  BY <1>6 DEF TypeClause
  <2>2. << >> \in Seq(OwnTokens(p))  OBVIOUS
  <2>3. ReadFrom(q, << >>) = q  BY ReadMore
  <2>4. Part(p, S \cup {"types"}) = q  BY <1>2, <1>3, <1>4, <1>6, PartSame
  <2> QED BY <2>1, <2>2, <2>3, <2>4
<1>7. CASE p.types # << >>
  <2> DEFINE t == Tok("type", e)
  <2>1. TypeClause(p) = <<t>>  BY <1>7 DEF TypeClause
  <2>2. t \in OwnTokens(p)  BY DEF OwnTokens
  <2>3. t.k = "type" /\ t.v = e  BY DEF Tok
  <2> HIDE DEF t
  <2>4. <<t>> \in Seq(OwnTokens(p))  BY <2>2
  <2>5. ReadFrom(q, <<t>>) = Read(q, t)  BY ReadOne
  <2>6. TypesOf(e) = p.types
    <3>1. /\ e \in Seq([name : Kinds, inc : BOOLEAN]) /\ NamesOf(e) = p.types
          /\ \A i \in 1 .. Len(p.types) : e[i] = [name |-> p.types[i], inc |-> TRUE]
          /\ Len(e) = Len(p.types)
      BY <1>1, AsIs
    <3> HIDE DEF e
    <3>2. DOMAIN e = 1 .. Len(p.types)  BY <3>1
    <3>9. ASSUME NEW i \in DOMAIN e PROVE e[i].inc = TRUE
      <4>1. e[i] = [name |-> p.types[i], inc |-> TRUE]  BY <3>1, <3>2
      <4> QED BY <4>1
    <3>3. \A x \in Elements(e) : x.inc = TRUE  BY <3>9 DEF Elements
    <3>4. Only(e, {x \in Elements(e) : x.inc}) = e  BY <3>1, <3>3, OnlyKeeps
    <3>5. Included(e) = p.types  BY <1>1, <3>1, <3>4, SeenOnce DEF Included
    <3>6. Excluded(e) = {}  BY <3>3 DEF Excluded
    <3>7. TypesOf(e) = Only(p.types, Elements(p.types) \ {})  BY <3>5, <3>6 DEF TypesOf
    <3>8. Only(p.types, Elements(p.types) \ {}) = p.types  BY <1>1, OnlyKeeps
    <3> QED BY <3>7, <3>8
  <2> HIDE DEF e, q
  <2>7. Read(q, t) = [q EXCEPT !.types = FirstSeen(q.types \o p.types)]
    <3>1. Read(q, t) = IF TypesOf(t.v) = <<>> THEN Text(q, t)
                       ELSE [q EXCEPT !.types = FirstSeen(q.types \o TypesOf(t.v))]
      BY <2>3, ReadIs
    <3> QED BY <1>7, <2>3, <2>6, <3>1
  <2>8. FirstSeen(q.types \o p.types) = p.types
    <3>1. q.types \o p.types = p.types  BY <1>1, <1>5
    <3> QED BY <1>1, <3>1, SeenOnce
  <2>9. [q EXCEPT !.types = p.types] = Part(p, S \cup {"types"})  BY <1>2, <1>3, PartSet DEF q
  <2> QED BY <2>1, <2>4, <2>5, <2>7, <2>8, <2>9 DEF q
<1> QED BY <1>6, <1>7

\* Reading the clause of a date sets that side.
LEMMA DateRead ==
  ASSUME NEW p, IsQuery(p), NEW S
  PROVE  /\ DateClause(">", p.after) \in Seq(OwnTokens(p))
         /\ ReadFrom(Part(p, S), DateClause(">", p.after)) = Part(p, S \cup {"after"})
         /\ DateClause("<", p.before) \in Seq(OwnTokens(p))
         /\ ReadFrom(Part(p, S), DateClause("<", p.before)) = Part(p, S \cup {"before"})
<1> DEFINE q == Part(p, S)
<1>1. p.after \in Moments \cup {None} /\ p.before \in Moments \cup {None}  BY DEF IsQuery
<1>2. "after" \in Fields /\ "before" \in Fields  BY FieldsAre
<1>3. Reread(p)["after"] = Day1(p.after) /\ Reread(p)["before"] = Day2(p.before)
  BY <1>2 DEF Reread
<1>4. NoQuery["after"] = None /\ NoQuery["before"] = None  BY FieldsAre
<1>5. << >> \in Seq(OwnTokens(p))  OBVIOUS
<1>6. ReadFrom(q, << >>) = q  BY ReadMore
<1>7. ASSUME p.after = None
      PROVE  /\ DateClause(">", p.after) \in Seq(OwnTokens(p))
             /\ ReadFrom(q, DateClause(">", p.after)) = Part(p, S \cup {"after"})
  <2>1. DateClause(">", p.after) = << >>  BY <1>7 DEF DateClause
  <2>2. Reread(p)["after"] = NoQuery["after"]  BY <1>3, <1>4, <1>7 DEF Day1
  <2>3. Part(p, S \cup {"after"}) = q  BY <1>2, <2>2, PartSame
  <2> QED BY <1>5, <1>6, <2>1, <2>3
<1>8. ASSUME p.before = None
      PROVE  /\ DateClause("<", p.before) \in Seq(OwnTokens(p))
             /\ ReadFrom(q, DateClause("<", p.before)) = Part(p, S \cup {"before"})
  <2>1. DateClause("<", p.before) = << >>  BY <1>8 DEF DateClause
  <2>2. Reread(p)["before"] = NoQuery["before"]  BY <1>3, <1>4, <1>8 DEF Day2
  <2>3. Part(p, S \cup {"before"}) = q  BY <1>2, <2>2, PartSame
  <2> QED BY <1>5, <1>6, <2>1, <2>3
<1>9. ASSUME NEW m \in Moments, NEW op \in {">", "<"}
      PROVE  LET d == [grain |-> "day", n |-> m[1]]  t == Tok(op, d) IN
               /\ DateClause(op, m) = <<t>> /\ <<t>> \in Seq(OwnTokens(p))
               /\ ReadFrom(q, <<t>>) = DateOp(q, op, d)
               /\ Bounds(d).from = Day1(m) /\ Bounds(d).to = Day2(m) /\ Day2(m) # None
  <2> DEFINE d == [grain |-> "day", n |-> m[1]]
             t == Tok(op, d)
  <2>1. m # None /\ m[1] \in Int  BY SQAssumption DEF Moments
  <2>2. DateClause(op, m) = <<t>>  BY <2>1 DEF DateClause
  <2>3. t \in OwnTokens(p)  BY <2>1, OwnAre
  <2>4. t.k = op /\ t.v = d  BY DEF Tok
  <2>5. d.grain = "day" /\ d.n = m[1]  OBVIOUS
  <2>6. Bounds(d).from = Day1(m) /\ Bounds(d).to = Day2(m)  BY <2>1 DEF Bounds, Day1, Day2
  <2>7. Day2(m) # None
    <3>1. <<m[1], "end">> \in Moments  BY <2>1 DEF Moments
    <3> QED BY <2>1, <3>1, SQAssumption DEF Day2
  <2> HIDE DEF t, d, q
  <2>8. <<t>> \in Seq(OwnTokens(p))  BY <2>3
  <2>9. ReadFrom(q, <<t>>) = Read(q, t)  BY ReadOne
  <2>10. Read(q, t) = DateOp(q, op, d)  BY <2>4, ReadIs
  <2> QED BY <2>2, <2>6, <2>7, <2>8, <2>9, <2>10 DEF t, d
<1>10. ASSUME p.after \in Moments
       PROVE  /\ DateClause(">", p.after) \in Seq(OwnTokens(p))
              /\ ReadFrom(q, DateClause(">", p.after)) = Part(p, S \cup {"after"})
  <2> DEFINE d == [grain |-> "day", n |-> p.after[1]]
             t == Tok(">", d)
  <2>1. /\ DateClause(">", p.after) = <<t>> /\ <<t>> \in Seq(OwnTokens(p))
        /\ ReadFrom(q, <<t>>) = DateOp(q, ">", d) /\ Bounds(d).from = Day1(p.after)
    BY <1>9, <1>10
  <2> HIDE DEF d, q
  <2>2. DateOp(q, ">", d) = [q EXCEPT !.after = Day1(p.after)]  BY <2>1 DEF DateOp
  <2>3. [q EXCEPT !.after = Day1(p.after)] = Part(p, S \cup {"after"})  BY <1>2, <1>3, PartSet DEF q
  <2> QED BY <2>1, <2>2, <2>3 DEF q
<1>11. ASSUME p.before \in Moments
       PROVE  /\ DateClause("<", p.before) \in Seq(OwnTokens(p))
              /\ ReadFrom(q, DateClause("<", p.before)) = Part(p, S \cup {"before"})
  <2> DEFINE d == [grain |-> "day", n |-> p.before[1]]
             t == Tok("<", d)
  <2>1. /\ DateClause("<", p.before) = <<t>> /\ <<t>> \in Seq(OwnTokens(p))
        /\ ReadFrom(q, <<t>>) = DateOp(q, "<", d) /\ Bounds(d).to = Day2(p.before)
        /\ Day2(p.before) # None
    BY <1>9, <1>11
  <2> HIDE DEF d, q
  <2>2. DateOp(q, "<", d) = [q EXCEPT !.before = Day2(p.before)]  BY <2>1 DEF DateOp
  <2>3. [q EXCEPT !.before = Day2(p.before)] = Part(p, S \cup {"before"})
    <3>1. [q EXCEPT !["before"] = Reread(p)["before"]] = Part(p, S \cup {"before"})
      BY <1>2, PartSet DEF q
    <3> QED BY <1>3, <3>1
  <2> QED BY <2>1, <2>2, <2>3 DEF q
<1> QED BY <1>1, <1>7, <1>8, <1>10, <1>11

\* Free text is appended as it stands.
LEMMA TermsMore ==
  ASSUME NEW q, q = [f \in Fields |-> q[f]], q.terms \in Seq(PlainTerms), NEW terms \in Seq(PlainTerms)
  PROVE  ReadFrom(q, terms) = [q EXCEPT !.terms = q.terms \o terms]
<1> DEFINE k == q.terms
           Having(a) == [q EXCEPT !.terms = a]
           P == {r \in Seq(PlainTerms) : ReadFrom(q, r) = Having(k \o r)}
<1>0. k \in Seq(PlainTerms) /\ "terms" \in Fields  BY FieldsAre
<1>1. << >> \in P
  <2>1. k \o << >> = k  BY <1>0
  <2>2. Having(k) = q  BY <1>0
  <2>3. ReadFrom(q, << >>) = q /\ << >> \in Seq(PlainTerms)  BY ReadMore
  <2> HIDE DEF k, Having
  <2> QED BY <2>1, <2>2, <2>3
<1>2. ASSUME NEW r \in Seq(PlainTerms), NEW x \in PlainTerms, r \in P PROVE Append(r, x) \in P
  <2>1. ReadFrom(q, Append(r, x)) = Read(ReadFrom(q, r), x)  BY ReadMore
  <2>2. ReadFrom(q, r) = Having(k \o r)  BY <1>2
  <2>3. \A a : Read(a, x) = [a EXCEPT !.terms = Append(a.terms, x)]  BY DEF PlainTerms, Text
  <2>4. \A a, b : Having(a).terms = a /\ [Having(a) EXCEPT !.terms = b] = Having(b)  BY <1>0
  <2> HIDE DEF k, Having
  <2>5. GrowsBehind(k, r, x)  BY <1>0, JoinedMore
  <2>6. Append(k \o r, x) = k \o Append(r, x)  BY <2>5 DEF GrowsBehind
  <2> DEFINE c == k \o r
             d == Having(c)
             a == Append(r, x)
  <2>7. Read(d, x) = [d EXCEPT !.terms = Append(d.terms, x)]  BY <2>3
  <2>8. d.terms = c  BY <2>4
  <2>9. [d EXCEPT !.terms = Append(c, x)] = Having(Append(c, x))  BY <2>4
  <2>10. Append(r, x) \in Seq(PlainTerms)  OBVIOUS
  <2>11. ReadFrom(q, Append(r, x)) = Having(Append(c, x))
    <3> HIDE DEF c, d
    <3> QED BY <2>1, <2>2, <2>7, <2>8, <2>9 DEF d, c
  <2>12. Having(Append(c, x)) = Having(k \o Append(r, x))  BY <2>6
  <2> HIDE DEF c
  <2> QED BY <2>10, <2>11, <2>12
<1>3. Seq(PlainTerms) \subseteq P
  <2> HIDE DEF P
  <2> QED BY <1>1, <1>2, EverySequence
<1> QED BY <1>3

\* Reading the terms back sets that field.
LEMMA TermsRead ==
  ASSUME NEW p, IsQuery(p), NEW S, "terms" \notin S
  PROVE  /\ Written(p.terms) = p.terms /\ Written(p.terms) \in Seq(OwnTokens(p))
         /\ ReadFrom(Part(p, S), Written(p.terms)) = Part(p, S \cup {"terms"})
<1> DEFINE q == Part(p, S)
           t == p.terms
<1>1. t \in Seq(PlainTerms)  BY DEF IsQuery
<1>2. "terms" \in Fields /\ "terms" \notin {"subs", "after", "before"}  BY FieldsAre
<1>3. Reread(p)["terms"] = t  BY <1>2 DEF Reread
<1>4. NoQuery["terms"] = << >>  BY FieldsAre
<1>5. q["terms"] = << >>  BY <1>2, <1>4, PartUnread
<1>6. q = [f \in Fields |-> q[f]]  BY DEF Part
<1>7. [q EXCEPT !["terms"] = Reread(p)["terms"]] = Part(p, S \cup {"terms"})  BY <1>2, PartSet DEF q
<1>8. Written(t) = t
  <2>1. \A x \in PlainTerms : Unquoted(x) = x  BY DEF Unquoted, PlainTerms, Unquotable, LosesQuotes
  <2> HIDE DEF t
  <2>2. Written(t) = [i \in 1 .. Len(t) |-> t[i]]  BY <1>1, <2>1 DEF Written
  <2>3. t = [i \in 1 .. Len(t) |-> t[i]]  BY <1>1, SequenceIs
  <2> QED BY <2>2, <2>3
<1>9. t \in Seq(OwnTokens(p))
  <2>1. PlainTerms \subseteq OwnTokens(p)  BY OwnAre
  <2> HIDE DEF t
  <2> QED BY <1>1, <2>1
<1> HIDE DEF q, t
<1>10. q.terms \o t = t /\ q.terms \in Seq(PlainTerms)
  <2>1. q.terms = << >>  BY <1>5
  <2>2. << >> \o t = t /\ << >> \in Seq(PlainTerms)  BY <1>1
  <2> QED BY <2>1, <2>2
<1>11. ReadFrom(q, t) = [q EXCEPT !.terms = q.terms \o t]  BY <1>1, <1>6, <1>10, TermsMore
<1> QED BY <1>3, <1>7, <1>8, <1>9, <1>10, <1>11 DEF q, t

\* Two boxes end to end, each read where the one before it left off.
LEMMA BoxMore ==
  ASSUME NEW Item, NEW a \in Seq(Item), NEW b \in Seq(Item), NEW p, NEW q, NEW r,
         ReadFrom(p, a) = q, ReadFrom(q, b) = r
  PROVE  a \o b \in Seq(Item) /\ ReadFrom(p, a \o b) = r
BY ReadJoined

\* Reading what Canonical writes gives the query, its dates cut to their days.
LEMMA CanonicalRead ==
  ASSUME NEW p, IsQuery(p)
  PROVE  Parse(Canonical(p)) = Reread(p)
<1> DEFINE Item == OwnTokens(p)
           S1 == {} \cup {"subs"}
           S2 == S1 \cup {"author"}
           S3 == S2 \cup {"flair"}
           S4 == S3 \cup {"rating"}
           S5 == S4 \cup {"types"}
           S6 == S5 \cup {"instant"}
           S7 == S6 \cup {"score"}
           S8 == S7 \cup {"cached"}
           S9 == S8 \cup {"comments"}
           S10 == S9 \cup {"sort"}
           S11 == S10 \cup {"timeframe"}
           S12 == S11 \cup {"after"}
           S13 == S12 \cup {"before"}
           S14 == S13 \cup {"terms"}
           c1 == SubClause(p)
           c2 == c1 \o Opt(p, "author")
           c3 == c2 \o Opt(p, "flair")
           c4 == c3 \o Opt(p, "rating")
           c5 == c4 \o TypeClause(p)
           c6 == c5 \o Opt(p, "instant")
           c7 == c6 \o Opt(p, "score")
           c8 == c7 \o Opt(p, "cached")
           c9 == c8 \o Opt(p, "comments")
           c10 == c9 \o Opt(p, "sort")
           c11 == c10 \o Opt(p, "timeframe")
           c12 == c11 \o DateClause(">", p.after)
           c13 == c12 \o DateClause("<", p.before)
           c14 == c13 \o Written(p.terms)
           So(c, S) == c \in Seq(Item) /\ ReadFrom(NoQuery, c) = Part(p, S)
<1>0. Canonical(p) = c14  BY AuthorIs DEF Canonical
<1>a. Part(p, S14) = Reread(p)
  <2>1. S14 = Fields  BY DEF Fields, Lists, Values
  <2> HIDE DEF S14
  <2>2. Reread(p) = [f \in Fields |-> Reread(p)[f]]  BY DEF Reread
  <2> QED BY <2>1, <2>2 DEF Part
<1>b. Part(p, {}) = NoQuery
  <2>1. NoQuery = [f \in Fields |-> NoQuery[f]]  BY DEF NoQuery
  <2> QED BY <2>1 DEF Part
<1>c. \A k \in Values : \A S : Opt(p, k) \in Seq(Item) /\ ReadFrom(Part(p, S), Opt(p, k)) = Part(p, S \cup {k})
  BY OptRead
<1>d. "types" \notin S4 /\ "terms" \notin S13 /\ "subs" \notin {}  OBVIOUS
<1>e. /\ "author" \in Values /\ "flair" \in Values /\ "rating" \in Values /\ "instant" \in Values
      /\ "score" \in Values /\ "cached" \in Values /\ "comments" \in Values /\ "sort" \in Values
      /\ "timeframe" \in Values
  BY DEF Values
<1>m. ASSUME NEW c, NEW S, NEW Q, NEW b \in Seq(Item), So(c, S), ReadFrom(Part(p, S), b) = Part(p, Q)
      PROVE  So(c \o b, Q)
  <2>1. c \in Seq(Item) /\ ReadFrom(NoQuery, c) = Part(p, S)  BY <1>m
  <2> HIDE DEF Item
  <2> QED BY <1>m, <2>1, BoxMore
<1>1. So(c1, S1)  BY <1>b, <1>d, SubsRead
<1> HIDE DEF So, Item, S1, c1
<1>2. So(c2, S2)  BY <1>1, <1>c, <1>e, <1>m
<1> HIDE DEF c2, S2
<1>3. So(c3, S3)  BY <1>2, <1>c, <1>e, <1>m
<1> HIDE DEF c3, S3
<1>4. So(c4, S4)  BY <1>3, <1>c, <1>e, <1>m
<1> HIDE DEF c4, S4
<1>5. So(c5, S5)
  <2>1. TypeClause(p) \in Seq(Item) /\ ReadFrom(Part(p, S4), TypeClause(p)) = Part(p, S5)
    BY <1>d, TypesRead DEF Item
  <2> QED BY <1>4, <2>1, <1>m
<1> HIDE DEF c5, S5
<1>6. So(c6, S6)  BY <1>5, <1>c, <1>e, <1>m
<1> HIDE DEF c6, S6
<1>7. So(c7, S7)  BY <1>6, <1>c, <1>e, <1>m
<1> HIDE DEF c7, S7
<1>8. So(c8, S8)  BY <1>7, <1>c, <1>e, <1>m
<1> HIDE DEF c8, S8
<1>9. So(c9, S9)  BY <1>8, <1>c, <1>e, <1>m
<1> HIDE DEF c9, S9
<1>10. So(c10, S10)  BY <1>9, <1>c, <1>e, <1>m
<1> HIDE DEF c10, S10
<1>11. So(c11, S11)  BY <1>10, <1>c, <1>e, <1>m
<1> HIDE DEF c11, S11
<1>12. So(c12, S12)
  <2>1. DateClause(">", p.after) \in Seq(Item) /\ ReadFrom(Part(p, S11), DateClause(">", p.after)) = Part(p, S12)
    BY DateRead DEF Item
  <2> QED BY <1>11, <2>1, <1>m
<1> HIDE DEF c12, S12
<1>13. So(c13, S13)
  <2>1. DateClause("<", p.before) \in Seq(Item) /\ ReadFrom(Part(p, S12), DateClause("<", p.before)) = Part(p, S13)
    BY DateRead DEF Item
  <2> QED BY <1>12, <2>1, <1>m
<1> HIDE DEF c13, S13
<1>14. So(c14, S14)
  <2>1. Written(p.terms) \in Seq(Item) /\ ReadFrom(Part(p, S13), Written(p.terms)) = Part(p, S14)
    BY <1>d, TermsRead DEF Item
  <2> QED BY <1>13, <2>1, <1>m
<1> QED BY <1>0, <1>a, <1>14 DEF So, Parse

-----------------------------------------------------------------------------
(* What is read of what was written is written and asked the same. *)
LEMMA RereadSame ==
  ASSUME NEW p, IsQuery(p)
  PROVE  LET q == Reread(p) IN
           /\ WhiteSubs(q) = WhiteSubs(p) /\ BlackSubs(q) = BlackSubs(p)
           /\ \A f \in Fields \ {"subs", "after", "before"} : q[f] = p[f]
           /\ q.after = Day1(p.after) /\ q.before = Day2(p.before)
<1> DEFINE q == Reread(p)
<1>1. p.subs \in Seq(Signs)  BY DEF IsQuery
<1>2. {"subs", "after", "before"} \subseteq Fields  BY FieldsAre
<1>3. q.subs = Scope(p)  BY <1>2 DEF Reread
<1>4. q.after = Day1(p.after) /\ q.before = Day2(p.before)  BY <1>2 DEF Reread
<1>5. \A f \in Fields \ {"subs", "after", "before"} : q[f] = p[f]  BY DEF Reread
<1>6. /\ WhiteSubs(p) \in Seq(STRING) /\ BlackSubs(p) \in Seq(STRING)
      /\ Distinct(WhiteSubs(p)) /\ Distinct(BlackSubs(p))
      /\ Elements(WhiteSubs(p)) \cap Elements(BlackSubs(p)) = {}
  BY <1>1, SignedIs DEF WhiteSubs, BlackSubs
<1>7. Signed(Scope(p), TRUE) = WhiteSubs(p) /\ Signed(Scope(p), FALSE) = BlackSubs(p)
  BY <1>6, SignedBack DEF Scope
<1>8. WhiteSubs(q) = WhiteSubs(p) /\ BlackSubs(q) = BlackSubs(p)
  BY <1>3, <1>7 DEF WhiteSubs, BlackSubs
<1> QED BY <1>4, <1>5, <1>8

\* Writing that again gives the same text.
LEMMA CanonicalSame ==
  ASSUME NEW p, IsQuery(p)
  PROVE  Canonical(Parse(Canonical(p))) = Canonical(p)
<1> DEFINE q == Reread(p)
<1>1. Parse(Canonical(p)) = q  BY CanonicalRead
<1>2. /\ WhiteSubs(q) = WhiteSubs(p) /\ BlackSubs(q) = BlackSubs(p)
      /\ \A f \in Fields \ {"subs", "after", "before"} : q[f] = p[f]
      /\ q.after = Day1(p.after) /\ q.before = Day2(p.before)
  BY RereadSame
<1> HIDE DEF q
<1>3. SubClause(q) = SubClause(p)  BY <1>2 DEF SubClause, Scope
<1>4. \A k \in Values : q[k] = p[k]  BY <1>2, FieldsAre
<1>5. \A k \in Values : Opt(q, k) = Opt(p, k)  BY <1>4 DEF Opt
<1>6. "types" \in Fields \ {"subs", "after", "before"} /\ "terms" \in Fields \ {"subs", "after", "before"}
  BY FieldsAre
<1>7. q.types = p.types /\ q.terms = p.terms  BY <1>2, <1>6
<1>8. TypeClause(q) = TypeClause(p)  BY <1>7 DEF TypeClause
<1>9. p.after \in Moments \cup {None} /\ p.before \in Moments \cup {None}  BY DEF IsQuery
<1>10. \A m \in Moments \cup {None} : \A op :
         DateClause(op, Day1(m)) = DateClause(op, m) /\ DateClause(op, Day2(m)) = DateClause(op, m)
  <2> SUFFICES ASSUME NEW m \in Moments, NEW op
               PROVE  DateClause(op, Day1(m)) = DateClause(op, m) /\ DateClause(op, Day2(m)) = DateClause(op, m)
    BY DEF Day1, Day2
  <2>1. m # None /\ m[1] \in Int  BY SQAssumption DEF Moments
  <2>2. <<m[1], "start">> # None /\ <<m[1], "end">> # None  BY <2>1, SQAssumption DEF Moments
  <2> QED BY <2>1, <2>2 DEF DateClause, Day1, Day2
<1>11. DateClause(">", q.after) = DateClause(">", p.after) /\ DateClause("<", q.before) = DateClause("<", p.before)
  BY <1>2, <1>9, <1>10
<1>12. /\ "author" \in Values /\ "flair" \in Values /\ "rating" \in Values /\ "instant" \in Values
       /\ "score" \in Values /\ "cached" \in Values /\ "comments" \in Values /\ "sort" \in Values
       /\ "timeframe" \in Values
  BY DEF Values
<1>13. /\ AuthorClause(q) = AuthorClause(p) /\ Opt(q, "flair") = Opt(p, "flair")
       /\ Opt(q, "rating") = Opt(p, "rating") /\ Opt(q, "instant") = Opt(p, "instant")
       /\ Opt(q, "score") = Opt(p, "score") /\ Opt(q, "cached") = Opt(p, "cached")
       /\ Opt(q, "comments") = Opt(p, "comments") /\ Opt(q, "sort") = Opt(p, "sort")
       /\ Opt(q, "timeframe") = Opt(p, "timeframe")
  BY <1>4, <1>5, <1>12 DEF AuthorClause
<1>14. Canonical(q) = Canonical(p)  BY <1>3, <1>7, <1>8, <1>11, <1>13, Zenon DEF Canonical
<1> QED BY <1>1, <1>14

\* It asks the sources for the same.
LEMMA RequestsSame ==
  ASSUME NEW p, IsQuery(p)
  PROVE  LET q == Parse(Canonical(p)) IN
           RedditQuery(q) = RedditQuery(p) /\ Upstream(q) = Upstream(p) /\ q.types = p.types
<1> DEFINE q == Reread(p)
<1>1. Parse(Canonical(p)) = q  BY CanonicalRead
<1>2. /\ WhiteSubs(q) = WhiteSubs(p) /\ BlackSubs(q) = BlackSubs(p)
      /\ \A f \in Fields \ {"subs", "after", "before"} : q[f] = p[f]
      /\ q.after = Day1(p.after) /\ q.before = Day2(p.before)
  BY RereadSame
<1> HIDE DEF q
<1>3. {"author", "flair", "rating", "terms", "types", "sort", "timeframe"}
        \subseteq Fields \ {"subs", "after", "before"}
  BY DEF Fields, Lists, Values
<1>4. q.author = p.author /\ q.flair = p.flair /\ q.rating = p.rating /\ q.terms = p.terms
      /\ q.types = p.types /\ q.sort = p.sort /\ q.timeframe = p.timeframe
  BY <1>2, <1>3
<1>5. RedditQuery(q) = RedditQuery(p)  BY <1>2, <1>4 DEF RedditQuery
<1>6. p.after \in Moments \cup {None}  BY DEF IsQuery
<1>7. (IF ArchiveAfter(q) = None THEN None ELSE ArchiveAfter(q)[1])
        = (IF ArchiveAfter(p) = None THEN None ELSE ArchiveAfter(p)[1])
  <2>1. CASE p.after = None
    <3>1. q.after = None  BY <1>2, <2>1 DEF Day1
    <3>2. ArchiveAfter(q) = ArchiveAfter(p)  BY <1>4, <2>1, <3>1 DEF ArchiveAfter
    <3> QED BY <3>2
  <2>2. CASE p.after # None
    <3>1. p.after[1] \in Int /\ q.after = <<p.after[1], "start">>  BY <1>2, <1>6, <2>2 DEF Day1, Moments
    <3>2. q.after # None  BY <3>1, SQAssumption DEF Moments
    <3>3. ArchiveAfter(q) = q.after /\ ArchiveAfter(p) = p.after  BY <2>2, <3>2 DEF ArchiveAfter
    <3>4. q.after[1] = p.after[1]  BY <3>1
    <3> QED BY <2>2, <3>2, <3>3, <3>4
  <2> QED BY <2>1, <2>2
<1>8. Upstream(q) = Upstream(p)  BY <1>4, <1>7, Zenon DEF Upstream
<1> QED BY <1>1, <1>4, <1>5, <1>8

\* The same holds of the text shown above a live search.
LEMMA LiveSame ==
  ASSUME NEW p, IsQuery(p)
  PROVE  Canonical(Parse(LiveDisplayQuery(p))) = LiveDisplayQuery(p)
<1> DEFINE q == [p EXCEPT !.score = None, !.comments = None, !.cached = None,
                          !.types = <<>>, !.after = None, !.before = None]
<1>1. IsQuery(q)
  <2>1. p = [f \in Fields |-> p[f]]  BY DEF IsQuery
  <2>2. {"score", "comments", "cached"} \subseteq Values \ {"author"}  BY DEF Values
  <2>3. << >> \in Seq(Kinds) /\ Distinct(<< >>)  BY DEF Distinct
  <2> DEFINE p1 == [p EXCEPT !["score"] = None]
             p2 == [p1 EXCEPT !["comments"] = None]
             p3 == [p2 EXCEPT !["cached"] = None]
             p4 == [p3 EXCEPT !.types = <<>>]
             p5 == [p4 EXCEPT !.after = None]
             p6 == [p5 EXCEPT !.before = None]
  <2>4. q = p6  OBVIOUS
  <2>5. IsQuery(p1)  BY <2>2, QueryKeeps
  <2> HIDE DEF p1
  <2>6. IsQuery(p2)  BY <2>2, <2>5, QueryKeeps
  <2> HIDE DEF p2
  <2>7. IsQuery(p3)  BY <2>2, <2>6, QueryKeeps
  <2> HIDE DEF p3
  <2>8. IsQuery(p4)  BY <2>3, <2>7, QueryKeeps
  <2> HIDE DEF p4
  <2>9. IsQuery(p5)  BY <2>8, QueryKeeps
  <2> HIDE DEF p5
  <2>10. IsQuery(p6)  BY <2>9, QueryKeeps
  <2> QED BY <2>4, <2>10
<1>2. LiveDisplayQuery(p) = Canonical(q)  BY DEF LiveDisplayQuery
<1> HIDE DEF q
<1> QED BY <1>1, <1>2, CanonicalSame

-----------------------------------------------------------------------------
(* The archive filter. *)
\* An enumeration of a finite set names each of its elements once.
LEMMA EnumeratedIs ==
  ASSUME NEW S, IsFiniteSet(S)
  PROVE  LET f == Enumerated(S) IN
           /\ {f[i] : i \in DOMAIN f} = S
           /\ \A i, j \in DOMAIN f : f[i] = f[j] => i = j
<1> DEFINE n == Cardinality(S)
           I == {f \in [1 .. n -> S] : \A i, j \in DOMAIN f : f[i] = f[j] => i = j}
           f == Enumerated(S)
<1>1. n \in Nat /\ ExistsBijection(1 .. n, S)  BY FS_CardinalityType
<1>2. f \in I
  <2>1. \E g : g \in I
    <3>1. PICK g : g \in Bijection(1 .. n, S)  BY <1>1 DEF ExistsBijection
    <3>2. g \in [1 .. n -> S] /\ \A i, j \in 1 .. n : g[i] = g[j] => i = j
      BY <3>1 DEF Bijection, Injection, IsInjective
    <3> QED BY <3>2
  <2> QED BY <2>1 DEF Enumerated
<1>3. f \in [1 .. n -> S] /\ \A i, j \in 1 .. n : f[i] = f[j] => i = j  BY <1>2
<1> HIDE DEF f, I, n
<1>4. f \in Injection(1 .. n, S)  BY <1>3 DEF Injection, IsInjective
<1>5. Cardinality(1 .. n) = Cardinality(S)  BY <1>1, FS_Interval DEF n
<1>6. f \in Surjection(1 .. n, S)  BY <1>4, <1>5, FS_Injection
<1>7. \A x \in S : \E i \in 1 .. n : f[i] = x  BY <1>6 DEF Surjection
<1>8. DOMAIN f = 1 .. n  BY <1>3
<1>9. {f[i] : i \in DOMAIN f} = S  BY <1>3, <1>7, <1>8
<1> QED BY <1>3, <1>8, <1>9 DEF f

\* An archive filter that is written and read again is the same one.
LEMMA ControlBack ==
  ASSUME NEW e \in Seq(Signs)
  PROVE  LET c == ParseControl(e) IN ParseControl(Enumerated(ControlTokens(c))) = c
<1> DEFINE Sole(g) == {g[i] : i \in {k \in DOMAIN g : \A j \in DOMAIN g \ {k} : g[j].name # g[k].name}}
           White(o) == {x.name : x \in {y \in o : y.inc}}
           Black(o) == {x.name : x \in {y \in o : ~y.inc}}
           Of(o) == [whites |-> White(o), blacks |-> IF White(o) # {} THEN {} ELSE Black(o)]
           c == ParseControl(e)
           W == c.whites
           B == c.blacks
           S1 == {[name |-> n, inc |-> TRUE] : n \in W}
           S2 == {[name |-> n, inc |-> FALSE] : n \in B}
           S == S1 \cup S2
           f == Enumerated(S)
<1>1. \A g : ParseControl(g) = Of(Sole(g))  BY DEF ParseControl
<1>2. ControlTokens(c) = S  BY DEF ControlTokens
<1>3. W = White(Sole(e)) /\ (W # {} => B = {}) /\ (W = {} => B = Black(Sole(e))) /\ B \subseteq Black(Sole(e))
      /\ c = [whites |-> W, blacks |-> B]
  BY <1>1
<1>4. Sole(e) \subseteq Elements(e) /\ Elements(e) \subseteq Signs
  <2>1. Sole(e) \subseteq Elements(e)  BY DEF Elements
  <2>2. Elements(e) \subseteq Signs  BY DEF Elements
  <2> QED BY <2>1, <2>2
<1>5. \A x \in Signs : x = [name |-> x.name, inc |-> x.inc] /\ x.inc \in BOOLEAN  BY DEF Signs
<1> HIDE DEF c, Sole
<1>6. S1 \subseteq Elements(e)
  <2> SUFFICES ASSUME NEW n \in W PROVE [name |-> n, inc |-> TRUE] \in Elements(e)  OBVIOUS
  <2>1. PICK x \in Sole(e) : x.inc /\ x.name = n  BY <1>3
  <2>2. x \in Elements(e) /\ x \in Signs  BY <1>4
  <2>3. x.inc = TRUE  BY <1>5, <2>1, <2>2
  <2> QED BY <1>5, <2>1, <2>2, <2>3
<1>7. S2 \subseteq Elements(e)
  <2> SUFFICES ASSUME NEW n \in B PROVE [name |-> n, inc |-> FALSE] \in Elements(e)  OBVIOUS
  <2>1. PICK x \in Sole(e) : ~x.inc /\ x.name = n  BY <1>3
  <2>2. x \in Elements(e) /\ x \in Signs  BY <1>4
  <2>3. x.inc = FALSE  BY <1>5, <2>1, <2>2
  <2> QED BY <1>5, <2>1, <2>2, <2>3
<1>8. IsFiniteSet(S)
  <2>1. e \in Surjection(1 .. Len(e), Elements(e)) /\ Len(e) \in Nat  BY DEF Surjection, Elements
  <2>2. ExistsSurjection(1 .. Len(e), Elements(e))  BY <2>1 DEF ExistsSurjection
  <2>3. IsFiniteSet(Elements(e))  BY <2>1, <2>2, FS_NatSurjection
  <2>4. S \in SUBSET Elements(e)  BY <1>6, <1>7
  <2> HIDE DEF S
  <2> QED BY <2>3, <2>4, FS_Subset
<1>9. \A x, y \in S : x.name = y.name => x = y
  <2>1. \A x \in S1 : x.name \in W /\ x = [name |-> x.name, inc |-> TRUE]  OBVIOUS
  <2>2. \A x \in S2 : x.name \in B /\ x = [name |-> x.name, inc |-> FALSE]  OBVIOUS
  <2>3. W = {} \/ B = {}  BY <1>3
  <2> HIDE DEF S1, S2, W, B
  <2>4. ASSUME NEW x \in S, NEW y \in S, x.name = y.name PROVE x = y
    <3>1. CASE W = {}
      <4>1. x \in S2 /\ y \in S2  BY <2>1, <3>1
      <4> QED BY <2>2, <2>4, <4>1
    <3>2. CASE B = {}
      <4>1. x \in S1 /\ y \in S1  BY <2>2, <3>2
      <4> QED BY <2>1, <2>4, <4>1
    <3> QED BY <2>3, <3>1, <3>2
  <2> QED BY <2>4
<1>10. {f[i] : i \in DOMAIN f} = S /\ \A i, j \in DOMAIN f : f[i] = f[j] => i = j
  <2> HIDE DEF S
  <2> QED BY <1>8, EnumeratedIs
<1>11. White(S) = W /\ Black(S) = B
  <2>1. \A x \in S1 : x.name \in W /\ x.inc = TRUE  OBVIOUS
  <2>2. \A x \in S2 : x.name \in B /\ x.inc = FALSE  OBVIOUS
  <2>3. \A n \in W : \E x \in S1 : x.name = n
    <3> TAKE n \in W
    <3>1. [name |-> n, inc |-> TRUE] \in S1  OBVIOUS
    <3> QED BY <3>1
  <2>4. \A n \in B : \E x \in S2 : x.name = n
    <3> TAKE n \in B
    <3>1. [name |-> n, inc |-> FALSE] \in S2  OBVIOUS
    <3> QED BY <3>1
  <2> HIDE DEF S1, S2, W, B
  <2>5. White(S) = W  BY <2>1, <2>2, <2>3
  <2>6. Black(S) = B  BY <2>1, <2>2, <2>4
  <2> QED BY <2>5, <2>6
<1> HIDE DEF f, S, W, B
<1>12. Sole(f) = S
  <2>1. \A k \in DOMAIN f : \A j \in DOMAIN f \ {k} : f[j].name # f[k].name  BY <1>9, <1>10
  <2>2. {k \in DOMAIN f : \A j \in DOMAIN f \ {k} : f[j].name # f[k].name} = DOMAIN f  BY <2>1
  <2> QED BY <1>10, <2>2 DEF Sole
<1>13. Of(S) = [whites |-> W, blacks |-> B]
  <2> HIDE DEF White, Black
  <2> QED BY <1>3, <1>11
<1> HIDE DEF Of
<1>14. ParseControl(f) = c  BY <1>1, <1>3, <1>12, <1>13
<1> QED BY <1>2, <1>14 DEF f, c

\* A box that is written down and read again says the same.
LEMMA BoxStable ==
  ASSUME sqBox \in Seq(SQTokens)
  PROVE  CanonicalStable
<1> DEFINE p == Parse(sqBox)
           q == Parse(Canonical(p))
           c == ParseControl(p.subs)
           d == ParseControl(Enumerated(ControlTokens(c)))
<1> SUFFICES ASSUME \A i \in DOMAIN sqBox : ~LosesQuotes(sqBox[i])
             PROVE  /\ Canonical(q) = Canonical(p) /\ RedditQuery(q) = RedditQuery(p)
                    /\ Upstream(q) = Upstream(p)
                    /\ Canonical(Parse(LiveDisplayQuery(p))) = LiveDisplayQuery(p)
                    /\ q.types = p.types /\ d = c
  BY DEF CanonicalStable
<1>1. sqBox \in Seq(Unquotable)
  <2>1. \A i \in DOMAIN sqBox : sqBox[i] \in Unquotable  BY DEF Unquotable
  <2> QED BY <2>1
<1>2. IsQuery(p)  BY <1>1, ParseIs
<1>3. p.subs \in Seq(Signs)  BY <1>2 DEF IsQuery
<1> HIDE DEF p
<1>4. d = c  BY <1>3, ControlBack
<1> QED BY <1>2, <1>4, CanonicalSame, RequestsSame, LiveSame

-----------------------------------------------------------------------------
(* Cutting a text, one piece at a time. *)
CutBy(cut, x) ==
  IF cut # <<>> /\ JoinsDepth(LastOf(cut), x)
  THEN Append(FrontOf(cut), JoinDepth(LastOf(cut), x)) ELSE Append(cut, x)
IsCutting(g, base, text) ==
  /\ g = [i \in 0 .. Len(text) |-> g[i]] /\ g[0] = base
  /\ \A i \in 1 .. Len(text) : g[i] = CutBy(g[i - 1], text[i])

\* CutSoFar cuts the text piece by piece.
LEMMA CutLoop ==
  ASSUME NEW Item, NEW box \in Seq(Item)
  PROVE  IsCutting(CutSoFar(box, JoinsDepth), << >>, box)
<1> DEFINE Readable(b) == \E g : IsCutting(g, << >>, b)
           P == {b \in Seq(Item) : Readable(b)}
<1>1. << >> \in P
  <2> DEFINE g == [i \in 0 .. 0 |-> << >>]
             e == << >>
  <2>1. /\ e \in Seq(Item) /\ Len(e) = 0
        /\ g = [i \in 0 .. 0 |-> g[i]] /\ g[0] = << >> /\ \A i \in 1 .. 0 : g[i] = CutBy(g[i - 1], e[i])
    OBVIOUS
  <2> HIDE DEF g, e
  <2>2. IsCutting(g, << >>, e)  BY <2>1 DEF IsCutting
  <2> QED BY <2>1, <2>2 DEF e
<1>2. ASSUME NEW b \in Seq(Item), NEW x \in Item, b \in P PROVE Append(b, x) \in P
  <2> DEFINE r == Append(b, x)
             n == Len(b)
  <2>1. /\ r \in Seq(Item) /\ n \in Nat /\ Len(r) = n + 1 /\ r[n + 1] = x
        /\ \A i \in 1 .. n : r[i] = b[i]
    OBVIOUS
  <2>2. PICK g : IsCutting(g, << >>, b)  BY <1>2
  <2> DEFINE h == [i \in 0 .. n + 1 |-> IF i = n + 1 THEN CutBy(g[n], x) ELSE g[i]]
  <2> HIDE DEF r
  <2>3. h = [i \in 0 .. n + 1 |-> h[i]] /\ h[0] = << >>  BY <2>1, <2>2 DEF IsCutting
  <2>4. ASSUME NEW i \in 1 .. n + 1 PROVE h[i] = CutBy(h[i - 1], r[i])
    <3>1. i - 1 \in 0 .. n + 1 /\ i - 1 # n + 1 /\ h[i - 1] = g[i - 1]  BY <2>1
    <3>2. CASE i = n + 1  BY <2>1, <3>1, <3>2
    <3>3. CASE i \in 1 .. n
      <4>1. h[i] = g[i]  BY <2>1, <3>3
      <4>2. g[i] = CutBy(g[i - 1], b[i])  BY <2>2, <3>3 DEF IsCutting
      <4> QED BY <2>1, <3>1, <3>3, <4>1, <4>2
    <3> QED BY <2>1, <3>2, <3>3
  <2> HIDE DEF h
  <2>5. IsCutting(h, << >>, r)  BY <2>1, <2>3, <2>4 DEF IsCutting
  <2> QED BY <2>1, <2>5 DEF r
<1>3. PICK g : IsCutting(g, << >>, box)
  <2>1. Seq(Item) \subseteq P
    <3> HIDE DEF P
    <3> QED BY <1>1, <1>2, EverySequence
  <2> QED BY <2>1
<1> DEFINE n == Len(box)
           f == CutSoFar(box, JoinsDepth)
<1>4. n \in Nat  OBVIOUS
<1>5. g = [i \in 0 .. n |-> IF i = 0 THEN << >> ELSE CutBy(g[i - 1], box[i])]
  <2>1. \A i \in 0 .. n : g[i] = IF i = 0 THEN << >> ELSE CutBy(g[i - 1], box[i])
    <3>1. g[0] = << >> /\ \A i \in 1 .. n : g[i] = CutBy(g[i - 1], box[i])  BY <1>3 DEF IsCutting
    <3>2. \A i \in 0 .. n : i # 0 => i \in 1 .. n  BY <1>4
    <3> QED BY <3>1, <3>2
  <2>2. g = [i \in 0 .. n |-> g[i]]  BY <1>3 DEF IsCutting
  <2> QED BY <2>1, <2>2
<1>6. f = [i \in 0 .. n |-> IF i = 0 THEN << >> ELSE CutBy(f[i - 1], box[i])]
  BY <1>5 DEF CutSoFar, Turns, CutBy
<1> HIDE DEF f
<1>7. f = [i \in 0 .. n |-> f[i]]  BY <1>6
<1>8. f[0] = << >> /\ \A i \in 1 .. n : f[i] = CutBy(f[i - 1], box[i])  BY <1>4, <1>6
<1> QED BY <1>7, <1>8 DEF IsCutting, f

\* Cutting a text with one more piece.
LEMMA CutMore ==
  ASSUME NEW Item
  PROVE  /\ Clauses(<< >>) = << >>
         /\ \A box \in Seq(Item), tok \in Item :
              Clauses(Append(box, tok)) = CutBy(Clauses(box), tok)
<1>1. Clauses(<< >>) = << >>
  <2> DEFINE e == << >>
  <2>1. e \in Seq(Item) /\ Len(e) = 0  OBVIOUS
  <2> HIDE DEF e
  <2>2. IsCutting(CutSoFar(e, JoinsDepth), << >>, e)  BY <2>1, CutLoop
  <2> QED BY <2>1, <2>2 DEF Clauses, IsCutting, e
<1>2. ASSUME NEW box \in Seq(Item), NEW tok \in Item
      PROVE  Clauses(Append(box, tok)) = CutBy(Clauses(box), tok)
  <2> DEFINE r == Append(box, tok)
             n == Len(box)
             f == CutSoFar(box, JoinsDepth)
             g == CutSoFar(r, JoinsDepth)
             P == {i \in 0 .. n : g[i] = f[i]}
  <2>1. /\ r \in Seq(Item) /\ n \in Nat /\ Len(r) = n + 1 /\ r[n + 1] = tok
        /\ \A i \in 1 .. n : r[i] = box[i]
    OBVIOUS
  <2>2. IsCutting(f, << >>, box) /\ IsCutting(g, << >>, r)  BY <2>1, CutLoop
  <2>3. Clauses(r) = g[n + 1] /\ Clauses(box) = f[n]  BY <2>1 DEF Clauses
  <2> HIDE DEF r, f, g
  <2>4. 0 \in P  BY <2>1, <2>2 DEF IsCutting
  <2>5. ASSUME NEW i \in 1 .. n, i - 1 \in P PROVE i \in P
    <3>1. i \in 0 .. n /\ i \in 1 .. Len(r) /\ r[i] = box[i]  BY <2>1
    <3>2. g[i] = CutBy(g[i - 1], r[i]) /\ f[i] = CutBy(f[i - 1], box[i])  BY <2>2, <3>1 DEF IsCutting
    <3> QED BY <2>5, <3>1, <3>2
  <2>6. n \in P
    <3> HIDE DEF P, n
    <3>1. 0 .. n \subseteq P  BY <2>1, <2>4, <2>5, UpTo
    <3> QED BY <2>1, <3>1
  <2>7. g[n + 1] = CutBy(g[n], tok)
    <3>1. n + 1 \in 1 .. Len(r) /\ (n + 1) - 1 = n  BY <2>1
    <3> QED BY <2>1, <2>2, <3>1 DEF IsCutting
  <2> QED BY <2>3, <2>6, <2>7 DEF r
<1> QED BY <1>1, <1>2

(* Writing overrides, one at a time. *)
WriteBy(all, o) == all \o PiecesOf(o)
IsWriting(g, base, modes) ==
  /\ g = [i \in 0 .. Len(modes) |-> g[i]] /\ g[0] = base
  /\ \A i \in 1 .. Len(modes) : g[i] = WriteBy(g[i - 1], modes[i])

\* WrittenSoFar writes the overrides one after the other.
LEMMA WriteLoop ==
  ASSUME NEW Item, NEW box \in Seq(Item)
  PROVE  IsWriting(WrittenSoFar(box), << >>, box)
<1> DEFINE Readable(b) == \E g : IsWriting(g, << >>, b)
           P == {b \in Seq(Item) : Readable(b)}
<1>1. << >> \in P
  <2> DEFINE g == [i \in 0 .. 0 |-> << >>]
             e == << >>
  <2>1. /\ e \in Seq(Item) /\ Len(e) = 0
        /\ g = [i \in 0 .. 0 |-> g[i]] /\ g[0] = << >> /\ \A i \in 1 .. 0 : g[i] = WriteBy(g[i - 1], e[i])
    OBVIOUS
  <2> HIDE DEF g, e
  <2>2. IsWriting(g, << >>, e)  BY <2>1 DEF IsWriting
  <2> QED BY <2>1, <2>2 DEF e
<1>2. ASSUME NEW b \in Seq(Item), NEW x \in Item, b \in P PROVE Append(b, x) \in P
  <2> DEFINE r == Append(b, x)
             n == Len(b)
  <2>1. /\ r \in Seq(Item) /\ n \in Nat /\ Len(r) = n + 1 /\ r[n + 1] = x
        /\ \A i \in 1 .. n : r[i] = b[i]
    OBVIOUS
  <2>2. PICK g : IsWriting(g, << >>, b)  BY <1>2
  <2> DEFINE h == [i \in 0 .. n + 1 |-> IF i = n + 1 THEN WriteBy(g[n], x) ELSE g[i]]
  <2> HIDE DEF r
  <2>3. h = [i \in 0 .. n + 1 |-> h[i]] /\ h[0] = << >>  BY <2>1, <2>2 DEF IsWriting
  <2>4. ASSUME NEW i \in 1 .. n + 1 PROVE h[i] = WriteBy(h[i - 1], r[i])
    <3>1. i - 1 \in 0 .. n + 1 /\ i - 1 # n + 1 /\ h[i - 1] = g[i - 1]  BY <2>1
    <3>2. CASE i = n + 1  BY <2>1, <3>1, <3>2
    <3>3. CASE i \in 1 .. n
      <4>1. h[i] = g[i]  BY <2>1, <3>3
      <4>2. g[i] = WriteBy(g[i - 1], b[i])  BY <2>2, <3>3 DEF IsWriting
      <4> QED BY <2>1, <3>1, <3>3, <4>1, <4>2
    <3> QED BY <2>1, <3>2, <3>3
  <2> HIDE DEF h
  <2>5. IsWriting(h, << >>, r)  BY <2>1, <2>3, <2>4 DEF IsWriting
  <2> QED BY <2>1, <2>5 DEF r
<1>3. PICK g : IsWriting(g, << >>, box)
  <2>1. Seq(Item) \subseteq P
    <3> HIDE DEF P
    <3> QED BY <1>1, <1>2, EverySequence
  <2> QED BY <2>1
<1> DEFINE n == Len(box)
           f == WrittenSoFar(box)
<1>4. n \in Nat  OBVIOUS
<1>5. g = [i \in 0 .. n |-> IF i = 0 THEN << >> ELSE WriteBy(g[i - 1], box[i])]
  <2>1. \A i \in 0 .. n : g[i] = IF i = 0 THEN << >> ELSE WriteBy(g[i - 1], box[i])
    <3>1. g[0] = << >> /\ \A i \in 1 .. n : g[i] = WriteBy(g[i - 1], box[i])  BY <1>3 DEF IsWriting
    <3>2. \A i \in 0 .. n : i # 0 => i \in 1 .. n  BY <1>4
    <3> QED BY <3>1, <3>2
  <2>2. g = [i \in 0 .. n |-> g[i]]  BY <1>3 DEF IsWriting
  <2> QED BY <2>1, <2>2
<1>6. f = [i \in 0 .. n |-> IF i = 0 THEN << >> ELSE WriteBy(f[i - 1], box[i])]
  BY <1>5 DEF WrittenSoFar, Turns, WriteBy
<1> HIDE DEF f
<1>7. f = [i \in 0 .. n |-> f[i]]  BY <1>6
<1>8. f[0] = << >> /\ \A i \in 1 .. n : f[i] = WriteBy(f[i - 1], box[i])  BY <1>4, <1>6
<1> QED BY <1>7, <1>8 DEF IsWriting, f

\* Writing one more override.
LEMMA WriteMore ==
  ASSUME NEW Item
  PROVE  /\ CanonicalPrefetchSubModes(<< >>) = << >>
         /\ \A box \in Seq(Item), tok \in Item :
              CanonicalPrefetchSubModes(Append(box, tok)) = WriteBy(CanonicalPrefetchSubModes(box), tok)
<1>1. CanonicalPrefetchSubModes(<< >>) = << >>
  <2> DEFINE e == << >>
  <2>1. e \in Seq(Item) /\ Len(e) = 0  OBVIOUS
  <2> HIDE DEF e
  <2>2. IsWriting(WrittenSoFar(e), << >>, e)  BY <2>1, WriteLoop
  <2> QED BY <2>1, <2>2 DEF CanonicalPrefetchSubModes, IsWriting, e
<1>2. ASSUME NEW box \in Seq(Item), NEW tok \in Item
      PROVE  CanonicalPrefetchSubModes(Append(box, tok)) = WriteBy(CanonicalPrefetchSubModes(box), tok)
  <2> DEFINE r == Append(box, tok)
             n == Len(box)
             f == WrittenSoFar(box)
             g == WrittenSoFar(r)
             P == {i \in 0 .. n : g[i] = f[i]}
  <2>1. /\ r \in Seq(Item) /\ n \in Nat /\ Len(r) = n + 1 /\ r[n + 1] = tok
        /\ \A i \in 1 .. n : r[i] = box[i]
    OBVIOUS
  <2>2. IsWriting(f, << >>, box) /\ IsWriting(g, << >>, r)  BY <2>1, WriteLoop
  <2>3. CanonicalPrefetchSubModes(r) = g[n + 1] /\ CanonicalPrefetchSubModes(box) = f[n]
    BY <2>1 DEF CanonicalPrefetchSubModes
  <2> HIDE DEF r, f, g
  <2>4. 0 \in P  BY <2>1, <2>2 DEF IsWriting
  <2>5. ASSUME NEW i \in 1 .. n, i - 1 \in P PROVE i \in P
    <3>1. i \in 0 .. n /\ i \in 1 .. Len(r) /\ r[i] = box[i]  BY <2>1
    <3>2. g[i] = WriteBy(g[i - 1], r[i]) /\ f[i] = WriteBy(f[i - 1], box[i])  BY <2>2, <3>1 DEF IsWriting
    <3> QED BY <2>5, <3>1, <3>2
  <2>6. n \in P
    <3> HIDE DEF P, n
    <3>1. 0 .. n \subseteq P  BY <2>1, <2>4, <2>5, UpTo
    <3> QED BY <2>1, <3>1
  <2>7. g[n + 1] = WriteBy(g[n], tok)
    <3>1. n + 1 \in 1 .. Len(r) /\ (n + 1) - 1 = n  BY <2>1
    <3> QED BY <2>1, <2>2, <3>1 DEF IsWriting
  <2> QED BY <2>3, <2>6, <2>7 DEF r
<1> QED BY <1>1, <1>2

-----------------------------------------------------------------------------
(* The overrides a form is normalised to. *)
Depths == {"none", "l2", "l3", "l2+l3"}
Overrides ==
  {o \in [sub : SFValidName, sort : ValidSorts \cup {""}, time : Timeframes \cup {""},
          depth : Depths \cup {""}] : o # NoOverride(o.sub)}
SubsOf(modes) == [h \in DOMAIN modes |-> modes[h].sub]

\* The greatest of some places is one of them.
LEMMA GreatestIs ==
  ASSUME NEW n \in Nat, NEW S, S \subseteq 1 .. n, S # {}
  PROVE  Greatest(S) \in S
<1> DEFINE In(i) == \E j \in S : j <= i
           Has(i) == \E m \in S : \A j \in S : j <= i => j <= m
           P == {i \in 0 .. n : In(i) => Has(i)}
<1>1. 0 \in P  OBVIOUS
<1>2. ASSUME NEW i \in 1 .. n, i - 1 \in P PROVE i \in P
  <2>1. CASE i \in S  BY <2>1
  <2>2. CASE i \notin S
    <3>1. \A j \in S : j <= i => j <= i - 1  BY <2>2
    <3>2. In(i) => In(i - 1)  BY <3>1
    <3>3. Has(i - 1) => Has(i)  BY <3>1
    <3> QED BY <1>2, <3>2, <3>3
  <2> QED BY <2>1, <2>2
<1>3. n \in P
  <2> HIDE DEF P
  <2>1. 0 .. n \subseteq P  BY <1>1, <1>2, UpTo
  <2> QED BY <2>1
<1>4. In(n)
  <2>1. PICK j \in S : TRUE  OBVIOUS
  <2>2. j \in 1 .. n  OBVIOUS
  <2>3. j <= n  BY <2>2
  <2> QED BY <2>3
<1>5. PICK m \in S : \A j \in S : j <= n => j <= m  BY <1>3, <1>4
<1>6. \A j \in S : j <= m  BY <1>5
<1> QED BY <1>6 DEF Greatest

\* What a usable depth is written as.
LEMMA DepthIs ==
  ASSUME NEW v, CanonicalizeDepth(v) # "bad"
  PROVE  CanonicalizeDepth(v) \in Depths
BY DEF CanonicalizeDepth, Depths

\* What a clause says of a key is a value of that key, or nothing.
LEMMA SettingIs ==
  ASSUME NEW Item, NEW kv \in Seq(Item)
  PROVE  /\ Setting(kv, "sort") \in ValidSorts \cup {""}
         /\ Setting(kv, "time") \in Timeframes \cup {""}
         /\ Setting(kv, "depth") \in Depths \cup {""}
<1> DEFINE at(k) == {j \in DOMAIN kv : kv[j].k = k /\ UsablePair(kv[j])}
<1>1. \A k : at(k) # {} => Greatest(at(k)) \in at(k)
  <2>1. Len(kv) \in Nat /\ \A k : at(k) \subseteq 1 .. Len(kv)  OBVIOUS
  <2> HIDE DEF at
  <2> QED BY <2>1, GreatestIs
<1>2. \A k : Setting(kv, k) = IF at(k) = {} THEN "" ELSE Meaning(kv[Greatest(at(k))])
  BY DEF Setting
<1>3. \A j : j \in at("sort") => Meaning(kv[j]) \in ValidSorts  BY DEF Meaning, UsablePair
<1>4. \A j : j \in at("time") => Meaning(kv[j]) \in Timeframes  BY DEF Meaning, UsablePair
<1>5. \A j : j \in at("depth") => Meaning(kv[j]) \in Depths
  <2> SUFFICES ASSUME NEW j, j \in at("depth") PROVE Meaning(kv[j]) \in Depths  OBVIOUS
  <2>1. kv[j].k = "depth" /\ CanonicalizeDepth(kv[j].v) # "bad"  BY DEF UsablePair
  <2> QED BY <2>1, DepthIs DEF Meaning
<1> HIDE DEF at
<1>6. Setting(kv, "sort") \in ValidSorts \cup {""}  BY <1>1, <1>2, <1>3
<1>7. Setting(kv, "time") \in Timeframes \cup {""}  BY <1>1, <1>2, <1>4
<1>8. Setting(kv, "depth") \in Depths \cup {""}  BY <1>1, <1>2, <1>5
<1> QED BY <1>6, <1>7, <1>8

\* What an accepted clause says is an override.
LEMMA OverrideIs ==
  ASSUME NEW clause \in Clause, Accepted(clause)
  PROVE  Override(clause) \in Overrides /\ Override(clause).sub = clause.name
<1> DEFINE o == Override(clause)
<1>1. clause.kv \in Seq(Pairs)  BY DEF Clause
<1>2. /\ Setting(clause.kv, "sort") \in ValidSorts \cup {""}
      /\ Setting(clause.kv, "time") \in Timeframes \cup {""}
      /\ Setting(clause.kv, "depth") \in Depths \cup {""}
  BY <1>1, SettingIs
<1>3. clause.name \in SFValidName /\ o # NoOverride(clause.name)  BY DEF Accepted
<1>4. /\ o = [sub |-> clause.name, sort |-> Setting(clause.kv, "sort"),
              time |-> Setting(clause.kv, "time"), depth |-> Setting(clause.kv, "depth")]
  BY DEF Override
<1>5. o.sub = clause.name  BY <1>4
<1> HIDE DEF o
<1>6. o \in [sub : SFValidName, sort : ValidSorts \cup {""}, time : Timeframes \cup {""},
             depth : Depths \cup {""}]
  BY <1>2, <1>3, <1>4
<1> QED BY <1>3, <1>5, <1>6 DEF Overrides, o

\* The overrides of a text: one for a sub, and each from a clause of it.
LEMMA ModesAre ==
  ASSUME NEW clauses \in Seq(Clause)
  PROVE  LET M == ParsePrefetchSubModes(clauses) IN
           /\ M \in Seq(Overrides) /\ Distinct(SubsOf(M))
           /\ \A n \in Elements(SubsOf(M)) : \E c \in Elements(clauses) : c.eq /\ c.name = n
<1> DEFINE S == {c \in Elements(clauses) : Accepted(c)}
           ok == Only(clauses, S)
           order == FirstSeen(NamesOf(ok))
           at(n) == {i \in DOMAIN ok : ok[i].name = n}
           byName(n) == ok[Greatest(at(n))]
           M == ParsePrefetchSubModes(clauses)
<1>1. M = [h \in DOMAIN order |-> Override(byName(order[h]))]  BY DEF ParsePrefetchSubModes
<1>2. ok \in Seq(Clause) /\ Elements(ok) \subseteq S
  <2> HIDE DEF S
  <2> QED BY OnlyKeeps
<1>3. \A x \in Clause : x.name \in STRING  BY DEF Clause
<1>4. /\ Elements(ok) \subseteq Elements(clauses)
      /\ \A c \in Elements(ok) : Accepted(c)
  BY <1>2
<1> HIDE DEF ok, S
<1>5. /\ NamesOf(ok) \in Seq(STRING) /\ DOMAIN ok = 1 .. Len(ok) /\ Len(ok) \in Nat
      /\ \A i \in DOMAIN ok : ok[i] \in Clause
      /\ Elements(NamesOf(ok)) = {x.name : x \in Elements(ok)}
  BY <1>2, <1>3, NamesAre
<1>6. order \in Seq(STRING) /\ Distinct(order) /\ Elements(order) = Elements(NamesOf(ok))
  BY <1>5, SeenOnce
<1> HIDE DEF order
<1>7. ASSUME NEW h \in DOMAIN order
      PROVE  LET c == byName(order[h]) IN
               c \in Elements(ok) /\ c \in Clause /\ c.name = order[h] /\ Accepted(c)
  <2> DEFINE n == order[h]
  <2>1. n \in Elements(order)  BY DEF Elements
  <2>2. PICK x \in Elements(ok) : x.name = n  BY <1>5, <1>6, <2>1
  <2>3. PICK i \in DOMAIN ok : ok[i] = x  BY <2>2 DEF Elements
  <2>4. i \in at(n)  BY <2>2, <2>3
  <2>5. at(n) \subseteq 1 .. Len(ok)  BY <1>5
  <2> HIDE DEF n
  <2>6. Greatest(at(n)) \in at(n)
    <3> HIDE DEF at
    <3> QED BY <1>5, <2>4, <2>5, GreatestIs
  <2>7. PICK j \in DOMAIN ok : j = Greatest(at(n)) /\ ok[j].name = n  BY <2>6
  <2>8. ok[j] \in Elements(ok)  BY DEF Elements
  <2> QED BY <1>4, <1>5, <2>7, <2>8 DEF n
<1> HIDE DEF byName
<1>8. \A h \in DOMAIN order : M[h] \in Overrides /\ M[h].sub = order[h]
  BY <1>1, <1>7, OverrideIs
<1>9. DOMAIN order = 1 .. Len(order) /\ Len(order) \in Nat  BY <1>6
<1>10. M = [h \in 1 .. Len(order) |-> M[h]]  BY <1>1, <1>9
<1>11. M \in Seq(Overrides) /\ DOMAIN M = DOMAIN order
  <2> HIDE DEF M
  <2> QED BY <1>8, <1>9, <1>10
<1> HIDE DEF M
<1>12. SubsOf(M) = order
  <2>1. order = [h \in 1 .. Len(order) |-> order[h]]  BY <1>6, SequenceIs
  <2>2. SubsOf(M) = [h \in 1 .. Len(order) |-> order[h]]  BY <1>8, <1>9, <1>11 DEF SubsOf
  <2> QED BY <2>1, <2>2
<1>13. \A n \in Elements(order) : \E c \in Elements(clauses) : c.eq /\ c.name = n
  <2> SUFFICES ASSUME NEW h \in DOMAIN order PROVE \E c \in Elements(clauses) : c.eq /\ c.name = order[h]
    BY DEF Elements
  <2>1. PICK c \in Elements(ok) : c.name = order[h] /\ Accepted(c)  BY <1>7
  <2> QED BY <1>4, <2>1 DEF Accepted
<1> QED BY <1>6, <1>11, <1>12, <1>13 DEF M

-----------------------------------------------------------------------------
(* An override written as a clause. *)
Short(o) ==
  (IF o.sort = "" THEN <<>> ELSE <<KV("sort", o.sort)>>)
    \o (IF o.time = "" THEN <<>> ELSE <<KV("time", o.time)>>)
Layers(o) == IF o.depth = "l2+l3" THEN <<"l2", "l3">> ELSE <<o.depth>>
PairsOf(o) == IF o.depth = "" THEN Short(o) ELSE Append(Short(o), KV("depth", Layers(o)))
ClauseOf(o) == Piece(o.sub, PairsOf(o))
\* No pair has the key, or just one, with this value.
Lacks(kv, k) == \A j \in DOMAIN kv : kv[j].k # k
Has(kv, k, v) == \E i \in DOMAIN kv : kv[i].v = v /\ \A j \in DOMAIN kv : kv[j].k = k <=> j = i

\* A part of at most one pair.
LEMMA AtMostOne ==
  ASSUME NEW Item, NEW x \in Item, NEW A, A \in {<<>>, <<x>>}
  PROVE  /\ A \in Seq(Item) /\ Len(A) \in {0, 1} /\ (Len(A) = 1 => A[1] = x)
         /\ A = <<>> => Len(A) = 0
         /\ A = <<x>> => Len(A) = 1
<1>1. CASE A = <<>>
  <2>1. A # <<x>>  BY <1>1
  <2> QED BY <1>1, <2>1
<1>2. CASE A = <<x>>
  <2>1. A # <<>>  BY <1>2
  <2> QED BY <1>2, <2>1
<1> QED BY <1>1, <1>2

\* Where the pairs of three parts end to end are.
LEMMA ThreeParts ==
  ASSUME NEW Item, NEW A \in Seq(Item), NEW B \in Seq(Item), NEW C \in Seq(Item)
  PROVE  LET kv == (A \o B) \o C IN
           /\ kv \in Seq(Item) /\ DOMAIN kv = 1 .. Len(A) + Len(B) + Len(C)
           /\ \A i \in 1 .. Len(A) : kv[i] = A[i]
           /\ \A i \in 1 .. Len(B) : kv[Len(A) + i] = B[i]
           /\ \A i \in 1 .. Len(C) : kv[Len(A) + Len(B) + i] = C[i]
<1> DEFINE u == A \o B
           kv == u \o C
<1>0. Len(A) \in Nat /\ Len(B) \in Nat /\ Len(C) \in Nat  OBVIOUS
<1>1. /\ u \in Seq(Item) /\ Len(u) = Len(A) + Len(B)
      /\ \A i \in 1 .. Len(A) : u[i] = A[i]
      /\ \A i \in 1 .. Len(B) : u[Len(A) + i] = B[i]
  BY JoinedAre
<1> HIDE DEF u
<1>2. u \in Seq(Item) /\ C \in Seq(Item)  BY <1>1
<1>3. /\ kv \in Seq(Item)
      /\ Len(kv) = Len(u) + Len(C)
      /\ \A i \in 1 .. Len(u) : kv[i] = u[i]
      /\ \A i \in 1 .. Len(C) : kv[Len(u) + i] = C[i]
  BY <1>2, JoinedAre
<1>4. DOMAIN kv = 1 .. Len(kv)  BY <1>3
<1> HIDE DEF kv
<1> DEFINE a == Len(A)
           b == Len(B)
           c == Len(C)
<1>5. /\ a \in Nat /\ b \in Nat /\ c \in Nat /\ Len(u) = a + b /\ Len(kv) = a + b + c
      /\ \A i \in 1 .. a : u[i] = A[i]
      /\ \A i \in 1 .. b : u[a + i] = B[i]
      /\ \A i \in 1 .. a + b : kv[i] = u[i]
      /\ \A i \in 1 .. c : kv[a + b + i] = C[i]
  <2>1. Len(u) = a + b  BY <1>1
  <2>2. \A i \in 1 .. a + b : kv[i] = u[i]  BY <1>3, <2>1
  <2>3. \A i \in 1 .. c : kv[a + b + i] = C[i]  BY <1>3, <2>1
  <2>4. Len(kv) = a + b + c  BY <1>3, <2>1
  <2> QED BY <1>0, <1>1, <2>1, <2>2, <2>3, <2>4
<1> HIDE DEF a, b, c
<1>6. \A i \in 1 .. a : i \in 1 .. a + b  BY <1>5
<1>7. \A i \in 1 .. b : a + i \in 1 .. a + b  BY <1>5
<1>8. \A i \in 1 .. a : kv[i] = A[i]  BY <1>5, <1>6
<1>9. \A i \in 1 .. b : kv[a + i] = B[i]
  <2> SUFFICES ASSUME NEW i \in 1 .. b PROVE kv[a + i] = B[i]  OBVIOUS
  <2>1. a + i \in 1 .. a + b  BY <1>7
  <2>2. kv[a + i] = u[a + i]  BY <1>5, <2>1
  <2>3. u[a + i] = B[i]  BY <1>5
  <2> QED BY <2>2, <2>3
<1>10. DOMAIN kv = 1 .. a + b + c  BY <1>4, <1>5
<1> QED BY <1>3, <1>5, <1>8, <1>9, <1>10 DEF a, b, c, kv, u

Placed(kv, a, b, c, s, t, d) ==
  /\ a \in {0, 1} /\ b \in {0, 1} /\ c \in {0, 1} /\ DOMAIN kv = 1 .. a + b + c
  /\ a = 1 => kv[1] = s
  /\ b = 1 => kv[a + 1] = t
  /\ c = 1 => kv[a + b + 1] = d
  /\ s.k = "sort" /\ t.k = "time" /\ d.k = "depth"

\* In three parts, one for each key, a key is found in its own.
LEMMA ThreePlaces ==
  ASSUME NEW kv, NEW a, NEW b, NEW c, NEW s, NEW t, NEW d, Placed(kv, a, b, c, s, t, d)
  PROVE  /\ a = 0 => Lacks(kv, "sort")
         /\ a = 1 => Has(kv, "sort", s.v)
         /\ b = 0 => Lacks(kv, "time")
         /\ b = 1 => Has(kv, "time", t.v)
         /\ c = 0 => Lacks(kv, "depth")
         /\ c = 1 => Has(kv, "depth", d.v)
         /\ \A j \in DOMAIN kv : kv[j].k \in {"sort", "time", "depth"}
<1>0. /\ a \in {0, 1} /\ b \in {0, 1} /\ c \in {0, 1} /\ DOMAIN kv = 1 .. a + b + c
      /\ a = 1 => kv[1] = s
      /\ b = 1 => kv[a + 1] = t
      /\ c = 1 => kv[a + b + 1] = d
      /\ s.k = "sort" /\ t.k = "time" /\ d.k = "depth"
  BY DEF Placed
<1>1. \A j \in DOMAIN kv : \/ a = 1 /\ j = 1
                           \/ b = 1 /\ j = a + 1
                           \/ c = 1 /\ j = a + b + 1
  BY <1>0
<1>2. \A j \in DOMAIN kv : \/ a = 1 /\ j = 1 /\ kv[j].k = "sort"
                           \/ b = 1 /\ j = a + 1 /\ kv[j].k = "time"
                           \/ c = 1 /\ j = a + b + 1 /\ kv[j].k = "depth"
  BY <1>0, <1>1
<1>3. \A j \in DOMAIN kv : kv[j].k \in {"sort", "time", "depth"}  BY <1>2
<1>4. \A j \in DOMAIN kv : kv[j].k = "sort" <=> a = 1 /\ j = 1
  <2>1. ASSUME NEW j \in DOMAIN kv, a = 1, j = 1 PROVE kv[j].k = "sort"  BY <1>0, <2>1
  <2>2. ASSUME NEW j \in DOMAIN kv, kv[j].k = "sort" PROVE a = 1 /\ j = 1  BY <1>0, <1>2, <2>2
  <2> QED BY <2>1, <2>2
<1>5. \A j \in DOMAIN kv : kv[j].k = "time" <=> b = 1 /\ j = a + 1
  <2>1. ASSUME NEW j \in DOMAIN kv, b = 1, j = a + 1 PROVE kv[j].k = "time"  BY <1>0, <2>1
  <2>2. ASSUME NEW j \in DOMAIN kv, kv[j].k = "time" PROVE b = 1 /\ j = a + 1  BY <1>0, <1>2, <2>2
  <2> QED BY <2>1, <2>2
<1>6. \A j \in DOMAIN kv : kv[j].k = "depth" <=> c = 1 /\ j = a + b + 1
  <2>1. ASSUME NEW j \in DOMAIN kv, c = 1, j = a + b + 1 PROVE kv[j].k = "depth"  BY <1>0, <2>1
  <2>2. ASSUME NEW j \in DOMAIN kv, kv[j].k = "depth" PROVE c = 1 /\ j = a + b + 1  BY <1>0, <1>2, <2>2
  <2> QED BY <2>1, <2>2
<1>7. /\ a = 0 => Lacks(kv, "sort")
      /\ b = 0 => Lacks(kv, "time")
      /\ c = 0 => Lacks(kv, "depth")
  BY <1>4, <1>5, <1>6 DEF Lacks
<1>8. a = 1 => 1 \in DOMAIN kv /\ kv[1] = s  BY <1>0
<1>9. b = 1 => a + 1 \in DOMAIN kv /\ kv[a + 1] = t  BY <1>0
<1>10. c = 1 => a + b + 1 \in DOMAIN kv /\ kv[a + b + 1] = d  BY <1>0
<1>11. a = 1 => Has(kv, "sort", s.v)  BY <1>4, <1>8 DEF Has
<1>12. b = 1 => Has(kv, "time", t.v)
  <2> DEFINE i == a + 1
  <2>1. b = 1 => i \in DOMAIN kv /\ kv[i] = t /\ \A j \in DOMAIN kv : kv[j].k = "time" <=> j = i
    BY <1>5, <1>9
  <2> HIDE DEF i
  <2> QED BY <2>1 DEF Has
<1>13. c = 1 => Has(kv, "depth", d.v)
  <2> DEFINE i == a + b + 1
  <2>1. c = 1 => i \in DOMAIN kv /\ kv[i] = d /\ \A j \in DOMAIN kv : kv[j].k = "depth" <=> j = i
    BY <1>6, <1>10
  <2> HIDE DEF i
  <2> QED BY <2>1 DEF Has
<1> QED BY <1>3, <1>7, <1>11, <1>12, <1>13

\* A sequence of one element behind another.
LEMMA OneBehind ==
  ASSUME NEW Item, NEW u \in Seq(Item), NEW C \in Seq(Item)
  PROVE  Len(C) = 1 => u \o C = Append(u, C[1])
<1> DEFINE n == Len(u)
           l == u \o C
           r == Append(u, C[1])
<1>1. /\ l \in Seq(Item) /\ Len(l) = Len(u) + Len(C) /\ Len(u) \in Nat
      /\ \A i \in 1 .. Len(u) : l[i] = u[i]
      /\ \A i \in 1 .. Len(C) : l[Len(u) + i] = C[i]
  BY JoinedAre
<1>2. Len(C) = 1 => C[1] \in Item  OBVIOUS
<1> HAVE Len(C) = 1
<1>3. /\ r \in Seq(Item) /\ Len(r) = n + 1
      /\ \A i \in 1 .. n : r[i] = u[i]
      /\ r[n + 1] = C[1]
  BY <1>2
<1> HIDE DEF l, r
<1>4. l \in Seq(Item) /\ Len(l) = n + 1 /\ l[n + 1] = C[1]  BY <1>1
<1>5. \A i \in 1 .. n : l[i] = u[i]  BY <1>1
<1>7. l = [i \in 1 .. n + 1 |-> l[i]] /\ r = [i \in 1 .. n + 1 |-> r[i]]
  BY <1>3, <1>4, SequenceIs
<1>8. n \in Nat  BY <1>1
<1> HIDE DEF n
<1>6. \A i \in 1 .. n + 1 : l[i] = r[i]
  <2>1. \A i \in 1 .. n + 1 : i \in 1 .. n \/ i = n + 1  BY <1>8
  <2> QED BY <2>1, <1>3, <1>4, <1>5
<1> QED BY <1>6, <1>7 DEF l, r

\* The pairs written for an override are those it has.
LEMMA PairsAre ==
  ASSUME NEW o \in Overrides
  PROVE  LET kv == PairsOf(o) IN
           /\ DOMAIN kv \subseteq Int
           /\ o.sort = "" => Lacks(kv, "sort")
           /\ o.sort # "" => Has(kv, "sort", o.sort)
           /\ o.time = "" => Lacks(kv, "time")
           /\ o.time # "" => Has(kv, "time", o.time)
           /\ o.depth = "" => Lacks(kv, "depth")
           /\ o.depth # "" => Has(kv, "depth", Layers(o))
           /\ \A j \in DOMAIN kv : kv[j].k \in {"sort", "time", "depth"}
<1> DEFINE s == KV("sort", o.sort)
           t == KV("time", o.time)
           d == KV("depth", Layers(o))
           Item == {s, t, d}
           A == IF o.sort = "" THEN <<>> ELSE <<s>>
           B == IF o.time = "" THEN <<>> ELSE <<t>>
           C == IF o.depth = "" THEN <<>> ELSE <<d>>
           kv == PairsOf(o)
<1>1. /\ s.k = "sort" /\ s.v = o.sort /\ t.k = "time" /\ t.v = o.time
      /\ d.k = "depth" /\ d.v = Layers(o)
  BY DEF KV
<1>2. Short(o) = A \o B  BY DEF Short
<1>3. s \in Item /\ t \in Item /\ d \in Item  OBVIOUS
<1>4. PairsOf(o) = IF o.depth = "" THEN Short(o) ELSE Append(Short(o), d)  BY DEF PairsOf
<1> HIDE DEF s, t, d, Item
<1>5. /\ A \in Seq(Item) /\ (o.sort = "" => Len(A) = 0) /\ (o.sort # "" => Len(A) = 1)
      /\ Len(A) \in {0, 1} /\ (Len(A) = 1 => A[1] = s)
  <2>1. (o.sort = "" => A = <<>>) /\ (o.sort # "" => A = <<s>>)  OBVIOUS
  <2>2. A \in {<<>>, <<s>>}  OBVIOUS
  <2> HIDE DEF A
  <2>3. /\ A \in Seq(Item) /\ Len(A) \in {0, 1} /\ (Len(A) = 1 => A[1] = s)
        /\ A = <<>> => Len(A) = 0
        /\ A = <<s>> => Len(A) = 1
    BY <1>3, <2>2, AtMostOne
  <2> QED BY <2>1, <2>3
<1>6. /\ B \in Seq(Item) /\ (o.time = "" => Len(B) = 0) /\ (o.time # "" => Len(B) = 1)
      /\ Len(B) \in {0, 1} /\ (Len(B) = 1 => B[1] = t)
  <2>1. (o.time = "" => B = <<>>) /\ (o.time # "" => B = <<t>>)  OBVIOUS
  <2>2. B \in {<<>>, <<t>>}  OBVIOUS
  <2> HIDE DEF B
  <2>3. /\ B \in Seq(Item) /\ Len(B) \in {0, 1} /\ (Len(B) = 1 => B[1] = t)
        /\ B = <<>> => Len(B) = 0
        /\ B = <<t>> => Len(B) = 1
    BY <1>3, <2>2, AtMostOne
  <2> QED BY <2>1, <2>3
<1>7. /\ C \in Seq(Item) /\ (o.depth = "" => Len(C) = 0) /\ (o.depth # "" => Len(C) = 1)
      /\ Len(C) \in {0, 1} /\ (Len(C) = 1 => C[1] = d)
  <2>1. (o.depth = "" => C = <<>>) /\ (o.depth # "" => C = <<d>>)  OBVIOUS
  <2>2. C \in {<<>>, <<d>>}  OBVIOUS
  <2> HIDE DEF C
  <2>3. /\ C \in Seq(Item) /\ Len(C) \in {0, 1} /\ (Len(C) = 1 => C[1] = d)
        /\ C = <<>> => Len(C) = 0
        /\ C = <<d>> => Len(C) = 1
    BY <1>3, <2>2, AtMostOne
  <2> QED BY <2>1, <2>3
<1> HIDE DEF A, B, C
<1>m. A \in Seq(Item) /\ B \in Seq(Item) /\ C \in Seq(Item)  BY <1>5, <1>6, <1>7
<1>8. kv = (A \o B) \o C
  <2> DEFINE u == A \o B
  <2>2. u \in Seq(Item)  BY <1>m
  <2>3. kv = IF o.depth = "" THEN u ELSE Append(u, d)  BY <1>2, <1>4
  <2> HIDE DEF u, kv
  <2>4. CASE o.depth = ""
    <3>1. C \in Seq(Item) /\ Len(C) = 0  BY <1>7, <2>4
    <3>2. u \o C = u  BY <2>2, <3>1
    <3> QED BY <2>3, <2>4, <3>2 DEF u
  <2>5. CASE o.depth # ""
    <3>1. C \in Seq(Item) /\ Len(C) = 1 /\ C[1] = d  BY <1>7, <2>5
    <3>2. u \o C = Append(u, d)
      <4> HIDE DEF s, t, d, Item
      <4>1. Len(C) = 1 => u \o C = Append(u, C[1])  BY <2>2, <3>1, OneBehind
      <4> QED BY <3>1, <4>1
    <3> QED BY <2>3, <2>5, <3>2 DEF u
  <2> QED BY <2>4, <2>5
<1> HIDE DEF kv
<1> DEFINE a == Len(A)
           b == Len(B)
           c == Len(C)
<1>9. /\ DOMAIN kv = 1 .. a + b + c
      /\ \A i \in 1 .. a : kv[i] = A[i]
      /\ \A i \in 1 .. b : kv[a + i] = B[i]
      /\ \A i \in 1 .. c : kv[a + b + i] = C[i]
  BY <1>8, <1>m, ThreeParts
<1>f. a \in {0, 1} /\ b \in {0, 1} /\ c \in {0, 1}  BY <1>5, <1>6, <1>7
<1>a. a = 1 => A[1] = s  BY <1>5
<1>b. b = 1 => B[1] = t  BY <1>6
<1>c. c = 1 => C[1] = d  BY <1>7
<1>e. /\ o.sort = "" => a = 0
      /\ o.sort # "" => a = 1
      /\ o.time = "" => b = 0
      /\ o.time # "" => b = 1
      /\ o.depth = "" => c = 0
      /\ o.depth # "" => c = 1
  BY <1>5, <1>6, <1>7
<1> HIDE DEF a, b, c
<1>d1. a = 1 => kv[1] = s  BY <1>f, <1>9, <1>a
<1>d2. b = 1 => kv[a + 1] = t  BY <1>f, <1>9, <1>b
<1>d3. c = 1 => kv[a + b + 1] = d  BY <1>f, <1>9, <1>c
<1>g. DOMAIN kv = 1 .. a + b + c  BY <1>9
<1>10. /\ a = 0 => Lacks(kv, "sort")
       /\ a = 1 => Has(kv, "sort", s.v)
       /\ b = 0 => Lacks(kv, "time")
       /\ b = 1 => Has(kv, "time", t.v)
       /\ c = 0 => Lacks(kv, "depth")
       /\ c = 1 => Has(kv, "depth", d.v)
       /\ \A j \in DOMAIN kv : kv[j].k \in {"sort", "time", "depth"}
  <2>1. s.k = "sort" /\ t.k = "time" /\ d.k = "depth"  BY <1>1
  <2>2. Placed(kv, a, b, c, s, t, d)  BY <1>d1, <1>d2, <1>d3, <1>f, <1>g, <2>1 DEF Placed
  <2> QED BY <2>2, ThreePlaces
<1>11. DOMAIN kv \subseteq Int  BY <1>g, <1>f
<1> QED BY <1>1, <1>10, <1>11, <1>e DEF kv

-----------------------------------------------------------------------------
(* A clause that is written reads back. *)
LEMMA LayersBack ==
  ASSUME NEW o, o.depth \in Depths
  PROVE  CanonicalizeDepth(Layers(o)) = o.depth /\ o.depth # "bad"
<1>1. CASE o.depth = "none"  BY <1>1 DEF CanonicalizeDepth, Layers
<1>2. CASE o.depth = "l2"  BY <1>2 DEF CanonicalizeDepth, Layers
<1>3. CASE o.depth = "l3"  BY <1>3 DEF CanonicalizeDepth, Layers
<1>4. CASE o.depth = "l2+l3"  BY <1>4 DEF CanonicalizeDepth, Layers
<1> QED BY <1>1, <1>2, <1>3, <1>4 DEF Depths

\* What a clause with one pair of a key says of it.
LEMMA SettingBack ==
  ASSUME NEW kv, DOMAIN kv \subseteq Int, NEW k, NEW v
  PROVE  /\ Lacks(kv, k) => Setting(kv, k) = ""
         /\ Has(kv, k, v) /\ UsablePair(KV(k, v)) => Setting(kv, k) = Meaning(KV(k, v))
<1> DEFINE at == {j \in DOMAIN kv : kv[j].k = k /\ UsablePair(kv[j])}
<1>1. Setting(kv, k) = IF at = {} THEN "" ELSE Meaning(kv[Greatest(at)])  BY DEF Setting
<1>2. ASSUME Lacks(kv, k) PROVE Setting(kv, k) = ""
  <2>1. at = {}  BY <1>2 DEF Lacks
  <2> HIDE DEF at
  <2> QED BY <1>1, <2>1
<1>3. ASSUME Has(kv, k, v), UsablePair(KV(k, v)) PROVE Setting(kv, k) = Meaning(KV(k, v))
  <2>1. PICK i \in DOMAIN kv : kv[i].v = v /\ \A j \in DOMAIN kv : kv[j].k = k <=> j = i
    BY <1>3 DEF Has
  <2>2. kv[i].k = k /\ kv[i].v = v  BY <2>1
  <2>3. KV(k, v).k = k /\ KV(k, v).v = v  BY DEF KV
  <2>4. UsablePair(kv[i]) /\ Meaning(kv[i]) = Meaning(KV(k, v))  BY <1>3, <2>2, <2>3 DEF UsablePair, Meaning
  <2>5. at = {i}  BY <2>1, <2>4
  <2>6. Greatest({i}) = i  BY OneIsBoth
  <2> HIDE DEF at
  <2>7. at # {}  BY <2>5
  <2>8. Setting(kv, k) = Meaning(kv[i])  BY <1>1, <2>5, <2>6, <2>7
  <2> QED BY <2>4, <2>8
<1> QED BY <1>2, <1>3

\* The clause written for an override is read as that override.
LEMMA OverrideBack ==
  ASSUME NEW o \in Overrides
  PROVE  /\ Override(ClauseOf(o)) = o /\ Accepted(ClauseOf(o))
         /\ ClauseOf(o).name = o.sub /\ ClauseOf(o).eq /\ ClauseOf(o).kv = PairsOf(o)
         /\ o.sub \in SFValidName
<1> DEFINE kv == PairsOf(o)
           c == ClauseOf(o)
<1>1. c.name = o.sub /\ c.eq /\ c.kv = kv  BY DEF ClauseOf, Piece
<1>2. /\ o = [sub |-> o.sub, sort |-> o.sort, time |-> o.time, depth |-> o.depth]
      /\ o.sub \in SFValidName /\ o.sort \in ValidSorts \cup {""} /\ o.time \in Timeframes \cup {""}
      /\ o.depth \in Depths \cup {""} /\ o # NoOverride(o.sub)
  BY DEF Overrides
<1>3. /\ DOMAIN kv \subseteq Int
      /\ o.sort = "" => Lacks(kv, "sort")
      /\ o.sort # "" => Has(kv, "sort", o.sort)
      /\ o.time = "" => Lacks(kv, "time")
      /\ o.time # "" => Has(kv, "time", o.time)
      /\ o.depth = "" => Lacks(kv, "depth")
      /\ o.depth # "" => Has(kv, "depth", Layers(o))
  BY PairsAre
<1> HIDE DEF kv, c
<1>4. Setting(kv, "sort") = o.sort
  <2> DEFINE x == KV("sort", o.sort)
  <2>1. x.k = "sort" /\ x.v = o.sort  BY DEF KV
  <2>2. Has(kv, "sort", o.sort) /\ UsablePair(x) => Setting(kv, "sort") = Meaning(x)
    BY <1>3, SettingBack
  <2>3. Lacks(kv, "sort") => Setting(kv, "sort") = ""  BY <1>3, SettingBack
  <2> HIDE DEF x
  <2>4. CASE o.sort = ""  BY <1>3, <2>3, <2>4
  <2>5. CASE o.sort # ""
    <3>1. UsablePair(x) /\ Meaning(x) = o.sort  BY <1>2, <2>1, <2>5 DEF UsablePair, Meaning
    <3> QED BY <1>3, <2>2, <2>5, <3>1
  <2> QED BY <2>4, <2>5
<1>5. Setting(kv, "time") = o.time
  <2> DEFINE x == KV("time", o.time)
  <2>1. x.k = "time" /\ x.v = o.time  BY DEF KV
  <2>2. Has(kv, "time", o.time) /\ UsablePair(x) => Setting(kv, "time") = Meaning(x)
    BY <1>3, SettingBack
  <2>3. Lacks(kv, "time") => Setting(kv, "time") = ""  BY <1>3, SettingBack
  <2> HIDE DEF x
  <2>4. CASE o.time = ""  BY <1>3, <2>3, <2>4
  <2>5. CASE o.time # ""
    <3>1. UsablePair(x) /\ Meaning(x) = o.time  BY <1>2, <2>1, <2>5 DEF UsablePair, Meaning
    <3> QED BY <1>3, <2>2, <2>5, <3>1
  <2> QED BY <2>4, <2>5
<1>6. Setting(kv, "depth") = o.depth
  <2> DEFINE x == KV("depth", Layers(o))
  <2>1. x.k = "depth" /\ x.v = Layers(o)  BY DEF KV
  <2>2. Has(kv, "depth", Layers(o)) /\ UsablePair(x) => Setting(kv, "depth") = Meaning(x)
    BY <1>3, SettingBack
  <2>3. Lacks(kv, "depth") => Setting(kv, "depth") = ""  BY <1>3, SettingBack
  <2> HIDE DEF x
  <2>4. CASE o.depth = ""  BY <1>3, <2>3, <2>4
  <2>5. CASE o.depth # ""
    <3>1. CanonicalizeDepth(x.v) = o.depth /\ o.depth # "bad"  BY <1>2, <2>1, <2>5, LayersBack
    <3>2. UsablePair(x) /\ Meaning(x) = o.depth  BY <2>1, <3>1 DEF UsablePair, Meaning
    <3> QED BY <1>3, <2>2, <2>5, <3>2
  <2> QED BY <2>4, <2>5
<1>7. Override(c) = o
  <2>1. Override(c) = [sub |-> o.sub, sort |-> o.sort, time |-> o.time, depth |-> o.depth]
    BY <1>1, <1>4, <1>5, <1>6 DEF Override
  <2> QED BY <1>2, <2>1
<1>8. Accepted(c)  BY <1>1, <1>2, <1>7 DEF Accepted
<1> QED BY <1>1, <1>2, <1>7, <1>8 DEF c, kv

-----------------------------------------------------------------------------
(* What is written is cut into the clauses it was written from. *)
LEMMA LastBack ==
  ASSUME NEW Item, NEW s \in Seq(Item), NEW x \in Item
  PROVE  Append(s, x) # <<>> /\ LastOf(Append(s, x)) = x /\ FrontOf(Append(s, x)) = s
<1> DEFINE r == Append(s, x)
           n == Len(s)
<1>1. /\ r \in Seq(Item) /\ Len(r) = n + 1 /\ r[n + 1] = x /\ n \in Nat
      /\ \A i \in 1 .. n : r[i] = s[i]
  OBVIOUS
<1> HIDE DEF r, n
<1>2. r # <<>>
  <2>1. Len(<<>>) = 0  OBVIOUS
  <2>2. Len(r) # 0  BY <1>1
  <2> QED BY <2>1, <2>2
<1>3. LastOf(r) = x  BY <1>1 DEF LastOf
<1>4. FrontOf(r) = SubSeq(r, 1, n)  BY <1>1 DEF FrontOf
<1>5. SubSeq(r, 1, n) = [i \in 1 .. n |-> r[i]]
  <2>1. Len(r) \in Nat /\ n \in 0 .. Len(r)  BY <1>1
  <2> QED BY <1>1, <2>1
<1>6. s = [i \in 1 .. n |-> s[i]]  BY SequenceIs DEF n
<1>7. s = [i \in 1 .. n |-> r[i]]  BY <1>1, <1>6
<1> QED BY <1>2, <1>3, <1>4, <1>5, <1>7 DEF r

\* A pair as an element behind another.
LEMMA PairAppended ==
  ASSUME NEW a, NEW b
  PROVE  Append(<<a>>, b) = <<a, b>>
<1> DEFINE Item == {a, b}
           r == Append(<<a>>, b)
<1>1. <<a>> \in Seq(Item) /\ b \in Item /\ Len(<<a>>) = 1  OBVIOUS
<1>2. r \in Seq(Item) /\ Len(r) = 2 /\ r[1] = a /\ r[2] = b  BY <1>1
<1> HIDE DEF r
<1>3. r = <<a, b>>  BY <1>2
<1> QED BY <1>3 DEF r

\* Sort and timeframe are pairs.
LEMMA ShortIs ==
  ASSUME NEW o
  PROVE  Short(o) \in Seq({KV("sort", o.sort), KV("time", o.time)})
<1> DEFINE s == KV("sort", o.sort)
           t == KV("time", o.time)
           Item == {s, t}
           A == IF o.sort = "" THEN <<>> ELSE <<s>>
           B == IF o.time = "" THEN <<>> ELSE <<t>>
<1>2. Short(o) = A \o B  BY DEF Short
<1>3. s \in Item /\ t \in Item  OBVIOUS
<1> HIDE DEF s, t, Item
<1>5. A \in Seq(Item)
  <2>1. A \in {<<>>, <<s>>}  OBVIOUS
  <2> HIDE DEF A
  <2> QED BY <1>3, <2>1, AtMostOne
<1>6. B \in Seq(Item)
  <2>1. B \in {<<>>, <<t>>}  OBVIOUS
  <2> HIDE DEF B
  <2> QED BY <1>3, <2>1, AtMostOne
<1> HIDE DEF A, B
<1>7. A \o B \in Seq(Item)  BY <1>5, <1>6
<1> QED BY <1>2, <1>7 DEF s, t, Item

Half(o) == Piece(o.sub, Append(Short(o), KV("depth", <<"l2">>)))
Shown(N) ==
  {Bare(n) : n \in N} \cup {Bare("l3")}
    \cup {Half(o) : o \in Overrides} \cup {ClauseOf(o) : o \in Overrides}

\* The pieces an override is written in: its clause, or two halves of it.
LEMMA PiecesAre ==
  ASSUME NEW o
  PROVE  PiecesOf(o) = IF o.depth = "l2+l3" THEN <<Half(o), Bare("l3")>> ELSE <<ClauseOf(o)>>
<1>1. CASE o.depth = ""
  <2>1. PiecesOf(o) = <<Piece(o.sub, Short(o))>>  BY <1>1 DEF PiecesOf, Short
  <2>2. PairsOf(o) = Short(o)  BY <1>1 DEF PairsOf
  <2> QED BY <1>1, <2>1, <2>2 DEF ClauseOf
<1>2. CASE o.depth = "l2+l3"
  BY <1>2 DEF PiecesOf, Short, Half
<1>3. CASE o.depth \notin {"", "l2+l3"}
  <2>1. PiecesOf(o) = <<Piece(o.sub, Append(Short(o), KV("depth", <<o.depth>>)))>>
    BY <1>3 DEF PiecesOf, Short
  <2>2. PairsOf(o) = Append(Short(o), KV("depth", <<o.depth>>))  BY <1>3 DEF PairsOf, Layers
  <2> QED BY <1>3, <2>1, <2>2 DEF ClauseOf
<1> QED BY <1>1, <1>2, <1>3

\* The two halves are put together to that clause.
LEMMA HalfJoins ==
  ASSUME NEW o, o.depth = "l2+l3"
  PROVE  JoinsDepth(Half(o), Bare("l3")) /\ JoinDepth(Half(o), Bare("l3")) = ClauseOf(o)
<1> DEFINE S == Short(o)
           d == KV("depth", <<"l2">>)
           e == KV("depth", <<"l2", "l3">>)
           Item == {KV("sort", o.sort), KV("time", o.time), d, e}
           h == Half(o)
           p == Bare("l3")
           kv == Append(S, d)
<1>1. /\ h = [name |-> o.sub, eq |-> TRUE, kv |-> kv] /\ h.kv = kv
      /\ p.name = "l3" /\ p.eq = FALSE /\ p.kv = <<>>
  BY DEF Half, Piece, Bare
<1>2. d.k = "depth" /\ d.v = <<"l2">>  BY DEF KV
<1>3. S \in Seq(Item) /\ d \in Item /\ e \in Item
  <2>1. S \in Seq({KV("sort", o.sort), KV("time", o.time)})  BY ShortIs
  <2>2. {KV("sort", o.sort), KV("time", o.time)} \subseteq Item  OBVIOUS
  <2>3. d \in Item /\ e \in Item  OBVIOUS
  <2> HIDE DEF Item, S, d, e
  <2> QED BY <2>1, <2>2, <2>3
<1>4. ClauseOf(o) = [name |-> o.sub, eq |-> TRUE, kv |-> Append(S, e)]
  <2>1. PairsOf(o) = Append(S, e)  BY DEF PairsOf, Layers
  <2> QED BY <2>1 DEF ClauseOf, Piece
<1>5. Append(d.v, p.name) = <<"l2", "l3">>
  <2>1. Append(<<"l2">>, "l3") = <<"l2", "l3">>  BY PairAppended
  <2>2. d.v = <<"l2">> /\ p.name = "l3"  BY <1>1, <1>2
  <2> HIDE DEF d, p
  <2> QED BY <2>1, <2>2
<1> HIDE DEF S, d, Item, h, p
<1>6. kv # <<>> /\ LastOf(kv) = d /\ FrontOf(kv) = S  BY <1>3, LastBack
<1>7. KV("depth", Append(LastOf(kv).v, p.name)) = e  BY <1>5, <1>6
<1> HIDE DEF e, kv
<1>8. (S \o <<e>>) \o <<>> = Append(S, e)
  <2>1. S \o <<e>> = Append(S, e)  BY <1>3
  <2>2. Append(S, e) \in Seq(Item)  BY <1>3
  <2> DEFINE q == Append(S, e)
  <2> HIDE DEF q
  <2>3. q \o <<>> = q  BY <2>2 DEF q
  <2> QED BY <2>1, <2>3 DEF q
<1>9. JoinDepth(h, p) = [h EXCEPT !.kv = (FrontOf(@) \o <<KV("depth", Append(LastOf(@).v, p.name))>>) \o p.kv]
  BY DEF JoinDepth
<1>10. JoinDepth(h, p) = [h EXCEPT !.kv = Append(S, e)]
  BY <1>1, <1>6, <1>7, <1>8, <1>9
<1>11. JoinDepth(h, p) = ClauseOf(o)
  <2> DEFINE x == Append(S, e)
  <2> HIDE DEF x
  <2> DEFINE n == o.sub
             y == TRUE
  <2>0. h = [name |-> n, eq |-> y, kv |-> kv]  BY <1>1
  <2> HIDE DEF n, y
  <2>1. [h EXCEPT !.kv = x] = [name |-> n, eq |-> y, kv |-> x]  BY <2>0
  <2> QED BY <1>4, <1>10, <2>1 DEF x, n, y
<1>12. JoinsDepth(h, p)  BY <1>1, <1>2, <1>6 DEF JoinsDepth
<1> QED BY <1>11, <1>12 DEF h, p

-----------------------------------------------------------------------------
\* One or two elements behind a sequence.
LEMMA TwoBehind ==
  ASSUME NEW Item, NEW s \in Seq(Item), NEW x \in Item, NEW y \in Item
  PROVE  s \o <<x>> = Append(s, x) /\ s \o <<x, y>> = Append(Append(s, x), y)
<1> DEFINE C == <<x>>
           D == <<y>>
           E == <<x, y>>
<1>1. C \in Seq(Item) /\ Len(C) = 1 /\ C[1] = x /\ D \in Seq(Item) /\ Len(D) = 1 /\ D[1] = y  OBVIOUS
<1>2. E = Append(C, y)  BY PairAppended
<1> HIDE DEF C, D, E
<1>3. s \o C = Append(s, x)
  <2>1. Len(C) = 1 => s \o C = Append(s, C[1])  BY <1>1, OneBehind
  <2> QED BY <1>1, <2>1
<1>4. s \o E = Append(Append(s, x), y)
  <2>1. GrowsBehind(s, C, y)  BY <1>1, JoinedMore
  <2>2. Append(s \o C, y) = s \o Append(C, y)  BY <2>1 DEF GrowsBehind
  <2> QED BY <1>2, <1>3, <2>2
<1> QED BY <1>3, <1>4 DEF C, E

\* What writing an override adds to a text.
Adds(all, o) ==
  IF o.depth = "l2+l3" THEN Append(Append(all, Half(o)), Bare("l3")) ELSE Append(all, ClauseOf(o))

\* The pieces the page may show.
LEMMA ShownAre ==
  ASSUME NEW N, NEW o \in Overrides
  PROVE  /\ Half(o) \in Shown(N) /\ Bare("l3") \in Shown(N) /\ ClauseOf(o) \in Shown(N)
         /\ Half(o).eq /\ ClauseOf(o).eq
<1>1. Half(o).eq /\ ClauseOf(o).eq  BY DEF Half, ClauseOf, Piece
<1>2. Half(o) \in {Half(q) : q \in Overrides} /\ ClauseOf(o) \in {ClauseOf(q) : q \in Overrides}
  OBVIOUS
<1> QED BY <1>1, <1>2 DEF Shown

\* Writing an override adds its pieces, all of which the page may show.
LEMMA WriteIs ==
  ASSUME NEW N, NEW all \in Seq(Shown(N)), NEW o \in Overrides
  PROVE  WriteBy(all, o) = Adds(all, o) /\ Adds(all, o) \in Seq(Shown(N))
<1> DEFINE Item == Shown(N)
           h == Half(o)
           p == Bare("l3")
           c == ClauseOf(o)
<1>1. h \in Item /\ p \in Item /\ c \in Item  BY ShownAre
<1>2. WriteBy(all, o) = all \o (IF o.depth = "l2+l3" THEN <<h, p>> ELSE <<c>>)
  BY PiecesAre DEF WriteBy
<1>3. Adds(all, o) = IF o.depth = "l2+l3" THEN Append(Append(all, h), p) ELSE Append(all, c)
  BY DEF Adds
<1>0. all \in Seq(Item)  OBVIOUS
<1> HIDE DEF Item, h, p, c
<1>4. all \o <<h, p>> = Append(Append(all, h), p)  BY <1>0, <1>1, TwoBehind
<1>5. all \o <<c>> = Append(all, c)  BY <1>0, <1>1, TwoBehind
<1>6. Append(all, h) \in Seq(Item) /\ Append(all, c) \in Seq(Item)  BY <1>0, <1>1
<1>7. Append(Append(all, h), p) \in Seq(Item)
  <2> DEFINE q == Append(all, h)
  <2> HIDE DEF q
  <2>1. q \in Seq(Item)  BY <1>6 DEF q
  <2>2. Append(q, p) \in Seq(Item)  BY <1>1, <2>1
  <2> QED BY <2>2 DEF q
<1> QED BY <1>2, <1>3, <1>4, <1>5, <1>6, <1>7 DEF Item

\* A piece with a "=" begins a clause.
LEMMA CutOne ==
  ASSUME NEW Item, NEW text \in Seq(Item), NEW tok \in Item, tok.eq
  PROVE  Clauses(Append(text, tok)) = Append(Clauses(text), tok)
<1>1. Clauses(Append(text, tok)) = CutBy(Clauses(text), tok)  BY CutMore
<1>2. \A c : ~JoinsDepth(c, tok)  BY DEF JoinsDepth
<1> QED BY <1>1, <1>2 DEF CutBy

\* So the pieces of an override are cut to its clause.
LEMMA CutAdds ==
  ASSUME NEW N, NEW text \in Seq(Shown(N)), NEW C, Clauses(text) \in Seq(C), NEW o \in Overrides
  PROVE  Clauses(Adds(text, o)) = Append(Clauses(text), ClauseOf(o))
<1> DEFINE Item == Shown(N)
           h == Half(o)
           p == Bare("l3")
           c == ClauseOf(o)
           cut == Clauses(text)
           U == C \cup {h}
           more == Append(text, h)
<1>1. h \in Item /\ p \in Item /\ c \in Item /\ h.eq /\ c.eq  BY ShownAre
<1>2. text \in Seq(Item)  OBVIOUS
<1>3. Adds(text, o) = IF o.depth = "l2+l3" THEN Append(Append(text, h), p) ELSE Append(text, c)
  BY DEF Adds
<1>4. o.depth = "l2+l3" => JoinsDepth(h, p) /\ JoinDepth(h, p) = c  BY HalfJoins
<1> HIDE DEF Item, h, p, c
<1>5. Clauses(Append(text, h)) = Append(cut, h) /\ Clauses(Append(text, c)) = Append(cut, c)
  BY <1>1, <1>2, CutOne
<1>6. cut \in Seq(U) /\ h \in U
  <2>1. cut \in Seq(C) /\ C \subseteq U  OBVIOUS
  <2>2. h \in U  OBVIOUS
  <2> HIDE DEF U, cut
  <2> QED BY <2>1, <2>2
<1>7. more \in Seq(Item)  BY <1>1, <1>2
<1> HIDE DEF cut, U, more
<1>8. Clauses(Append(more, p)) = CutBy(Clauses(more), p)  BY <1>1, <1>7, CutMore
<1>9. Append(cut, h) # <<>> /\ LastOf(Append(cut, h)) = h /\ FrontOf(Append(cut, h)) = cut
  BY <1>6, LastBack
<1>10. CASE o.depth = "l2+l3"
  <2>1. Clauses(more) = Append(cut, h)  BY <1>5 DEF more
  <2>2. CutBy(Append(cut, h), p) = Append(cut, c)
    <3> DEFINE q == Append(cut, h)
    <3>1. q # <<>> /\ LastOf(q) = h /\ FrontOf(q) = cut  BY <1>9
    <3> HIDE DEF q
    <3>2. CutBy(q, p) = Append(FrontOf(q), JoinDepth(LastOf(q), p))  BY <1>4, <1>10, <3>1 DEF CutBy
    <3>3. CutBy(q, p) = Append(cut, c)  BY <1>4, <1>10, <3>1, <3>2
    <3> QED BY <3>3 DEF q
  <2> QED BY <1>3, <1>8, <1>10, <2>1, <2>2 DEF more, c, cut
<1>11. CASE o.depth # "l2+l3"
  <2>1. Adds(text, o) = Append(text, c)  BY <1>3, <1>11
  <2> QED BY <1>5, <2>1 DEF c, cut
<1> QED BY <1>10, <1>11

\* One more bare name.
LEMMA BaresMore ==
  ASSUME NEW N, NEW names \in Seq(N), NEW x \in N
  PROVE  /\ Bares(names) \in Seq({Bare(n) : n \in N})
         /\ Bares(Append(names, x)) = Append(Bares(names), Bare(x))
<1> DEFINE Item == {Bare(n) : n \in N}
           r == Append(names, x)
           k == Len(names)
           a == Bares(names)
           b == Bares(r)
<1>1. /\ k \in Nat /\ Len(r) = k + 1 /\ r \in Seq(N) /\ r[k + 1] = x
      /\ \A i \in 1 .. k : r[i] = names[i]
      /\ \A i \in 1 .. k : names[i] \in N
      /\ DOMAIN names = 1 .. k /\ DOMAIN r = 1 .. k + 1
  OBVIOUS
<1>2. \A n \in N : Bare(n) \in Item  OBVIOUS
<1> HIDE DEF r, k, Item
<1>3. a = [i \in 1 .. k |-> Bare(names[i])] /\ b = [i \in 1 .. k + 1 |-> Bare(r[i])]
  BY <1>1 DEF Bares
<1> HIDE DEF a, b
<1>4. \A i \in 1 .. k : a[i] = Bare(names[i]) /\ a[i] \in Item  BY <1>1, <1>2, <1>3
<1>5. a = [i \in 1 .. k |-> a[i]]  BY <1>3
<1>6. a \in Seq(Item) /\ Len(a) = k  BY <1>1, <1>4, <1>5
<1>7. \A i \in 1 .. k : b[i] = a[i]
  <2> SUFFICES ASSUME NEW i \in 1 .. k PROVE b[i] = a[i]  OBVIOUS
  <2>1. i \in 1 .. k + 1  BY <1>1
  <2> QED BY <1>1, <1>3, <1>4, <2>1
<1>8. b[k + 1] = Bare(x)  BY <1>1, <1>3
<1> DEFINE y == Bare(x)
           c == Append(a, y)
<1>9. y \in Item  BY <1>2
<1> HIDE DEF y
<1>10. /\ c \in Seq(Item) /\ Len(c) = k + 1 /\ c[k + 1] = y
       /\ \A i \in 1 .. k : c[i] = a[i]
  BY <1>6, <1>9
<1> HIDE DEF c
<1>11. c = [i \in 1 .. k + 1 |-> c[i]]
  <2>1. c = [i \in 1 .. Len(c) |-> c[i]]  BY <1>10, SequenceIs
  <2> QED BY <1>10, <2>1
<1>12. b = [i \in 1 .. k + 1 |-> b[i]]  BY <1>3
<1>13. \A i \in 1 .. k + 1 : c[i] = b[i]
  <2>1. \A i \in 1 .. k + 1 : i \in 1 .. k \/ i = k + 1  BY <1>1
  <2> QED BY <1>7, <1>8, <1>10, <2>1 DEF y
<1>14. b = c  BY <1>11, <1>12, <1>13
<1> QED BY <1>6, <1>14 DEF a, b, c, r, Item, y

\* Bare names are cut as they stand.
LEMMA BaresCut ==
  ASSUME NEW N, NEW names \in Seq(N)
  PROVE  Clauses(Bares(names)) = Bares(names) /\ Bares(names) \in Seq(Shown(N))
<1> DEFINE Same(s) == Clauses(Bares(s)) = Bares(s) /\ Bares(s) \in Seq({Bare(n) : n \in N})
           P == {s \in Seq(N) : Same(s)}
           Item == {Bare(n) : n \in N}
<1>1. <<>> \in P
  <2>1. Bares(<<>>) = <<>>  BY DEF Bares
  <2>2. Clauses(<<>>) = <<>>  BY CutMore
  <2>3. <<>> \in Seq(N) /\ <<>> \in Seq({Bare(n) : n \in N})  OBVIOUS
  <2> QED BY <2>1, <2>2, <2>3
<1>2. ASSUME NEW s \in Seq(N), NEW x \in N, s \in P PROVE Append(s, x) \in P
  <2> DEFINE a == Bares(s)
             y == Bare(x)
  <2>1. Bares(Append(s, x)) = Append(a, y) /\ a \in Seq(Item)  BY BaresMore
  <2>2. Clauses(a) = a  BY <1>2
  <2>3. y \in Item /\ \A t \in Item : t.kv = <<>>
    <3>1. \A n \in N : Bare(n).kv = <<>>  BY DEF Bare
    <3>2. y \in Item  OBVIOUS
    <3> QED BY <3>1, <3>2
  <2>4. Append(s, x) \in Seq(N)  OBVIOUS
  <2> HIDE DEF a, y, Item
  <2>5. Clauses(Append(a, y)) = CutBy(a, y)  BY <2>1, <2>2, <2>3, CutMore
  <2>6. CutBy(a, y) = Append(a, y)
    <3>1. CASE a = <<>>  BY <3>1 DEF CutBy
    <3>2. CASE a # <<>>
      <4>1. LastOf(a) \in Item  BY <2>1, <3>2 DEF LastOf
      <4>2. ~JoinsDepth(LastOf(a), y)  BY <2>3, <4>1 DEF JoinsDepth
      <4> QED BY <4>2 DEF CutBy
    <3> QED BY <3>1, <3>2
  <2>7. Append(a, y) \in Seq(Item)  BY <2>1, <2>3
  <2>8. Same(Append(s, x))  BY <2>1, <2>5, <2>6, <2>7 DEF Item
  <2> HIDE DEF Same
  <2> QED BY <2>4, <2>8
<1>3. names \in P
  <2> HIDE DEF P
  <2>1. Seq(N) \subseteq P  BY <1>1, <1>2, EverySequence
  <2> QED BY <2>1
<1>4. Clauses(Bares(names)) = Bares(names) /\ Bares(names) \in Seq(Item)  BY <1>3
<1>5. Item \subseteq Shown(N)  BY DEF Shown
<1>6. Bares(names) \in Seq(Shown(N))
  <2> DEFINE b == Bares(names)
             S == Shown(N)
  <2>1. b \in Seq(Item) /\ Item \subseteq S  BY <1>4, <1>5
  <2> HIDE DEF b, Item, S
  <2>2. b \in Seq(S)  BY <2>1
  <2> QED BY <2>2 DEF b, S
<1> QED BY <1>4, <1>6

-----------------------------------------------------------------------------
ClausesOf(modes) == [i \in DOMAIN modes |-> ClauseOf(modes[i])]
TextOf(b, modes) == Bares(b) \o CanonicalPrefetchSubModes(modes)
CutBack(N, b, modes) ==
  /\ CanonicalPrefetchSubModes(modes) \in Seq(Shown(N))
  /\ Clauses(TextOf(b, modes)) = Bares(b) \o ClausesOf(modes)

\* The clauses of one more override.
LEMMA ClausesMore ==
  ASSUME NEW Item, NEW M \in Seq(Item), NEW o \in Item
  PROVE  /\ ClausesOf(M) \in Seq({ClauseOf(x) : x \in Item})
         /\ ClausesOf(Append(M, o)) = Append(ClausesOf(M), ClauseOf(o))
<1> DEFINE U == {ClauseOf(x) : x \in Item}
           r == Append(M, o)
           k == Len(M)
           a == ClausesOf(M)
           b == ClausesOf(r)
           y == ClauseOf(o)
           c == Append(a, y)
<1>1. /\ k \in Nat /\ Len(r) = k + 1 /\ r \in Seq(Item) /\ r[k + 1] = o
      /\ \A i \in 1 .. k : r[i] = M[i]
      /\ \A i \in 1 .. k : M[i] \in Item
      /\ DOMAIN M = 1 .. k /\ DOMAIN r = 1 .. k + 1
  OBVIOUS
<1>2. \A x \in Item : ClauseOf(x) \in U  OBVIOUS
<1> HIDE DEF r, k, U
<1>3. a = [i \in 1 .. k |-> ClauseOf(M[i])] /\ b = [i \in 1 .. k + 1 |-> ClauseOf(r[i])]
  BY <1>1 DEF ClausesOf
<1> HIDE DEF a, b
<1>4. \A i \in 1 .. k : a[i] = ClauseOf(M[i]) /\ a[i] \in U  BY <1>1, <1>2, <1>3
<1>5. a = [i \in 1 .. k |-> a[i]]  BY <1>3
<1>6. a \in Seq(U) /\ Len(a) = k  BY <1>1, <1>4, <1>5
<1>7. \A i \in 1 .. k : b[i] = a[i]
  <2> SUFFICES ASSUME NEW i \in 1 .. k PROVE b[i] = a[i]  OBVIOUS
  <2>1. i \in 1 .. k + 1  BY <1>1
  <2> QED BY <1>1, <1>3, <1>4, <2>1
<1>8. b[k + 1] = y  BY <1>1, <1>3
<1>9. y \in U  BY <1>2
<1> HIDE DEF y
<1>10. /\ c \in Seq(U) /\ Len(c) = k + 1 /\ c[k + 1] = y
       /\ \A i \in 1 .. k : c[i] = a[i]
  BY <1>6, <1>9
<1> HIDE DEF c
<1>11. c = [i \in 1 .. k + 1 |-> c[i]]
  <2>1. c = [i \in 1 .. Len(c) |-> c[i]]  BY <1>10, SequenceIs
  <2> QED BY <1>10, <2>1
<1>12. b = [i \in 1 .. k + 1 |-> b[i]]  BY <1>3
<1>13. \A i \in 1 .. k + 1 : c[i] = b[i]
  <2>1. \A i \in 1 .. k + 1 : i \in 1 .. k \/ i = k + 1  BY <1>1
  <2> QED BY <1>7, <1>8, <1>10, <2>1
<1>14. b = c  BY <1>11, <1>12, <1>13
<1> QED BY <1>6, <1>14 DEF a, b, c, r, U, y

\* Bare names with the overrides behind them are cut to these and their clauses.
LEMMA WrittenCut ==
  ASSUME NEW N, NEW b \in Seq(N), NEW modes \in Seq(Overrides)
  PROVE  CutBack(N, b, modes)
<1> DEFINE P == {M \in Seq(Overrides) : CutBack(N, b, M)}
           Item == Shown(N)
           B == Bares(b)
<1>1. B \in Seq(Item) /\ Clauses(B) = B  BY BaresCut
<1>2. <<>> \in P
  <2> DEFINE e == <<>>
  <2>1. CanonicalPrefetchSubModes(<<>>) = e  BY WriteMore
  <2>2. ClausesOf(<<>>) = e  BY DEF ClausesOf
  <2>3. <<>> \in Seq(Overrides) /\ e \in Seq(Item)  OBVIOUS
  <2>4. B \o e = B
    <3> HIDE DEF B, Item
    <3> QED BY <1>1
  <2> HIDE DEF B, e
  <2>5. Clauses(B \o e) = B \o e  BY <1>1, <2>4
  <2>6. CutBack(N, b, <<>>)  BY <2>1, <2>2, <2>3, <2>5 DEF CutBack, TextOf, B
  <2> QED BY <2>3, <2>6
<1>3. ASSUME NEW M \in Seq(Overrides), NEW o \in Overrides, M \in P PROVE Append(M, o) \in P
  <2> DEFINE K == CanonicalPrefetchSubModes(M)
             C == ClausesOf(M)
             U == {ClauseOf(x) : x \in Overrides}
             h == Half(o)
             p == Bare("l3")
             c == ClauseOf(o)
             L == CanonicalPrefetchSubModes(Append(M, o))
  <2>0. Append(M, o) \in Seq(Overrides)  OBVIOUS
  <2>1. K \in Seq(Item) /\ Clauses(B \o K) = B \o C  BY <1>3 DEF CutBack, TextOf
  <2>2. C \in Seq(U) /\ ClausesOf(Append(M, o)) = Append(C, c)  BY ClausesMore
  <2>3. L = WriteBy(K, o)  BY WriteMore
  <2>4. WriteBy(K, o) = Adds(K, o) /\ Adds(K, o) \in Seq(Item)
    <3>1. K \in Seq(Shown(N))  BY <2>1
    <3> HIDE DEF K
    <3> QED BY <3>1, WriteIs
  <2>5. h \in Item /\ p \in Item /\ c \in Item /\ c \in U  BY ShownAre
  <2>6. Adds(K, o) = IF o.depth = "l2+l3" THEN Append(Append(K, h), p) ELSE Append(K, c)
    BY DEF Adds
  <2>7. Adds(B \o K, o) = IF o.depth = "l2+l3" THEN Append(Append(B \o K, h), p) ELSE Append(B \o K, c)
    BY DEF Adds
  <2>8. U \subseteq Item  BY DEF Shown
  <2>9. B \o C \in Seq(Item)
    <3> HIDE DEF B, C, Item, U
    <3>1. C \in Seq(Item)  BY <2>2, <2>8
    <3> QED BY <1>1, <3>1
  <2>10. B \o K \in Seq(Item)
    <3> HIDE DEF B, K, Item
    <3> QED BY <1>1, <2>1
  <2>11. Clauses(Adds(B \o K, o)) = Append(B \o C, c)
    <3> DEFINE text == B \o K
    <3>1. text \in Seq(Shown(N)) /\ Clauses(text) \in Seq(Item)  BY <2>1, <2>9, <2>10
    <3> HIDE DEF text, Item
    <3>2. Clauses(Adds(text, o)) = Append(Clauses(text), ClauseOf(o))  BY <3>1, CutAdds
    <3>3. Clauses(text) = B \o C  BY <2>1 DEF text
    <3> QED BY <3>2, <3>3 DEF text
  <2> HIDE DEF B, K, C, Item, U, h, p, c, L
  <2>12. GrowsBehind(B, C, c)
    <3>1. C \in Seq(Item)  BY <2>2, <2>8
    <3> QED BY <1>1, <2>5, <3>1, JoinedMore
  <2>13. B \o Adds(K, o) = Adds(B \o K, o)
    <3>1. GrowsBehind(B, K, c) /\ GrowsBehind(B, K, h)  BY <1>1, <2>1, <2>5, JoinedMore
    <3> DEFINE q == Append(K, h)
    <3>2. q \in Seq(Item)  BY <2>1, <2>5
    <3> HIDE DEF q
    <3>3. GrowsBehind(B, q, p)  BY <1>1, <2>5, <3>2, JoinedMore
    <3>4. Append(B \o K, c) = B \o Append(K, c)  BY <3>1 DEF GrowsBehind
    <3>5. Append(B \o K, h) = B \o q  BY <3>1 DEF GrowsBehind, q
    <3>6. Append(B \o q, p) = B \o Append(q, p)  BY <3>3 DEF GrowsBehind
    <3> QED BY <2>6, <2>7, <3>4, <3>5, <3>6 DEF q
  <2>14. L \in Seq(Item)  BY <2>3, <2>4
  <2>15. Clauses(B \o L) = B \o ClausesOf(Append(M, o))
    <3>1. Append(B \o C, c) = B \o Append(C, c)  BY <2>12 DEF GrowsBehind
    <3> QED BY <2>2, <2>3, <2>4, <2>11, <2>13, <3>1
  <2>16. CutBack(N, b, Append(M, o))  BY <2>14, <2>15 DEF CutBack, TextOf, B, L, Item
  <2> QED BY <2>0, <2>16
<1>4. modes \in P
  <2> HIDE DEF P
  <2>1. Seq(Overrides) \subseteq P  BY <1>2, <1>3, EverySequence
  <2> QED BY <2>1
<1> QED BY <1>4

-----------------------------------------------------------------------------
\* The clauses of the overrides, and the names in them.
LEMMA ClausesAre ==
  ASSUME NEW N, NEW M \in Seq(Overrides)
  PROVE  LET C == ClausesOf(M) IN
           /\ C \in Seq(Shown(N)) /\ Len(C) = Len(M) /\ Len(M) \in Nat
           /\ DOMAIN C = 1 .. Len(M) /\ DOMAIN M = 1 .. Len(M)
           /\ \A i \in 1 .. Len(M) : C[i] = ClauseOf(M[i]) /\ M[i] \in Overrides
           /\ NamesOf(C) = SubsOf(M) /\ SubsOf(M) \in Seq(SFValidName)
           /\ Len(SubsOf(M)) = Len(M)
           /\ \A i \in 1 .. Len(M) : SubsOf(M)[i] = M[i].sub
<1> DEFINE C == ClausesOf(M)
           k == Len(M)
           s == SubsOf(M)
           Item == Shown(N)
<1>1. k \in Nat /\ DOMAIN M = 1 .. k /\ \A i \in 1 .. k : M[i] \in Overrides  OBVIOUS
<1> HIDE DEF k
<1>2. C = [i \in 1 .. k |-> ClauseOf(M[i])]  BY <1>1 DEF ClausesOf
<1>3. s = [i \in 1 .. k |-> M[i].sub]  BY <1>1 DEF SubsOf
<1>4. \A i \in 1 .. k : ClauseOf(M[i]) \in Item /\ ClauseOf(M[i]).name = M[i].sub
  BY <1>1, ShownAre, OverrideBack
<1>5. \A i \in 1 .. k : M[i].sub \in SFValidName  BY <1>1, OverrideBack
<1> HIDE DEF C, s, Item
<1>6. /\ C = [i \in 1 .. k |-> C[i]] /\ DOMAIN C = 1 .. k
      /\ \A i \in 1 .. k : C[i] = ClauseOf(M[i]) /\ C[i] \in Item /\ C[i].name = M[i].sub
  BY <1>2, <1>4
<1>7. /\ s = [i \in 1 .. k |-> s[i]]
      /\ \A i \in 1 .. k : s[i] = M[i].sub /\ s[i] \in SFValidName
  BY <1>3, <1>5
<1>8. C \in Seq(Item) /\ Len(C) = k
  <2>1. \A i \in 1 .. k : C[i] \in Item  BY <1>6
  <2>2. C = [i \in 1 .. k |-> C[i]]  BY <1>6
  <2> QED BY <1>1, <2>1, <2>2
<1>9. s \in Seq(SFValidName) /\ Len(s) = k
  <2>1. \A i \in 1 .. k : s[i] \in SFValidName  BY <1>7
  <2>2. s = [i \in 1 .. k |-> s[i]]  BY <1>7
  <2> QED BY <1>1, <2>1, <2>2
<1>10. NamesOf(C) = s  BY <1>3, <1>6 DEF NamesOf
<1> QED BY <1>1, <1>6, <1>7, <1>8, <1>9, <1>10 DEF C, k, s, Item

\* The clauses of bare names, and the names in them.
LEMMA BaresAre ==
  ASSUME NEW N, NEW b \in Seq(N)
  PROVE  LET B == Bares(b) IN
           /\ Len(B) = Len(b) /\ Len(b) \in Nat /\ DOMAIN B = 1 .. Len(b) /\ DOMAIN b = 1 .. Len(b)
           /\ \A i \in 1 .. Len(b) : B[i] = Bare(b[i])
           /\ \A i \in 1 .. Len(b) : ~B[i].eq /\ B[i].kv = <<>> /\ B[i].name = b[i]
<1> DEFINE B == Bares(b)
           k == Len(b)
<1>1. k \in Nat /\ DOMAIN b = 1 .. k  OBVIOUS
<1> HIDE DEF k
<1>2. B = [i \in 1 .. k |-> Bare(b[i])]  BY <1>1 DEF Bares
<1>3. \A x : ~Bare(x).eq /\ Bare(x).kv = <<>> /\ Bare(x).name = x  BY DEF Bare
<1> HIDE DEF B
<1>4. \A i \in 1 .. k : B[i] = Bare(b[i])  BY <1>2
<1>5. DOMAIN B = 1 .. k /\ Len(B) = k  BY <1>1, <1>2
<1> QED BY <1>1, <1>3, <1>4, <1>5 DEF B, k

\* The overrides are read back in their order,
LEMMA ModesBack ==
  ASSUME NEW b \in Seq(SFValidName), NEW M \in Seq(Overrides), Distinct(SubsOf(M))
  PROVE  ParsePrefetchSubModes(Bares(b) \o ClausesOf(M)) = M
<1> DEFINE B == Bares(b)
           C == ClausesOf(M)
           u == B \o C
           S == {c \in Elements(u) : Accepted(c)}
           Item == Shown(SFValidName)
           ok == Only(u, S)
           order == FirstSeen(NamesOf(ok))
           at(n) == {i \in DOMAIN ok : ok[i].name = n}
           byName(n) == ok[Greatest(at(n))]
           s == SubsOf(M)
           k == Len(M)
<1>1. B \in Seq(Item)  BY BaresCut
<1>2. /\ C \in Seq(Item) /\ k \in Nat /\ DOMAIN C = 1 .. k /\ DOMAIN M = 1 .. k
      /\ \A i \in 1 .. k : C[i] = ClauseOf(M[i]) /\ M[i] \in Overrides
      /\ NamesOf(C) = s /\ s \in Seq(SFValidName) /\ Len(s) = k
      /\ \A i \in 1 .. k : s[i] = M[i].sub
  BY ClausesAre
<1>3. ParsePrefetchSubModes(u) = [h \in DOMAIN order |-> Override(byName(order[h]))]
  BY DEF ParsePrefetchSubModes
<1>4. Elements(B) \cap S = {}
  <2>1. \A c \in Elements(B) : ~c.eq  BY BaresAre DEF Elements
  <2> QED BY <2>1 DEF Accepted
<1>5. Elements(C) \subseteq S
  <2>1. Elements(u) = Elements(B) \cup Elements(C)
    <3> HIDE DEF B, C, Item
    <3> QED BY <1>1, <1>2, ElementsJoined
  <2>2. \A i \in 1 .. k : Accepted(C[i])  BY <1>2, OverrideBack
  <2> HIDE DEF C, u
  <2> QED BY <1>2, <2>1, <2>2 DEF Elements
<1> HIDE DEF B, C, S, Item, k
<1>6. ok = C
  <2>1. ok = Only(B, S) \o Only(C, S)  BY <1>1, <1>2, OnlyJoined
  <2>2. Only(B, S) \in Seq(Item) /\ Elements(Only(B, S)) = Elements(B) \cap S  BY <1>1, OnlyKeeps
  <2>3. Only(B, S) = <<>>  BY <1>4, <2>2, NothingIn
  <2>4. Only(C, S) = C
    <3>1. C \in Seq(Item)  BY <1>2
    <3>2. Elements(C) \subseteq S => Only(C, S) = C  BY <3>1, OnlyKeeps
    <3> QED BY <1>5, <3>2
  <2>5. <<>> \o C = C
    <3>1. C \in Seq(Item)  BY <1>2
    <3> QED BY <3>1
  <2> QED BY <2>1, <2>3, <2>4, <2>5
<1> HIDE DEF s
<1>7. order = s
  <2>1. Distinct(s)  BY DEF s
  <2>2. s \in Seq(SFValidName)  BY <1>2
  <2>3. Distinct(s) => FirstSeen(s) = s  BY <2>2, SeenOnce
  <2> HIDE DEF ok
  <2> QED BY <1>2, <1>6, <2>1, <2>3
<1>8. DOMAIN order = 1 .. k
  <2>1. s \in Seq(SFValidName) /\ Len(s) = k  BY <1>2
  <2>2. DOMAIN s = 1 .. k  BY <2>1
  <2> HIDE DEF order
  <2> QED BY <1>7, <2>2
<1>9. ASSUME NEW h \in 1 .. k PROVE Override(byName(order[h])) = M[h]
  <2>1. order[h] = M[h].sub  BY <1>2, <1>7
  <2>2. \A i \in 1 .. k : C[i].name = s[i]
    <3>1. \A i \in 1 .. k : C[i].name = M[i].sub  BY <1>2, OverrideBack
    <3> QED BY <1>2, <3>1
  <2>3. at(s[h]) = {h}
    <3>1. \A i, j \in 1 .. k : s[i] = s[j] => i = j
      <4>1. s \in Seq(SFValidName) /\ Len(s) = k  BY <1>2
      <4>2. DOMAIN s = 1 .. k  BY <4>1
      <4>3. Distinct(s)  BY DEF s
      <4> QED BY <4>2, <4>3 DEF Distinct
    <3>2. at(s[h]) = {i \in 1 .. k : C[i].name = s[h]}  BY <1>2, <1>6
    <3> QED BY <2>2, <3>1, <3>2
  <2>4. Greatest({h}) = h
    <3>1. h \in Int  BY <1>2
    <3> QED BY <3>1, OneIsBoth
  <2>5. byName(s[h]) = C[h]
    <3> HIDE DEF at, ok
    <3> QED BY <1>6, <2>3, <2>4
  <2>6. Override(C[h]) = M[h]  BY <1>2, OverrideBack
  <2> HIDE DEF byName, order
  <2> QED BY <1>7, <2>5, <2>6
<1>10. M = [h \in 1 .. k |-> M[h]]  BY SequenceIs DEF k
<1> HIDE DEF byName, order, u
<1>11. ParsePrefetchSubModes(u) = [h \in 1 .. k |-> M[h]]  BY <1>3, <1>8, <1>9
<1> QED BY <1>10, <1>11 DEF u, B, C

\* and so are the subs, those without an override first.
LEMMA SubsBack ==
  ASSUME NEW b \in Seq(SFValidName), NEW M \in Seq(Overrides), Distinct(SubsOf(M)), Distinct(b),
         Elements(b) \cap Elements(SubsOf(M)) = {}
  PROVE  SubNames(Bares(b) \o ClausesOf(M)) = b \o SubsOf(M)
<1> DEFINE B == Bares(b)
           C == ClausesOf(M)
           u == B \o C
           s == SubsOf(M)
           Item == Shown(SFValidName)
           N == SFValidName
           v == b \o s
           m == Len(b)
           k == Len(M)
<1>1. /\ B \in Seq(Item) /\ Len(B) = m /\ m \in Nat
      /\ \A i \in 1 .. m : ~B[i].eq /\ B[i].kv = <<>> /\ B[i].name = b[i]
  BY BaresCut, BaresAre
<1>2. /\ C \in Seq(Item) /\ Len(C) = k /\ k \in Nat
      /\ \A i \in 1 .. k : C[i] = ClauseOf(M[i]) /\ M[i] \in Overrides
      /\ s \in Seq(N) /\ Len(s) = k
      /\ \A i \in 1 .. k : s[i] = M[i].sub
  BY ClausesAre
<1>3. \A i \in 1 .. m : NameIn(B[i]) = b[i]  BY <1>1 DEF NameIn
<1>4. \A i \in 1 .. k : NameIn(C[i]) = s[i]
  <2>1. \A i \in 1 .. k : C[i].eq /\ C[i].name = M[i].sub  BY <1>2, OverrideBack
  <2> QED BY <1>2, <2>1 DEF NameIn
<1>5. Distinct(b) /\ Distinct(s) /\ Elements(b) \cap Elements(s) = {} /\ b \in Seq(N)  OBVIOUS
<1> HIDE DEF B, C, Item, N, s
<1>6. /\ v \in Seq(N) /\ Distinct(v)
  BY <1>2, <1>5, ElementsJoined
<1>7. /\ Len(v) = m + k
      /\ \A i \in 1 .. m : v[i] = b[i]
      /\ \A i \in 1 .. k : v[m + i] = s[i]
  <2>1. b \in Seq(N) /\ s \in Seq(N) /\ Len(s) = k  BY <1>2, <1>5
  <2>2. /\ Len(v) = Len(b) + Len(s)
        /\ \A i \in 1 .. Len(b) : v[i] = b[i]
        /\ \A i \in 1 .. Len(s) : v[Len(b) + i] = s[i]
    BY <2>1, JoinedAre
  <2> HIDE DEF v
  <2> QED BY <2>1, <2>2
<1>8. /\ DOMAIN u = 1 .. m + k
      /\ \A i \in 1 .. m : u[i] = B[i]
      /\ \A i \in 1 .. k : u[m + i] = C[i]
  <2>0. B \in Seq(Item) /\ C \in Seq(Item)  BY <1>1, <1>2
  <2>1. Len(B) = m /\ Len(C) = k  BY <1>1, <1>2
  <2>2. /\ DOMAIN u = 1 .. Len(B) + Len(C)
        /\ \A i \in 1 .. Len(B) : u[i] = B[i]
        /\ \A i \in 1 .. Len(C) : u[Len(B) + i] = C[i]
    BY <2>0, JoinedAre
  <2> HIDE DEF u
  <2> QED BY <2>1, <2>2
<1>9. v = [i \in 1 .. m + k |-> v[i]]
  <2> HIDE DEF v, m, k
  <2>1. v = [i \in 1 .. Len(v) |-> v[i]]  BY <1>6, SequenceIs
  <2> QED BY <1>7, <2>1
<1> HIDE DEF u, v, m, k
<1>10. \A i \in 1 .. m + k : NameIn(u[i]) = v[i]
  <2> SUFFICES ASSUME NEW i \in 1 .. m + k PROVE NameIn(u[i]) = v[i]  OBVIOUS
  <2>1. CASE i \in 1 .. m  BY <1>3, <1>7, <1>8, <2>1
  <2>2. CASE i \notin 1 .. m
    <3> DEFINE j == i - m
    <3>1. j \in 1 .. k /\ i = m + j  BY <1>1, <1>2, <2>2
    <3> HIDE DEF j
    <3>2. u[m + j] = C[j] /\ v[m + j] = s[j] /\ NameIn(C[j]) = s[j]  BY <1>4, <1>7, <1>8, <3>1
    <3> QED BY <3>1, <3>2
  <2> QED BY <2>1, <2>2
<1>11. [i \in DOMAIN u |-> NameIn(u[i])] = v  BY <1>8, <1>9, <1>10
<1>12. SubNames(u) = Only(FirstSeen(v), N)  BY <1>11 DEF SubNames, N
<1>13. FirstSeen(v) = v
  <2>1. Distinct(v) => FirstSeen(v) = v  BY <1>6, SeenOnce
  <2> QED BY <1>6, <2>1
<1>14. Only(v, N) = v
  <2>1. v \in Seq(N)  BY <1>6
  <2>2. Elements(v) \subseteq N  BY <2>1, ElementsMore DEF Elements
  <2>3. Elements(v) \subseteq N => Only(v, N) = v  BY <2>1, OnlyKeeps
  <2> QED BY <2>2, <2>3
<1> QED BY <1>12, <1>13, <1>14 DEF u, v, B, C, s

-----------------------------------------------------------------------------
(* What the form stores. *)
LEMMA JoinedClause ==
  ASSUME NEW c \in Clause, NEW p \in Clause, JoinsDepth(c, p)
  PROVE  JoinDepth(c, p) \in Clause
<1> DEFINE kv == c.kv
           l == LastOf(kv)
           f == FrontOf(kv)
           d == KV("depth", Append(l.v, p.name))
           n == Len(kv)
<1>1. kv \in Seq(Pairs) /\ p.kv \in Seq(Pairs) /\ p.name \in STRING  BY DEF Clause
<1>2. kv # <<>> /\ l.k = "depth"  BY DEF JoinsDepth
<1>3. c = [name |-> c.name, eq |-> c.eq, kv |-> c.kv] /\ c.name \in STRING /\ c.eq \in BOOLEAN
  BY DEF Clause
<1>4. JoinDepth(c, p) = [c EXCEPT !.kv = (f \o <<d>>) \o p.kv]  BY DEF JoinDepth
<1> HIDE DEF kv
<1>5. n \in Nat /\ n # 0 /\ \A i \in 1 .. n : kv[i] \in Pairs  BY <1>1, <1>2
<1>6. l \in Pairs  BY <1>5 DEF LastOf
<1>7. f \in Seq(Pairs)
  <2>1. \A i \in 1 .. n - 1 : kv[i] \in Pairs  BY <1>5
  <2>2. 1 \in Int /\ n - 1 \in Int  BY <1>5
  <2>3. SubSeq(kv, 1, n - 1) \in Seq(Pairs)
    <3> HIDE DEF n
    <3> QED BY <2>1, <2>2, SubSeqProperties
  <2> QED BY <2>3 DEF FrontOf
<1> HIDE DEF l, f
<1>8. d \in Pairs
  <2>1. l.v \in Seq(STRING)  BY <1>2, <1>6 DEF Pairs
  <2> DEFINE v == Append(l.v, p.name)
  <2>2. v \in Seq(STRING)  BY <1>1, <2>1
  <2> HIDE DEF v
  <2>3. [k |-> "depth", v |-> v] \in Pairs  BY <2>2 DEF Pairs
  <2>4. d = [k |-> "depth", v |-> v]  BY DEF KV, v
  <2> QED BY <2>3, <2>4
<1> HIDE DEF d
<1> DEFINE y == (f \o <<d>>) \o p.kv
<1>9. y \in Seq(Pairs)
  <2> DEFINE a == f \o <<d>>
             q == p.kv
  <2>1. a \in Seq(Pairs)  BY <1>7, <1>8
  <2>2. q \in Seq(Pairs)  BY <1>1
  <2> HIDE DEF a, q
  <2>3. a \o q \in Seq(Pairs)  BY <2>1, <2>2
  <2> QED BY <2>3 DEF a, q
<1> HIDE DEF y
<1>10. [c EXCEPT !.kv = y] \in Clause
  <2> QED BY <1>9 DEF Clause
<1> QED BY <1>4, <1>10 DEF y

\* What a typed text is cut into are clauses.
LEMMA ClausesTyped ==
  ASSUME NEW text \in Seq(SFPieces)
  PROVE  Clauses(text) \in Seq(Clause)
<1> DEFINE P == {t \in Seq(Clause) : Clauses(t) \in Seq(Clause)}
<1>1. <<>> \in P
  <2>1. Clauses(<<>>) = <<>>  BY CutMore
  <2>2. <<>> \in Seq(Clause)  OBVIOUS
  <2> QED BY <2>1, <2>2
<1>2. ASSUME NEW t \in Seq(Clause), NEW x \in Clause, t \in P PROVE Append(t, x) \in P
  <2> DEFINE cut == Clauses(t)
             Item == Clause
             n == Len(cut)
  <2>1. cut \in Seq(Item) /\ x \in Item  BY <1>2
  <2>2. Clauses(Append(t, x)) = CutBy(cut, x)  BY CutMore
  <2>3. Append(t, x) \in Seq(Item)  OBVIOUS
  <2>4. CutBy(cut, x) \in Seq(Item)
    <3> HIDE DEF cut
    <3>1. CASE cut # <<>> /\ JoinsDepth(LastOf(cut), x)
      <4> DEFINE l == LastOf(cut)
                 j == JoinDepth(l, x)
                 f == FrontOf(cut)
      <4>1. l \in Item
        <5> HIDE DEF Item
        <5> QED BY <2>1, <3>1 DEF LastOf
      <4>2. j \in Item  BY <2>1, <3>1, <4>1, JoinedClause
      <4>3. f \in Seq(Item)
        <5> HIDE DEF Item
        <5>1. n \in Nat /\ \A i \in 1 .. n : cut[i] \in Item  BY <2>1
        <5>2. \A i \in 1 .. n - 1 : cut[i] \in Item  BY <5>1
        <5>3. 1 \in Int /\ n - 1 \in Int  BY <5>1
        <5>4. SubSeq(cut, 1, n - 1) \in Seq(Item)
          <6> HIDE DEF n
          <6> QED BY <5>2, <5>3, SubSeqProperties
        <5> QED BY <5>4 DEF FrontOf
      <4>4. CutBy(cut, x) = Append(f, j)  BY <3>1 DEF CutBy
      <4> HIDE DEF f, j, Item
      <4> QED BY <4>2, <4>3, <4>4
    <3>2. CASE ~(cut # <<>> /\ JoinsDepth(LastOf(cut), x))
      <4>1. CutBy(cut, x) = Append(cut, x)  BY <3>2 DEF CutBy
      <4> HIDE DEF Item
      <4> QED BY <2>1, <4>1
    <3> QED BY <3>1, <3>2
  <2> QED BY <2>2, <2>3, <2>4
<1>3. Seq(Clause) \subseteq P
  <2> HIDE DEF P
  <2> QED BY <1>1, <1>2, EverySequence
<1>4. text \in Seq(Clause)
  <2>1. SFPieces \subseteq Clause  BY SFAssumption
  <2> QED BY <2>1
<1> QED BY <1>3, <1>4

\* A list without repetitions and the overrides of some of its subs.
Sound(st) ==
  /\ st.subs \in Seq(SFValidName) /\ Distinct(st.subs)
  /\ st.modes \in Seq(Overrides) /\ Distinct(SubsOf(st.modes))
  /\ Elements(SubsOf(st.modes)) \subseteq Elements(st.subs)

\* What a form is stored as is sound.
LEMMA NormalizeIs ==
  ASSUME NEW text \in Seq(SFPieces)
  PROVE  Sound(Normalize(text))
<1> DEFINE C == Clauses(text)
           M == ParsePrefetchSubModes(C)
           names == [i \in DOMAIN C |-> NameIn(C[i])]
           N == STRING \cup {NoName}
           once == FirstSeen(names)
           subs == SubNames(C)
           V == SFValidName
           st == Normalize(text)
<1>1. C \in Seq(Clause)  BY ClausesTyped
<1>2. st.subs = subs /\ st.modes = M  BY DEF Normalize
<1> HIDE DEF C
<1>3. /\ M \in Seq(Overrides) /\ Distinct(SubsOf(M))
      /\ \A n \in Elements(SubsOf(M)) : \E c \in Elements(C) : c.eq /\ c.name = n
  BY <1>1, ModesAre
<1>4. names \in Seq(N)
  <2>1. \A c \in Clause : NameIn(c) \in N  BY DEF NameIn, Clause
  <2>2. /\ Len(C) \in Nat /\ DOMAIN C = 1 .. Len(C)
        /\ \A i \in 1 .. Len(C) : C[i] \in Clause
    BY <1>1
  <2>3. \A i \in 1 .. Len(C) : NameIn(C[i]) \in N  BY <2>1, <2>2
  <2> HIDE DEF N
  <2>4. names = [i \in 1 .. Len(C) |-> NameIn(C[i])]  BY <2>2
  <2> QED BY <2>2, <2>3, <2>4
<1>5. Elements(names) = {NameIn(c) : c \in Elements(C)}  BY DEF Elements
<1>6. subs = Only(once, V)  BY DEF SubNames
<1> HIDE DEF names, M, st, subs
<1>7. once \in Seq(N) /\ Distinct(once) /\ Elements(once) = Elements(names)
  BY <1>4, SeenOnce
<1> HIDE DEF once, N
<1>8. subs \in Seq(N) /\ Elements(subs) = Elements(once) \cap V /\ Distinct(subs)
  <2>1. /\ Only(once, V) \in Seq(N) /\ Elements(Only(once, V)) = Elements(once) \cap V
        /\ Distinct(once) => Distinct(Only(once, V))
    BY <1>7, OnlyKeeps
  <2> QED BY <1>6, <1>7, <2>1
<1>9. subs \in Seq(V)
  <2>1. Len(subs) \in Nat /\ DOMAIN subs = 1 .. Len(subs)  BY <1>8
  <2>2. \A i \in 1 .. Len(subs) : subs[i] \in V  BY <1>8, <2>1 DEF Elements
  <2>3. subs = [i \in 1 .. Len(subs) |-> subs[i]]  BY <1>8, SequenceIs
  <2> QED BY <2>1, <2>2, <2>3
<1>10. Elements(SubsOf(M)) \subseteq Elements(subs)
  <2> SUFFICES ASSUME NEW n \in Elements(SubsOf(M)) PROVE n \in Elements(subs)  OBVIOUS
  <2>1. PICK c \in Elements(C) : c.eq /\ c.name = n  BY <1>3
  <2>2. NameIn(c) = n  BY <2>1 DEF NameIn
  <2>3. n \in Elements(names)  BY <1>5, <2>2
  <2>4. n \in V
    <3>1. SubsOf(M) \in Seq(SFValidName)  BY <1>3, ClausesAre
    <3>2. Elements(SubsOf(M)) \subseteq SFValidName  BY <3>1, ElementsMore DEF Elements
    <3> QED BY <3>2
  <2> QED BY <1>7, <1>8, <2>3, <2>4
<1> QED BY <1>2, <1>3, <1>8, <1>9, <1>10 DEF Sound, st

\* The subs the page shows first.
Rest(st) == Only(st.subs, Elements(st.subs) \ Elements(SubsOf(st.modes)))

\* The subs without an override.
LEMMA RestIs ==
  ASSUME NEW st, Sound(st)
  PROVE  /\ Rest(st) \in Seq(SFValidName) /\ Distinct(Rest(st))
         /\ Elements(Rest(st)) = Elements(st.subs) \ Elements(SubsOf(st.modes))
<1> DEFINE s == st.subs
           K == Elements(s) \ Elements(SubsOf(st.modes))
<1>1. s \in Seq(SFValidName) /\ Distinct(s)  BY DEF Sound
<1>2. K \subseteq Elements(s)  OBVIOUS
<1> HIDE DEF s, K
<1>3. /\ Only(s, K) \in Seq(SFValidName) /\ Elements(Only(s, K)) = Elements(s) \cap K
      /\ Distinct(s) => Distinct(Only(s, K))
  BY <1>1, OnlyKeeps
<1>4. Elements(Only(s, K)) = K  BY <1>2, <1>3
<1> QED BY <1>1, <1>3, <1>4 DEF Rest, s, K

\* What the page shows of what is stored.
LEMMA ComposeIs ==
  ASSUME NEW st, Sound(st)
  PROVE  /\ Clauses(CanonicalPrefetchSubModes(st.modes)) = ClausesOf(st.modes)
         /\ Compose(st) = TextOf(Rest(st), st.modes)
<1> DEFINE M == st.modes
           text == CanonicalPrefetchSubModes(M)
           C == ClausesOf(M)
           over == {c.name : c \in {x \in Elements(Clauses(text)) : x.eq}}
           Item == Shown(SFValidName)
           k == Len(M)
<1>1. M \in Seq(Overrides)  BY DEF Sound
<1>2. Compose(st) = Bares(Only(st.subs, Elements(st.subs) \ over)) \o text  BY DEF Compose
<1> HIDE DEF M
<1>3. /\ C \in Seq(Item) /\ k \in Nat /\ DOMAIN C = 1 .. k
      /\ \A i \in 1 .. k : C[i] = ClauseOf(M[i]) /\ M[i] \in Overrides
      /\ NamesOf(C) = SubsOf(M) /\ SubsOf(M) \in Seq(SFValidName)
  BY <1>1, ClausesAre
<1>4. text \in Seq(Item) /\ Clauses(text) = C
  <2> DEFINE e == <<>>
  <2>1. e \in Seq(SFValidName)  OBVIOUS
  <2>2. CutBack(SFValidName, e, M)  BY <1>1, <2>1, WrittenCut
  <2>3. Bares(e) = e  BY DEF Bares
  <2>4. text \in Seq(Item) /\ Clauses(Bares(e) \o text) = Bares(e) \o C  BY <2>2 DEF CutBack, TextOf
  <2> HIDE DEF Item, text, C
  <2>5. <<>> \o text = text  BY <2>4
  <2>6. <<>> \o C = C  BY <1>3
  <2> QED BY <2>3, <2>4, <2>5, <2>6
<1> HIDE DEF C, text
<1>5. over = Elements(SubsOf(M))
  <2>1. \A i \in 1 .. k : C[i].eq  BY <1>3, OverrideBack
  <2>2. {x \in Elements(C) : x.eq} = Elements(C)  BY <1>3, <2>1 DEF Elements
  <2>3. Elements(NamesOf(C)) = {c.name : c \in Elements(C)}  BY <1>3 DEF Elements, NamesOf
  <2> QED BY <1>3, <1>4, <2>2, <2>3
<1> HIDE DEF over
<1> QED BY <1>2, <1>4, <1>5 DEF M, C, text, Rest, TextOf

\* The form that is saved as it was shown.
Again(st) == [subs |-> Rest(st) \o SubsOf(st.modes), modes |-> st.modes]

\* Storing what the page shows keeps the subs and the overrides, and a second time the order too.
LEMMA AgainIs ==
  ASSUME NEW st, Sound(st)
  PROVE  /\ Normalize(Compose(st)) = Again(st) /\ Sound(Again(st))
         /\ Elements(Again(st).subs) = Elements(st.subs) /\ Again(st).modes = st.modes
         /\ Again(Again(st)) = Again(st)
<1> DEFINE b == Rest(st)
           M == st.modes
           s == SubsOf(M)
           C == ClausesOf(M)
           V == SFValidName
           text == Compose(st)
           a == Again(st)
           all == b \o s
<1>1. /\ b \in Seq(V) /\ Distinct(b) /\ Elements(b) = Elements(st.subs) \ Elements(s)
  BY RestIs
<1>2. M \in Seq(Overrides) /\ Distinct(s) /\ Elements(s) \subseteq Elements(st.subs)  BY DEF Sound
<1>3. text = TextOf(b, M)  BY ComposeIs
<1>4. a = [subs |-> all, modes |-> M]  BY DEF Again
<1>5. a.subs = all /\ a.modes = M  BY <1>4
<1> HIDE DEF b, M, text, a
<1>6. CutBack(V, b, M)  BY <1>1, <1>2, WrittenCut
<1>7. Clauses(text) = Bares(b) \o C  BY <1>3, <1>6 DEF CutBack
<1>8. s \in Seq(V)  BY <1>2, ClausesAre
<1>9. Elements(b) \cap Elements(s) = {}  BY <1>1
<1>10. SubNames(Bares(b) \o C) = all  BY <1>1, <1>2, <1>9, SubsBack
<1>11. ParsePrefetchSubModes(Bares(b) \o C) = M  BY <1>1, <1>2, ModesBack
<1>12. Normalize(text) = a  BY <1>4, <1>7, <1>10, <1>11 DEF Normalize
<1> HIDE DEF s, C, V
<1>13. all \in Seq(V) /\ Elements(all) = Elements(b) \cup Elements(s) /\ Distinct(all)
  BY <1>1, <1>2, <1>8, <1>9, ElementsJoined
<1>14. Elements(all) = Elements(st.subs)  BY <1>1, <1>2, <1>13
<1>15. Sound(a)
  <2>1. Elements(SubsOf(a.modes)) \subseteq Elements(a.subs)  BY <1>5, <1>13 DEF s
  <2> QED BY <1>2, <1>5, <1>13, <2>1 DEF Sound, V, s
<1>16. Rest(a) = b
  <2> DEFINE K == Elements(all) \ Elements(s)
  <2>1. Rest(a) = Only(all, K)  BY <1>5 DEF Rest, s
  <2>2. K = Elements(b)  BY <1>9, <1>13
  <2> HIDE DEF K, all
  <2>3. Only(all, K) = Only(b, K) \o Only(s, K)  BY <1>1, <1>8, OnlyJoined DEF all
  <2>4. Only(b, K) = b
    <3>1. b \in Seq(V)  BY <1>1
    <3>2. Elements(b) \subseteq K => Only(b, K) = b  BY <3>1, OnlyKeeps
    <3> QED BY <2>2, <3>2
  <2>5. Only(s, K) = <<>>
    <3>1. Only(s, K) \in Seq(V) /\ Elements(Only(s, K)) = Elements(s) \cap K  BY <1>8, OnlyKeeps
    <3>2. Elements(Only(s, K)) = {}  BY <1>9, <2>2, <3>1
    <3> QED BY <3>1, <3>2, NothingIn
  <2>6. b \o <<>> = b
    <3>1. b \in Seq(V)  BY <1>1
    <3> QED BY <3>1
  <2> QED BY <2>1, <2>3, <2>4, <2>5, <2>6
<1>17. Again(a) = a
  <2>1. Again(a) = [subs |-> Rest(a) \o SubsOf(a.modes), modes |-> a.modes]  BY DEF Again
  <2> QED BY <1>4, <1>5, <1>16, <2>1 DEF s
<1>18. Elements(a.subs) = Elements(st.subs)  BY <1>5, <1>14
<1> QED BY <1>5, <1>12, <1>15, <1>17, <1>18 DEF a, M, text

-----------------------------------------------------------------------------
(* How the scheduler reads it. *)
LEMMA SameCut ==
  ASSUME NEW text
  PROVE  SchedulerClauses(text) = Clauses(text)
BY DEF SchedulerClauses, Clauses, CutSoFar, SchedulerJoins

\* The scheduler finds the pairs of an override, and none for another sub.
LEMMA FirstForIs ==
  ASSUME NEW M \in Seq(Overrides), Distinct(SubsOf(M))
  PROVE  /\ \A i \in 1 .. Len(M) : FirstFor(ClausesOf(M), M[i].sub) = PairsOf(M[i])
         /\ \A n : n \notin Elements(SubsOf(M)) => FirstFor(ClausesOf(M), n) = <<>>
<1> DEFINE C == ClausesOf(M)
           k == Len(M)
           s == SubsOf(M)
           at(n) == {i \in DOMAIN C : C[i].eq /\ C[i].name = n}
<1>1. /\ k \in Nat /\ DOMAIN C = 1 .. k
      /\ \A i \in 1 .. k : C[i] = ClauseOf(M[i]) /\ M[i] \in Overrides
      /\ s \in Seq(SFValidName) /\ Len(s) = k
      /\ \A i \in 1 .. k : s[i] = M[i].sub
  BY ClausesAre
<1>2. \A n : FirstFor(C, n) = IF at(n) = {} THEN <<>> ELSE C[Least(at(n))].kv
  BY DEF FirstFor
<1>3. \A i \in 1 .. k : C[i].eq /\ C[i].name = s[i] /\ C[i].kv = PairsOf(M[i])
  <2>1. \A i \in 1 .. k : C[i].eq /\ C[i].name = M[i].sub /\ C[i].kv = PairsOf(M[i])
    BY <1>1, OverrideBack
  <2> QED BY <1>1, <2>1
<1>4. DOMAIN s = 1 .. k  BY <1>1
<1>5. \A i, j \in 1 .. k : s[i] = s[j] => i = j  BY <1>4 DEF Distinct
<1> HIDE DEF C, k, s
<1>6. ASSUME NEW i \in 1 .. k PROVE FirstFor(C, M[i].sub) = PairsOf(M[i])
  <2>1. at(s[i]) = {i}  BY <1>1, <1>3, <1>5
  <2>2. i \in Int  BY <1>1
  <2>3. Least({i}) = i  BY <2>2, OneIsBoth
  <2> HIDE DEF at
  <2>4. FirstFor(C, s[i]) = C[i].kv  BY <1>2, <2>1, <2>3
  <2> QED BY <1>1, <1>3, <2>4
<1>7. ASSUME NEW n, n \notin Elements(s) PROVE FirstFor(C, n) = <<>>
  <2>1. at(n) = {}  BY <1>1, <1>3, <1>4, <1>7 DEF Elements
  <2> QED BY <1>2, <2>1
<1> QED BY <1>6, <1>7 DEF C, k, s

Pick(kv, k, default) ==
  LET at == {j \in DOMAIN kv : kv[j].k = k} IN IF at = {} THEN default ELSE kv[Greatest(at)].v

\* The value it takes for a key.
LEMMA PickIs ==
  ASSUME NEW kv, DOMAIN kv \subseteq Int, NEW k, NEW v, NEW default
  PROVE  /\ Lacks(kv, k) => Pick(kv, k, default) = default
         /\ Has(kv, k, v) => Pick(kv, k, default) = v
<1> DEFINE at == {j \in DOMAIN kv : kv[j].k = k}
<1>1. Pick(kv, k, default) = IF at = {} THEN default ELSE kv[Greatest(at)].v  BY DEF Pick
<1>2. ASSUME Lacks(kv, k) PROVE Pick(kv, k, default) = default
  <2>1. at = {}  BY <1>2 DEF Lacks
  <2> HIDE DEF at
  <2> QED BY <1>1, <2>1
<1>3. ASSUME Has(kv, k, v) PROVE Pick(kv, k, default) = v
  <2>1. PICK i \in DOMAIN kv : kv[i].v = v /\ \A j \in DOMAIN kv : kv[j].k = k <=> j = i
    BY <1>3 DEF Has
  <2>2. at = {i}  BY <2>1
  <2>3. Greatest({i}) = i  BY OneIsBoth
  <2> HIDE DEF at
  <2>4. at # {}  BY <2>2
  <2> QED BY <1>1, <2>1, <2>2, <2>3, <2>4
<1> QED BY <1>2, <1>3

\* The depth of a clause.
DepthOf(kv) ==
  LET at == {j \in DOMAIN kv : kv[j].k = "depth" /\ CanonicalizeDepth(kv[j].v) # "bad"}
  IN  IF at = {} THEN Global.depth ELSE CanonicalizeDepth(kv[Least(at)].v)

\* The depth it takes.
LEMMA DepthOfIs ==
  ASSUME NEW kv, DOMAIN kv \subseteq Int, NEW v
  PROVE  /\ Lacks(kv, "depth") => DepthOf(kv) = "none"
         /\ Has(kv, "depth", v) /\ CanonicalizeDepth(v) # "bad" => DepthOf(kv) = CanonicalizeDepth(v)
<1> DEFINE at == {j \in DOMAIN kv : kv[j].k = "depth" /\ CanonicalizeDepth(kv[j].v) # "bad"}
<1>1. DepthOf(kv) = IF at = {} THEN "none" ELSE CanonicalizeDepth(kv[Least(at)].v)
  BY DEF DepthOf, Global
<1>2. ASSUME Lacks(kv, "depth") PROVE DepthOf(kv) = "none"
  <2>1. at = {}  BY <1>2 DEF Lacks
  <2> HIDE DEF at
  <2> QED BY <1>1, <2>1
<1>3. ASSUME Has(kv, "depth", v), CanonicalizeDepth(v) # "bad" PROVE DepthOf(kv) = CanonicalizeDepth(v)
  <2>1. PICK i \in DOMAIN kv : kv[i].v = v /\ \A j \in DOMAIN kv : kv[j].k = "depth" <=> j = i
    BY <1>3 DEF Has
  <2>2. at = {i}  BY <1>3, <2>1
  <2>3. Least({i}) = i  BY OneIsBoth
  <2> HIDE DEF at
  <2>4. at # {}  BY <2>2
  <2> QED BY <1>1, <2>1, <2>2, <2>3, <2>4
<1> QED BY <1>2, <1>3

\* What the scheduler makes of the overrides that were written.
Reads(text, o) ==
  /\ ResolveSubParams(text, o.sub, Global)
       = [sort |-> Else(o.sort, "hot"), time |-> Else(o.time, "day")]
  /\ ResolveSubMode(text, o.sub, Global).time
       = IF o.sort \in {"top", "controversial"} THEN Else(o.time, "day") ELSE ""
  /\ ResolveSubBucket(text, o.sub, Global) = Else(o.time, "day")
  /\ ResolveSubDepth(text, o.sub, Global) = Else(o.depth, "none")

\* So it reads an override as the form meant it.
LEMMA ReadsIs ==
  ASSUME NEW text, NEW o \in Overrides, FirstFor(SchedulerClauses(text), o.sub) = PairsOf(o)
  PROVE  Reads(text, o)
<1> DEFINE kv == PairsOf(o)
           p == ResolveSubParams(text, o.sub, Global)
           q == ResolveSubMode(text, o.sub, Global)
           s == Else(o.sort, "hot")
           t == Else(o.time, "day")
<1>1. /\ DOMAIN kv \subseteq Int
      /\ o.sort = "" => Lacks(kv, "sort")
      /\ o.sort # "" => Has(kv, "sort", o.sort)
      /\ o.time = "" => Lacks(kv, "time")
      /\ o.time # "" => Has(kv, "time", o.time)
      /\ o.depth = "" => Lacks(kv, "depth")
      /\ o.depth # "" => Has(kv, "depth", Layers(o))
  BY PairsAre
<1>2. /\ o.sort \in ValidSorts \cup {""} /\ o.time \in Timeframes \cup {""}
      /\ o.depth \in Depths \cup {""}
  BY DEF Overrides
<1>3. FirstFor(SchedulerClauses(text), o.sub) = kv  OBVIOUS
<1> HIDE DEF kv
<1>4. p = [sort |-> Pick(kv, "sort", "hot"), time |-> Pick(kv, "time", "day")]
  BY <1>3 DEF ResolveSubParams, Pick, Global
<1>5. Pick(kv, "sort", "hot") = s
  <2>1. CASE o.sort = ""
    <3>1. Pick(kv, "sort", "hot") = "hot"  BY <1>1, <2>1, PickIs
    <3> QED BY <2>1, <3>1 DEF Else
  <2>2. CASE o.sort # ""
    <3> DEFINE v == o.sort
    <3>1. DOMAIN kv \subseteq Int /\ Has(kv, "sort", v)  BY <1>1, <2>2
    <3> HIDE DEF v
    <3>2. Pick(kv, "sort", "hot") = v  BY <3>1, PickIs
    <3> QED BY <2>2, <3>2 DEF Else, v
  <2> QED BY <2>1, <2>2
<1>6. Pick(kv, "time", "day") = t
  <2>1. CASE o.time = ""
    <3>1. Pick(kv, "time", "day") = "day"  BY <1>1, <2>1, PickIs
    <3> QED BY <2>1, <3>1 DEF Else
  <2>2. CASE o.time # ""
    <3> DEFINE v == o.time
    <3>1. DOMAIN kv \subseteq Int /\ Has(kv, "time", v)  BY <1>1, <2>2
    <3> HIDE DEF v
    <3>2. Pick(kv, "time", "day") = v  BY <3>1, PickIs
    <3> QED BY <2>2, <3>2 DEF Else, v
  <2> QED BY <2>1, <2>2
<1>7. p = [sort |-> s, time |-> t]  BY <1>4, <1>5, <1>6
<1>8. q = IF p.sort \in {"top", "controversial"} THEN p ELSE [p EXCEPT !.time = ""]
  BY DEF ResolveSubMode
<1>9. s \in {"top", "controversial"} <=> o.sort \in {"top", "controversial"}  BY DEF Else
<1>10. t \in Timeframes  BY <1>2 DEF Else, Timeframes
<1>11. ResolveSubBucket(text, o.sub, Global) = IF p.time \in Timeframes THEN p.time ELSE "day"
  BY DEF ResolveSubBucket
<1>12. ResolveSubDepth(text, o.sub, Global) = DepthOf(kv)  BY <1>3 DEF ResolveSubDepth, DepthOf
<1>13. DepthOf(kv) = Else(o.depth, "none")
  <2>1. CASE o.depth = ""
    <3>1. DepthOf(kv) = "none"  BY <1>1, <2>1, DepthOfIs
    <3> QED BY <2>1, <3>1 DEF Else
  <2>2. CASE o.depth # ""
    <3>1. CanonicalizeDepth(Layers(o)) = o.depth /\ o.depth # "bad"  BY <1>2, <2>2, LayersBack
    <3>2. DepthOf(kv) = CanonicalizeDepth(Layers(o))  BY <1>1, <2>2, <3>1, DepthOfIs
    <3> QED BY <2>2, <3>1, <3>2 DEF Else
  <2> QED BY <2>1, <2>2
<1> HIDE DEF p, q, s, t
<1>14. p.sort = s /\ p.time = t  BY <1>7
<1>15. q.time = IF o.sort \in {"top", "controversial"} THEN t ELSE ""
  <2>1. CASE o.sort \in {"top", "controversial"}  BY <1>8, <1>9, <1>14, <2>1
  <2>2. CASE o.sort \notin {"top", "controversial"}
    <3>1. q = [p EXCEPT !.time = ""]  BY <1>8, <1>9, <1>14, <2>2
    <3>2. [p EXCEPT !.time = ""].time = ""
      <4>1. p \in [sort : {s}, time : {t}]  BY <1>7
      <4> QED BY <4>1
    <3> QED BY <2>2, <3>1, <3>2
  <2> QED BY <2>1, <2>2
<1>16. ResolveSubBucket(text, o.sub, Global) = t  BY <1>10, <1>11, <1>14
<1>17. ResolveSubDepth(text, o.sub, Global) = Else(o.depth, "none")  BY <1>12, <1>13
<1> QED BY <1>7, <1>15, <1>16, <1>17 DEF Reads, p, q, s, t

\* A layer runs if an override has it.
LEMMA EnabledIs ==
  ASSUME NEW st, Sound(st), NEW layer
  PROVE  EffectiveEnabled(layer, CanonicalPrefetchSubModes(st.modes), st.subs, Global) <=>
           \E i \in DOMAIN st.modes : DepthCoversLayer(layer, st.modes[i].depth)
<1> DEFINE M == st.modes
           subs == st.subs
           text == CanonicalPrefetchSubModes(M)
           C == ClausesOf(M)
           k == Len(M)
           s == SubsOf(M)
           depth(n) == ResolveSubDepth(text, n, Global)
<1>1. /\ M \in Seq(Overrides) /\ Distinct(s) /\ subs \in Seq(SFValidName)
      /\ Elements(s) \subseteq Elements(subs)
  BY DEF Sound
<1>2. SchedulerClauses(text) = C  BY ComposeIs, SameCut
<1>3. /\ k \in Nat /\ DOMAIN M = 1 .. k
      /\ \A i \in 1 .. k : M[i] \in Overrides
      /\ s \in Seq(SFValidName) /\ Len(s) = k
      /\ \A i \in 1 .. k : s[i] = M[i].sub
  BY <1>1, ClausesAre
<1>4. DOMAIN s = 1 .. k  BY <1>3
<1>5. \A i \in 1 .. k : FirstFor(C, M[i].sub) = PairsOf(M[i])  BY <1>1, FirstForIs
<1>6. \A n : n \notin Elements(s) => FirstFor(C, n) = <<>>  BY <1>1, FirstForIs
<1>7. EffectiveEnabled(layer, text, subs, Global) <=>
        IF subs = <<>> THEN DepthCoversLayer(layer, "none")
        ELSE \E i \in DOMAIN subs : DepthCoversLayer(layer, depth(subs[i]))
  BY DEF EffectiveEnabled, Global
<1> HIDE DEF M, subs, text, C, k, s
<1>8. \A i \in 1 .. k : depth(M[i].sub) = Else(M[i].depth, "none")
  <2> SUFFICES ASSUME NEW i \in 1 .. k PROVE depth(M[i].sub) = Else(M[i].depth, "none")  OBVIOUS
  <2>1. M[i] \in Overrides  BY <1>3
  <2>2. FirstFor(SchedulerClauses(text), M[i].sub) = PairsOf(M[i])  BY <1>2, <1>5
  <2>3. Reads(text, M[i])  BY <2>1, <2>2, ReadsIs
  <2> QED BY <2>3 DEF Reads
<1>9. \A n : n \notin Elements(s) => depth(n) = "none"
  <2> SUFFICES ASSUME NEW n, n \notin Elements(s) PROVE depth(n) = "none"  OBVIOUS
  <2> DEFINE e == <<>>
  <2>1. FirstFor(SchedulerClauses(text), n) = e  BY <1>2, <1>6
  <2>2. depth(n) = DepthOf(FirstFor(SchedulerClauses(text), n))  BY DEF ResolveSubDepth, DepthOf
  <2>3. DOMAIN e = {}  OBVIOUS
  <2> HIDE DEF e, depth
  <2>4. DOMAIN e \subseteq Int /\ Lacks(e, "depth")  BY <2>3 DEF Lacks
  <2>5. DepthOf(e) = "none"  BY <2>4, DepthOfIs
  <2> QED BY <2>1, <2>2, <2>5
<1>10. ~DepthCoversLayer(layer, "none") /\ ~DepthCoversLayer(layer, "")  BY DEF DepthCoversLayer
<1>11. \A d : DepthCoversLayer(layer, Else(d, "none")) <=> DepthCoversLayer(layer, d)
  BY <1>10 DEF Else
<1> HIDE DEF depth
<1>12. ASSUME NEW i \in DOMAIN M, DepthCoversLayer(layer, M[i].depth)
       PROVE  subs # <<>> /\ \E j \in DOMAIN subs : DepthCoversLayer(layer, depth(subs[j]))
  <2>1. i \in 1 .. k /\ M[i].sub = s[i] /\ s[i] \in Elements(s)  BY <1>3, <1>4 DEF Elements
  <2>2. PICK j \in DOMAIN subs : subs[j] = M[i].sub  BY <1>1, <2>1 DEF Elements
  <2>3. DepthCoversLayer(layer, depth(subs[j]))  BY <1>8, <1>11, <1>12, <2>1, <2>2
  <2>4. subs # <<>>  BY <2>2
  <2> QED BY <2>3, <2>4
<1>13. ASSUME NEW j \in DOMAIN subs, DepthCoversLayer(layer, depth(subs[j]))
       PROVE  \E i \in DOMAIN M : DepthCoversLayer(layer, M[i].depth)
  <2>1. subs[j] \in Elements(s)  BY <1>9, <1>10, <1>13
  <2>2. PICK i \in 1 .. k : s[i] = subs[j]  BY <1>4, <2>1 DEF Elements
  <2>3. depth(subs[j]) = Else(M[i].depth, "none")  BY <1>3, <1>8, <2>2
  <2> QED BY <1>3, <1>11, <1>13, <2>3
<1>14. EffectiveEnabled(layer, text, subs, Global) <=>
         \E i \in DOMAIN M : DepthCoversLayer(layer, M[i].depth)
  BY <1>7, <1>10, <1>12, <1>13
<1> QED BY <1>14 DEF M, subs, text

\* The form's half of TextsRoundTrip, for every text that can be typed.
LEMMA FormStable ==
  ASSUME sfText \in Seq(SFPieces)
  PROVE  EchoStable
<1> DEFINE stored == Normalize(sfText)
           again == Normalize(Compose(stored))
           M == stored.modes
           text == CanonicalPrefetchSubModes(M)
<1>1. Sound(stored)  BY NormalizeIs
<1> HIDE DEF stored
<1>2. /\ again = Again(stored) /\ Sound(again) /\ Elements(again.subs) = Elements(stored.subs)
      /\ again.modes = M /\ Again(again) = again
  BY <1>1, AgainIs
<1> HIDE DEF again
<1>3. Normalize(Compose(again)) = again
  <2>1. Normalize(Compose(again)) = Again(again)  BY <1>2, AgainIs
  <2> QED BY <1>2, <2>1
<1>4. \A n \in SFValidName : Listed(n, again.subs) <=> Listed(n, stored.subs)
  BY <1>2 DEF Listed, Elements
<1>5. M \in Seq(Overrides) /\ Distinct(SubsOf(M))  BY <1>1 DEF Sound
<1>6. SchedulerClauses(text) = ClausesOf(M)  BY <1>1, ComposeIs, SameCut
<1> HIDE DEF M, text
<1>7. \A i \in DOMAIN M : Reads(text, M[i])
  <2>1. DOMAIN M = 1 .. Len(M) /\ \A i \in 1 .. Len(M) : M[i] \in Overrides  BY <1>5
  <2>2. \A i \in 1 .. Len(M) : FirstFor(SchedulerClauses(text), M[i].sub) = PairsOf(M[i])
    BY <1>5, <1>6, FirstForIs
  <2> QED BY <2>1, <2>2, ReadsIs
<1>8. \A layer : EffectiveEnabled(layer, text, stored.subs, Global) <=>
                   \E i \in DOMAIN M : DepthCoversLayer(layer, M[i].depth)
  BY <1>1, EnabledIs DEF M, text
<1> QED BY <1>2, <1>3, <1>4, <1>7, <1>8 DEF EchoStable, Reads, stored, again, M, text

\* A text that is written down and read again says the same, for every text
\* that can be typed.
THEOREM TextsSayTheSame == SFSpec /\ SQSpec => []TextsRoundTrip
<1> DEFINE AsTyped == sfText \in Seq(SFPieces) /\ sqBox \in Seq(SQTokens)
<1>1. SFInit /\ SQInit => AsTyped  BY DEF SFInit, SQInit
<1>2. AsTyped /\ [SFNext]_sfVars /\ [SQNext]_sqVars => AsTyped'
  <2>1. sfText \in Seq(SFPieces) /\ [SFNext]_sfVars => sfText' \in Seq(SFPieces)
    BY DEF SFNext, SFType, sfVars
  <2>2. sqBox \in Seq(SQTokens) /\ [SQNext]_sqVars => sqBox' \in Seq(SQTokens)
    BY DEF SQNext, SQType, sqVars
  <2> QED BY <2>1, <2>2
<1>3. AsTyped => TextsRoundTrip  BY FormStable, BoxStable DEF TextsRoundTrip
<1> QED BY <1>1, <1>2, <1>3, PTL DEF SFSpec, SQSpec
==============================================================================
