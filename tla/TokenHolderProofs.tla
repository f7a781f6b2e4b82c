------------------------- MODULE TokenHolderProofs -------------------------
(***************************************************************************)
(* Proofs about TokenHolder, for every set of callers and refreshers and   *)
(* every value of its times and bounds.  IInv adds to the types that       *)
(* refreshMu is held exactly by the one refresher between TryLock and the  *)
(* end of installToken, that the token it carries is the newest, and that  *)
(* the cooldown it passed cannot be undone while it holds the lock.        *)
(***************************************************************************)
EXTENDS TokenHolder, TLAPS, SequenceTheorems

LEMMA Sizes ==
    /\ Cap \in Nat /\ 0 < Cap /\ Window \in Nat /\ 0 < Window /\ Life \in Nat /\ 0 < Life
    /\ Lead \in Nat /\ Margin \in Nat /\ Idle \in Nat /\ Flat \in Nat /\ 0 < Flat
    /\ MaxMints \in Nat /\ 0 < MaxMints /\ MaxCool \in Nat /\ Flat <= MaxCool
    /\ MaxFails \in Nat /\ Loop \in Refreshers
    /\ NoOne \notin Refreshers
BY TimesAssumption, NamesAssumption DEF Refreshers

LEMMA CoolType == ASSUME NEW f \in 0..MaxFails PROVE Flat <= Cool(f) /\ Cool(f) \in Int
BY CoolAssumption, Sizes

LEMMA LaterType == ASSUME NEW b \in Budgets PROVE Later(b) \in Budgets
<1>1. b.window \in 0..Window /\ b.left \in 0..Cap  BY DEF Budgets
<1>2. Down(b.window) \in 0..Window  BY <1>1, Sizes DEF Down
<1>3. Later(b) = [left |-> b.left, window |-> Down(b.window)]  BY DEF Later, Budgets
<1>q. QED BY <1>1, <1>2, <1>3 DEF Budgets

\* Time leaves a refresher where it is, with what it carries.
LEMMA AgedType ==
    ASSUME NEW w \in Works
    PROVE  /\ Aged(w) \in Works
           /\ Aged(w).at = w.at /\ Aged(w).token = w.token /\ Aged(w).id = w.id
<1>1. MaxAge \in Nat  BY Sizes DEF MaxAge
<1>2. CASE w.at = "stored" /\ w.age < MaxAge
  <2>1. w.age + 1 \in 0..MaxAge  BY <1>1, <1>2 DEF Works
  <2>2. Aged(w) = [w EXCEPT !.age = w.age + 1]  BY <1>2 DEF Aged
  <2>q. QED BY <2>1, <2>2 DEF Works
<1>q. QED BY <1>2 DEF Aged

LEMMA SleepType ==
    ASSUME NEW a \in Active \union {NoToken}, NEW l \in [Serials -> 0..Life]
    PROVE  Sleep(a, l) \in Nat
<1>1. CASE a = NoToken  BY <1>1, Sizes DEF Sleep
<1>2. CASE a # NoToken
  <2>1. a.token \in Serials  BY <1>2 DEF Active
  <2>2. l[a.token] \in Nat  BY <2>1, Sizes
  <2>q. QED BY <1>2, <2>2, Sizes DEF Sleep
<1>q. QED BY <1>1, <1>2

LEMMA FullType == Budget(Cap, Window) \in Budgets /\ Budget(Cap, 0) \in Budgets
BY Sizes DEF Budget, Budgets

LEMMA ManagedType ==
    ASSUME NEW t \in Serials, NEW i \in 0..MaxMints, NEW b \in Budgets, NEW s \in Budgets
    PROVE  /\ Managed(t, i, b, s) \in Active
           /\ Managed(t, i, b, s).token = t /\ Managed(t, i, b, s).id = i
BY DEF Managed, Active

LEMMA InstalledType ==
    ASSUME NEW t \in Serials, NEW i \in 0..MaxMints, NEW g \in Nat
    PROVE  Installed(t, i, g) \in Active /\ Installed(t, i, g).token = t
<1>1. (IF g < Window THEN Window - g ELSE 0) \in 0..Window  BY Sizes
<1>2. Budget(Cap, IF g < Window THEN Window - g ELSE 0) \in Budgets
  BY <1>1, Sizes DEF Budget, Budgets
<1>q. QED BY <1>2, FullType, ManagedType DEF Installed

LEMMA ActiveFields ==
    ASSUME NEW a \in Active
    PROVE  a.token \in Serials /\ a.id \in 0..MaxMints /\ a.now \in Budgets /\ a.stored \in Budgets
BY DEF Active

LEMMA KickedType == ASSUME NEW w \in [Refreshers -> Works] PROVE Kicked(w) \in
    [Refreshers -> Works]
<1> DEFINE free == {k \in Kicks : w[k].at = "idle"}
<1>1. CASE free = {}  BY <1>1 DEF Kicked
<1>2. CASE free # {}
  <2> DEFINE k == CHOOSE x \in free : TRUE
  <2>1. k \in free  BY <1>2
  <2>2. k \in Refreshers  BY <2>1 DEF Refreshers
  <2>3. w[k] \in Works  BY <2>2
  <2>4. [w[k] EXCEPT !.at = "called"] \in Works  BY <2>3 DEF Works
  <2>5. Kicked(w) = [w EXCEPT ![k] = [w[k] EXCEPT !.at = "called"]]  BY <1>2 DEF Kicked
  <2>q. QED BY <2>2, <2>4, <2>5
<1>q. QED BY <1>1, <1>2

\* A goroutine that is kicked off was idle, so no refresher at work is touched.
LEMMA KickedMinting ==
    ASSUME NEW w \in [Refreshers -> Works], NEW r \in Refreshers
    PROVE  /\ Kicked(w)[r].at \in {"mint", "stored"} <=> w[r].at \in {"mint", "stored"}
           /\ w[r].at # "idle" => Kicked(w)[r] = w[r]
           /\ Kicked(w)[r].at \in {"mint", "stored"} => Kicked(w)[r] = w[r]
<1> DEFINE free == {k \in Kicks : w[k].at = "idle"}
<1>1. CASE free = {}  BY <1>1 DEF Kicked
<1>2. CASE free # {}
  <2> DEFINE k == CHOOSE x \in free : TRUE
  <2>1. k \in free  BY <1>2
  <2>2. k \in Refreshers /\ w[k].at = "idle"  BY <2>1 DEF Refreshers
  <2>3. w[k] \in Works  BY <2>2
  <2>4. [w[k] EXCEPT !.at = "called"].at = "called"  BY <2>3 DEF Works
  <2>5. Kicked(w) = [w EXCEPT ![k] = [w[k] EXCEPT !.at = "called"]]  BY <1>2 DEF Kicked
  <2>q. QED BY <2>2, <2>4, <2>5
<1>q. QED BY <1>1, <1>2

LEMMA RestingType == Resting \in Works /\ ~(Resting.at \in {"mint", "stored"}) /\ Unsent \in Sends
BY Sizes DEF Resting, Works, Unsent, Sends, MaxAge

LEMMA ReturnsType ==
    ASSUME work \in [Refreshers -> Works], nap \in Nat, life \in [Serials -> 0..Life],
           NEW r \in Refreshers, NEW a \in Active \union {NoToken}, Returns(r, a)
    PROVE  work' \in [Refreshers -> Works] /\ nap' \in Nat
<1>1. Sleep(a, life) \in Nat  BY SleepType
<1>q. QED BY <1>1, RestingType DEF Returns

LEMMA PersistedType ==
    ASSUME writes \subseteq Writes, NEW a \in Active, rows \in Seq(Row), Len(rows) <=
        MaxMints
    PROVE  Persisted(a) \subseteq Writes
<1>1. a.token \in Serials /\ a.stored \in Budgets  BY DEF Active
<1>2. [token |-> a.token, budget |-> a.stored] \in Row  BY <1>1 DEF Row
<1>3. DOMAIN rows = 1..Len(rows) /\ Len(rows) \in Nat  OBVIOUS
<1>4. ASSUME a.id \in DOMAIN rows PROVE a.id \in 1..MaxMints  BY <1>3, <1>4, Sizes
<1>q. QED BY <1>2, <1>4 DEF Persisted, Writes

LEMMA ReplenishedType ==
    ASSUME NEW a \in Active
    PROVE  /\ Replenished(a) \in Active
           /\ Replenished(a).token = a.token /\ Replenished(a).id = a.id
           /\ Replenished(a).now.left = Cap
BY FullType DEF Replenished, Active, Budget

LEMMA NotedType ==
    ASSUME NEW a \in Active, NEW h \in Answers
    PROVE  Noted(a, h) \in Active /\ Noted(a, h).token = a.token /\ Noted(a, h).id = a.id
<1>1. CASE h = {}  BY <1>1 DEF Noted
<1>2. CASE h # {}
  <2> DEFINE b == CHOOSE x \in h : TRUE
  <2>1. b \in h  BY <1>2
  <2>2. b \in Budgets  BY <2>1, <1>2 DEF Answers
  <2>3. Noted(a, h) = [a EXCEPT !.now = b, !.stored = b]  BY <1>2 DEF Noted
  <2>4. LET n == [a EXCEPT !.now = b, !.stored = b]
        IN n \in Active /\ n.token = a.token /\ n.id = a.id
    BY <2>2 DEF Active
  <2>q. QED BY <2>3, <2>4
<1>q. QED BY <1>1, <1>2

LEMMA FreshRowType ==
    ASSUME NEW t \in Serials PROVE FreshRow(t) \in Row /\ FreshRow(t).token = t
BY FullType DEF FreshRow, Row
\* TypeOK, and the one bound its proof needs from RefreshInv.
Fields ==
    /\ up \in BOOLEAN
    /\ ready \in BOOLEAN
    /\ active \in Active \union {NoToken}
    /\ since \in 0..MaxCool
    /\ fails \in 0..MaxFails
    /\ held \in Refreshers \union {NoOne}
    /\ work \in [Refreshers -> Works]
    /\ nap \in Nat
    /\ sent \in [Callers -> Sends]
    /\ rows \in Seq(Row) /\ Len(rows) <= minted
    /\ writes \subseteq Writes
    /\ life \in [Serials -> 0..Life]
    /\ minted \in 0..MaxMints
    /\ crashes \in 0..MaxCrashes

LEMMA FieldsHold == ASSUME TypeOK, RefreshInv PROVE Fields
BY DEF TypeOK, RefreshInv, Fields

-----------------------------------------------------------------------------
(* TypeOK, action by action.                                                *)

LEMMA TypeTick ==
    ASSUME TypeOK, RefreshInv, Tick
    PROVE  TypeOK' /\ Len(rows') <= minted'
<1>f. Fields  BY FieldsHold
<1>d. \A n \in Nat : Down(n) \in Nat /\ Down(n) <= n  BY DEF Down
<1>u. UNCHANGED <<up, ready, fails, held, sent, minted, crashes>>  BY DEF Tick
<1>work. (work \in [Refreshers -> Works])'
  <2>1. \A r \in Refreshers : Aged(work[r]) \in Works  BY <1>f, AgedType DEF Fields
  <2>q. QED BY <2>1 DEF Tick
<1>active. (active \in Active \union {NoToken})'
  <2>1. ASSUME active # NoToken
        PROVE  [active EXCEPT !.now = Later(@), !.stored = Later(@)] \in Active
    <3>1. active \in Active  BY <1>f, <2>1 DEF Fields
    <3>2. Later(active.now) \in Budgets /\ Later(active.stored) \in Budgets
      BY <3>1, ActiveFields, LaterType
    <3>q. QED BY <3>1, <3>2 DEF Active
  <2>q. QED BY <2>1 DEF Tick
<1>since. (since \in 0..MaxCool)'
  <2>1. since \in 0..MaxCool  BY <1>f DEF Fields
  <2>2. since' = IF since < MaxCool THEN since + 1 ELSE MaxCool  BY DEF Tick
  <2>q. QED BY <2>1, <2>2, Sizes
<1>nap. (nap \in Nat)'
  BY <1>f, <1>d DEF Fields, Tick
<1>rows. (rows \in Seq(Row) /\ Len(rows) <= minted)'
  <2> DEFINE next == [i \in DOMAIN rows |-> [rows[i] EXCEPT !.budget = Later(@)]]
  <2>1. DOMAIN rows = 1..Len(rows) /\ Len(rows) \in Nat  BY <1>f DEF Fields
  <2>2. ASSUME NEW i \in DOMAIN rows PROVE [rows[i] EXCEPT !.budget = Later(@)] \in Row
    <3>1. rows[i] \in Row  BY <1>f, <2>2 DEF Fields
    <3>2. Later(rows[i].budget) \in Budgets  BY <3>1, LaterType DEF Row
    <3>q. QED BY <3>1, <3>2 DEF Row
  <2>3. next \in [1..Len(rows) -> Row]  BY <2>1, <2>2
  <2>4. next \in Seq(Row) /\ Len(next) = Len(rows)
    <3>1. next \in Seq(Row)  BY <2>1, <2>3, SeqDef
    <3>2. DOMAIN next = 1..Len(rows)  BY <2>3
    <3>q. QED BY <2>1, <3>1, <3>2, LenProperties
  <2>5. rows' = next /\ minted' = minted  BY DEF Tick
  <2>q. QED BY <1>f, <2>4, <2>5 DEF Fields
<1>writes. (writes \subseteq Writes)'
  <2>1. ASSUME NEW w \in writes PROVE [w EXCEPT !.row.budget = Later(@)] \in Writes
    <3>1. w \in Writes /\ w.row \in Row  BY <1>f, <2>1 DEF Fields, Writes
    <3>2. Later(w.row.budget) \in Budgets  BY <3>1, LaterType DEF Row
    <3>3. [w.row EXCEPT !.budget = Later(@)] \in Row  BY <3>1, <3>2 DEF Row
    <3>q. QED BY <3>1, <3>3 DEF Writes
  <2>q. QED BY <2>1 DEF Tick
<1>life. (life \in [Serials -> 0..Life])'
  <2>1. ASSUME NEW t \in Serials PROVE Down(life[t]) \in 0..Life
    <3>1. life[t] \in 0..Life  BY <1>f, <2>1 DEF Fields
    <3>q. QED BY <1>d, <3>1, Sizes
  <2>q. QED BY <2>1 DEF Tick
<1>q. QED BY <1>f, <1>u, <1>active, <1>since, <1>nap, <1>work, <1>rows, <1>writes,
    <1>life, Sizes DEF Fields, TypeOK

LEMMA TypeLoopWakes ==
    ASSUME TypeOK, RefreshInv, LoopWakes
    PROVE  TypeOK' /\ Len(rows') <= minted'
<1>f. Fields  BY FieldsHold
<1>w. work[Loop] \in Works  BY <1>f, Sizes DEF Fields
<1>x. [work[Loop] EXCEPT !.at = "called"] \in Works  BY <1>w DEF Works
<1>u. UNCHANGED <<up, ready, active, since, fails, held, sent, rows, writes,
    life, minted, crashes>>  BY DEF LoopWakes
<1>work. (work \in [Refreshers -> Works])'
  BY <1>f, <1>x, Sizes DEF Fields, LoopWakes
<1>nap. (nap \in Nat)'
  BY <1>f, SleepType DEF Fields, LoopWakes
<1>q. QED BY <1>f, <1>u, <1>work, <1>nap, Sizes DEF Fields, TypeOK

LEMMA TypeBegin ==
    ASSUME TypeOK, RefreshInv, NEW r \in Refreshers, Begin(r)
    PROVE  TypeOK' /\ Len(rows') <= minted'
<1>f. Fields  BY FieldsHold
<1>w. work[r] \in Works  BY <1>f DEF Fields
<1>x. [work[r] EXCEPT !.at = "mint"] \in Works  BY <1>w DEF Works
<1>u. UNCHANGED <<up, ready, active, since, fails, sent, rows, writes, life, minted,
    crashes>>  BY DEF Begin
<1>work. (work \in [Refreshers -> Works])'
  BY <1>f, <1>x, ReturnsType DEF Fields, Begin
<1>nap. (nap \in Nat)'
  BY <1>f, ReturnsType DEF Fields, Begin
<1>held. (held \in Refreshers \union {NoOne})'
  BY <1>f, Sizes DEF Fields, Begin
<1>q. QED BY <1>f, <1>u, <1>work, <1>nap, <1>held, Sizes DEF Fields, TypeOK

LEMMA TypeMintFails ==
    ASSUME TypeOK, RefreshInv, NEW r \in Refreshers, MintFails(r)
    PROVE  TypeOK' /\ Len(rows') <= minted'
<1>f. Fields  BY FieldsHold
<1>w. Returns(r, active)  BY DEF MintFails
<1>u. UNCHANGED <<up, ready, active, since, sent, rows, writes, life, minted,
    crashes>>  BY DEF MintFails
<1>fails. (fails \in 0..MaxFails)'
  BY <1>f, Sizes DEF Fields, MintFails
<1>held. (held \in Refreshers \union {NoOne})'
  BY <1>f, Sizes DEF Fields, MintFails
<1>work. (work \in [Refreshers -> Works])'
  BY <1>f, <1>w, ReturnsType DEF Fields
<1>nap. (nap \in Nat)'
  BY <1>f, <1>w, ReturnsType DEF Fields
<1>q. QED BY <1>f, <1>u, <1>fails, <1>held, <1>work, <1>nap, Sizes DEF Fields, TypeOK

LEMMA TypeMint ==
    ASSUME TypeOK, RefreshInv, NEW r \in Refreshers, Mint(r)
    PROVE  TypeOK' /\ Len(rows') <= minted'
<1>f. Fields  BY FieldsHold
<1>t. minted + 1 \in Serials  BY <1>f, Sizes DEF Fields, Mint, Serials
<1>r. FreshRow(minted + 1) \in Row  BY <1>t, FreshRowType
<1>u. UNCHANGED <<up, ready, active, since, fails, held, nap, sent, writes,
    crashes>>  BY DEF Mint
<1>minted. (minted \in 0..MaxMints)'
  BY <1>t, Sizes DEF Mint, Serials
<1>life. (life \in [Serials -> 0..Life])'
  BY <1>f, <1>t, Sizes DEF Fields, Mint
<1>rows. (rows \in Seq(Row) /\ Len(rows) <= minted)'
  <2>1. rows' = rows \/ rows' = Append(rows, FreshRow(minted + 1))  BY DEF Mint
  <2>2. minted' = minted + 1  BY DEF Mint
  <2>3. rows \in Seq(Row) /\ Len(rows) <= minted /\ minted \in Nat /\ Len(rows) \in Nat
    BY <1>f DEF Fields
  <2>4. Append(rows, FreshRow(minted + 1)) \in Seq(Row)
        /\ Len(Append(rows, FreshRow(minted + 1))) = Len(rows) + 1
    BY <1>r, <2>3, AppendProperties
  <2>q. QED BY <2>1, <2>2, <2>3, <2>4
<1>work. (work \in [Refreshers -> Works])'
  <2>1. active # NoToken => active.id \in 0..MaxMints  BY <1>f, ActiveFields DEF Fields
  <2>2. [at |-> "stored", token |-> minted + 1,
         id |-> IF active = NoToken THEN 0 ELSE active.id, age |-> 0] \in Works
    BY <1>t, <2>1, Sizes DEF Works, Serials, MaxAge
  <2>q. QED BY <1>f, <2>2 DEF Fields, Mint
<1>q. QED BY <1>f, <1>u, <1>minted, <1>life, <1>rows, <1>work, Sizes DEF Fields, TypeOK

LEMMA TypeInstall ==
    ASSUME TypeOK, RefreshInv, NEW r \in Refreshers, Install(r)
    PROVE  TypeOK' /\ Len(rows') <= minted'
<1>f. Fields  BY FieldsHold
<1>t. work[r].token \in Serials /\ work[r].id \in 0..MaxMints
  <2>1. work[r].token = minted  BY DEF RefreshInv, Install
  <2>3. minted > 0  BY DEF RefreshInv, Install
  <2>4. work[r] \in Works /\ minted \in 0..MaxMints  BY <1>f DEF Fields
  <2>q. QED BY <2>1, <2>3, <2>4, Sizes DEF Works, Serials
<1>g. work[r].age \in Nat  BY <1>f, Sizes DEF Fields, Works, MaxAge
<1>a. Installed(work[r].token, work[r].id, work[r].age) \in Active
  BY <1>t, <1>g, InstalledType
<1>w. Returns(r, Installed(work[r].token, work[r].id, work[r].age))  BY DEF Install
<1>x. work' \in [Refreshers -> Works] /\ nap' \in Nat
  BY <1>f, <1>a, <1>w, ReturnsType DEF Fields
<1>u. UNCHANGED <<up, sent, rows, writes, life, minted, crashes>>  BY DEF Install
<1>active. (active \in Active \union {NoToken})'
  BY <1>a DEF Install
<1>ready. (ready \in BOOLEAN)'
  BY <1>f, Sizes DEF Fields, Install
<1>since. (since \in 0..MaxCool)'
  BY <1>g, Sizes DEF Install
<1>fails. (fails \in 0..MaxFails)'
  BY <1>f, Sizes DEF Fields, Install
<1>held. (held \in Refreshers \union {NoOne})'
  BY <1>f, Sizes DEF Fields, Install
<1>work. (work \in [Refreshers -> Works])'
  BY <1>x
<1>nap. (nap \in Nat)'
  BY <1>x
<1>q. QED BY <1>f, <1>u, <1>active, <1>ready, <1>since, <1>fails, <1>held, <1>work,
    <1>nap, Sizes DEF Fields, TypeOK

LEMMA TypeAsk ==
    ASSUME TypeOK, RefreshInv, NEW c \in Callers, Ask(c)
    PROVE  TypeOK' /\ Len(rows') <= minted'
<1>f. Fields  BY FieldsHold
<1> DEFINE a == IF active.now.window = 0 THEN Replenished(active) ELSE active
<1>a. active # NoToken => active \in Active /\ a \in Active
  BY <1>f, ReplenishedType DEF Fields
<1>u. UNCHANGED <<up, ready, since, fails, held, nap, rows, life, minted,
    crashes>>  BY DEF Ask
<1>work. (work \in [Refreshers -> Works])'
  BY <1>f, KickedType DEF Fields, Ask
<1>active. (active \in Active \union {NoToken})'
  BY <1>f, <1>a DEF Fields, Ask
<1>writes. (writes \subseteq Writes)'
  <2>1. writes \subseteq Writes /\ rows \in Seq(Row) /\ Len(rows) <= MaxMints
    <3>1. Len(rows) \in Nat /\ Len(rows) <= minted /\ minted \in 0..MaxMints
      BY <1>f DEF Fields
    <3>q. QED BY <1>f, <3>1, Sizes DEF Fields
  <2>2. ASSUME active # NoToken PROVE Persisted(a) \subseteq Writes
    <3>1. a \in Active  BY <1>a, <2>2
    <3>q. QED BY <2>1, <3>1, PersistedType
  <2>q. QED BY <1>f, <2>2 DEF Fields, Ask
<1>sent. (sent \in [Callers -> Sends])'
  <2>1. active # NoToken => a.token \in Serials /\ a.id \in 0..MaxMints
    BY <1>a, ActiveFields
  <2>2. active # NoToken => [token |-> a.token, id |-> a.id] \in Sends
    BY <2>1, Sizes DEF Sends, Serials
  <2>q. QED BY <1>f, <2>2 DEF Fields, Ask
<1>q. QED BY <1>f, <1>u, <1>work, <1>active, <1>writes, <1>sent, Sizes DEF Fields, TypeOK

LEMMA TypeComplete ==
    ASSUME TypeOK, RefreshInv, NEW c \in Callers, NEW headers \in Answers, NEW refused
        \in BOOLEAN, Complete(c, headers, refused)
    PROVE  TypeOK' /\ Len(rows') <= minted'
<1>f. Fields  BY FieldsHold
<1> DEFINE a == Noted(active, headers)
<1>a. active # NoToken => active \in Active /\ a \in Active
  BY <1>f, NotedType DEF Fields
<1> DEFINE one == IF active # NoToken /\ active.id = sent[c].id /\ a.now.left < Low
                  THEN Kicked(work) ELSE work
<1>o. one \in [Refreshers -> Works]  BY <1>f, KickedType DEF Fields
<1>u. UNCHANGED <<up, ready, since, fails, held, nap, rows, life, minted,
    crashes>>  BY DEF Complete
<1>work. (work \in [Refreshers -> Works])'
  BY <1>f, <1>o, KickedType DEF Fields, Complete
<1>active. (active \in Active \union {NoToken})'
  BY <1>f, <1>a DEF Fields, Complete
<1>writes. (writes \subseteq Writes)'
  <2>1. writes \subseteq Writes /\ rows \in Seq(Row) /\ Len(rows) <= MaxMints
    <3>1. Len(rows) \in Nat /\ Len(rows) <= minted /\ minted \in 0..MaxMints
      BY <1>f DEF Fields
    <3>q. QED BY <1>f, <3>1, Sizes DEF Fields
  <2>2. ASSUME active # NoToken PROVE Persisted(a) \subseteq Writes
    <3>1. a \in Active  BY <1>a, <2>2
    <3>q. QED BY <2>1, <3>1, PersistedType
  <2>q. QED BY <1>f, <2>2 DEF Fields, Complete
<1>sent. (sent \in [Callers -> Sends])'
  BY <1>f, RestingType DEF Fields, Complete
<1>q. QED BY <1>f, <1>u, <1>work, <1>active, <1>writes, <1>sent, Sizes DEF Fields, TypeOK

LEMMA TypeDropped ==
    ASSUME TypeOK, RefreshInv, NEW c \in Callers, Dropped(c)
    PROVE  TypeOK' /\ Len(rows') <= minted'
<1>f. Fields  BY FieldsHold
<1>u. UNCHANGED <<up, ready, active, since, fails, held, work, nap, rows, writes,
    life, minted, crashes>>  BY DEF Dropped
<1>sent. (sent \in [Callers -> Sends])'
  BY <1>f, RestingType DEF Fields, Dropped
<1>q. QED BY <1>f, <1>u, <1>sent, Sizes DEF Fields, TypeOK

LEMMA TypeWrite ==
    ASSUME TypeOK, RefreshInv, NEW w \in writes, Write(w)
    PROVE  TypeOK' /\ Len(rows') <= minted'
<1>f. Fields  BY FieldsHold
<1>r. w.row \in Row /\ w.id \in 1..MaxMints  BY <1>f DEF Fields, Writes
<1>u. UNCHANGED <<up, ready, active, since, fails, held, work, nap, sent, life,
    minted, crashes>>  BY DEF Write
<1>writes. (writes \subseteq Writes)'
  BY <1>f, Sizes DEF Fields, Write
<1>rows. (rows \in Seq(Row) /\ Len(rows) <= minted)'
  <2>1. rows' = rows \/ rows' = [rows EXCEPT ![w.id] = w.row]  BY DEF Write
  <2>2. [rows EXCEPT ![w.id] = w.row] \in Seq(Row) /\ Len([rows EXCEPT ![w.id] = w.row]) = Len(rows)
    <3>1. DOMAIN rows = 1..Len(rows) /\ Len(rows) \in Nat /\ rows \in [1..Len(rows) -> Row]
      BY <1>f DEF Fields
    <3>2. [rows EXCEPT ![w.id] = w.row] \in [1..Len(rows) -> Row]  BY <1>r, <3>1
    <3>3. [rows EXCEPT ![w.id] = w.row] \in Seq(Row)  BY <3>1, <3>2, SeqDef
    <3>q. QED BY <3>1, <3>2, <3>3, LenProperties
  <2>q. QED BY <1>f, <2>1, <2>2 DEF Fields, Write
<1>q. QED BY <1>f, <1>u, <1>writes, <1>rows, Sizes DEF Fields, TypeOK

LEMMA TypeCrash ==
    ASSUME TypeOK, RefreshInv, Crash
    PROVE  TypeOK' /\ Len(rows') <= minted'
<1>f. Fields  BY FieldsHold
<1>u. UNCHANGED <<rows, life, minted>>  BY DEF Crash
<1>up. (up \in BOOLEAN)'
  BY <1>f, Sizes DEF Fields, Crash
<1>active. (active \in Active \union {NoToken})'
  BY <1>f, Sizes DEF Fields, Crash
<1>ready. (ready \in BOOLEAN)'
  BY <1>f, Sizes DEF Fields, Crash
<1>since. (since \in 0..MaxCool)'
  BY <1>f, Sizes DEF Fields, Crash
<1>fails. (fails \in 0..MaxFails)'
  BY <1>f, Sizes DEF Fields, Crash
<1>held. (held \in Refreshers \union {NoOne})'
  BY DEF Crash
<1>work. (work \in [Refreshers -> Works])'
  BY RestingType DEF Crash
<1>nap. (nap \in Nat)'
  BY <1>f, Sizes DEF Fields, Crash
<1>sent. (sent \in [Callers -> Sends])'
  BY RestingType DEF Crash
<1>writes. (writes \subseteq Writes)'
  BY <1>f, Sizes DEF Fields, Crash
<1>crashes. (crashes \in 0..MaxCrashes)'
  BY <1>f, Sizes, TimesAssumption DEF Fields, Crash
<1>q. QED BY <1>f, <1>u, <1>up, <1>active, <1>ready, <1>since, <1>fails,
    <1>held, <1>work, <1>nap, <1>sent, <1>writes, <1>crashes, Sizes DEF Fields, TypeOK

LEMMA TypeRestore ==
    ASSUME TypeOK, RefreshInv, NEW i \in DOMAIN rows, Restore(i)
    PROVE  TypeOK' /\ Len(rows') <= minted'
<1>f. Fields  BY FieldsHold
<1>r. rows[i] \in Row /\ i \in 0..MaxMints
  <2>1. Len(rows) \in Nat /\ Len(rows) <= minted /\ minted \in 0..MaxMints
        /\ DOMAIN rows = 1..Len(rows) /\ rows \in Seq(Row)
    BY <1>f DEF Fields
  <2>q. QED BY <2>1, Sizes
<1>b. rows[i].token \in Serials /\ rows[i].budget \in Budgets  BY <1>r DEF Row
<1> DEFINE b == rows[i].budget
           n == IF b.window > 0 THEN b ELSE Budget(Cap, Window)
           a == Managed(rows[i].token, i, n, b)
<1>a. a \in Active  BY <1>r, <1>b, FullType, ManagedType
<1>e. active' = a /\ nap' = Sleep(a, life)  BY DEF Restore
<1>u. UNCHANGED <<since, fails, held, work, sent, rows, writes, life, minted,
    crashes>>  BY DEF Restore
<1>up. (up \in BOOLEAN)'
  BY <1>f, Sizes DEF Fields, Restore
<1>active. (active \in Active \union {NoToken})'
  BY <1>a, <1>e
<1>ready. (ready \in BOOLEAN)'
  BY <1>f, Sizes DEF Fields, Restore
<1>nap. (nap \in Nat)'
  BY <1>f, <1>a, <1>e, SleepType DEF Fields
<1>q. QED BY <1>f, <1>u, <1>up, <1>active, <1>ready, <1>nap, Sizes DEF Fields, TypeOK

LEMMA TypeStartEmpty ==
    ASSUME TypeOK, RefreshInv, StartEmpty
    PROVE  TypeOK' /\ Len(rows') <= minted'
<1>f. Fields  BY FieldsHold
<1>l. minted < MaxMints => [life EXCEPT ![minted + 1] = Life] \in [Serials -> 0..Life] /\ minted + 1 \in Serials
  BY <1>f, Sizes DEF Fields, Serials
<1>a. minted < MaxMints => Installed(minted + 1, 0, 0) \in Active
  BY <1>l, Sizes, InstalledType
<1>r. minted < MaxMints => FreshRow(minted + 1) \in Row  BY <1>l, FreshRowType
<1>u. UNCHANGED <<fails, held, work, sent, writes, crashes>>  BY DEF StartEmpty
<1>up. (up \in BOOLEAN)'
  BY <1>f, Sizes DEF Fields, StartEmpty
<1>minted. (minted \in 0..MaxMints)'
  BY <1>f, <1>l DEF Fields, StartEmpty, Serials
<1>life. (life \in [Serials -> 0..Life])'
  BY <1>f, <1>l DEF Fields, StartEmpty
<1>rows. (rows \in Seq(Row) /\ Len(rows) <= minted)'
  <2>1. (rows' = rows /\ minted' \in {minted, minted + 1})
        \/ (rows' = Append(rows, FreshRow(minted + 1)) /\ minted' = minted + 1 /\ minted < MaxMints)
    BY DEF StartEmpty
  <2>2. rows \in Seq(Row) /\ Len(rows) <= minted /\ minted \in Nat /\ Len(rows) \in Nat
    BY <1>f DEF Fields
  <2>3. minted < MaxMints => /\ Append(rows, FreshRow(minted + 1)) \in Seq(Row)
                             /\ Len(Append(rows, FreshRow(minted + 1))) = Len(rows) + 1
    BY <1>r, <2>2, AppendProperties
  <2>q. QED BY <2>1, <2>2, <2>3
<1>active. (active \in Active \union {NoToken})'
  BY <1>f, <1>a DEF Fields, StartEmpty
<1>ready. (ready \in BOOLEAN)'
  BY <1>f, Sizes DEF Fields, StartEmpty
<1>since. (since \in 0..MaxCool)'
  BY <1>f, Sizes DEF Fields, StartEmpty
<1>nap. (nap \in Nat)'
  BY <1>a, <1>l, SleepType, Sizes DEF StartEmpty
<1>q. QED BY <1>f, <1>u, <1>up, <1>minted, <1>life, <1>rows, <1>active, <1>ready,
    <1>since, <1>nap, Sizes DEF Fields, TypeOK

-----------------------------------------------------------------------------
(* RefreshInv, action by action.                                            *)

LEMMA RefreshTick ==
    ASSUME TypeOK, RefreshInv, Tick
    PROVE  RefreshInv'
<1>f. Fields  BY FieldsHold
<1>t. TypeOK' /\ Len(rows') <= minted'  BY TypeTick
<1>w. ASSUME NEW r \in Refreshers
      PROVE  work'[r].at = work[r].at /\ work'[r].token = work[r].token
  <2>1. work[r] \in Works  BY <1>f DEF Fields
  <2>2. work'[r] = Aged(work[r])  BY DEF Tick
  <2>q. QED BY <2>1, <2>2, AgedType
<1>1. (\A r \in Refreshers : Minting(r) <=> held = r)'
  BY <1>w DEF RefreshInv, Minting, Tick
<1>2. (\A r \in Refreshers : work[r].at = "stored" =>
          work[r].token = minted /\ minted > 0 /\ (active # NoToken => active.token < minted))'
  <2>1. minted' = minted  BY DEF Tick
  <2>2. ASSUME active' # NoToken PROVE active # NoToken /\ active'.token = active.token
    <3>1. active # NoToken  BY <2>2 DEF Tick
    <3>2. active \in Active  BY <1>f, <3>1 DEF Fields
    <3>3. active' = [active EXCEPT !.now = Later(@), !.stored = Later(@)]
      BY <3>1 DEF Tick
    <3>q. QED BY <3>1, <3>2, <3>3 DEF Active
  <2>q. QED BY <1>w, <2>1, <2>2 DEF RefreshInv
<1>3. (active # NoToken => active.token \in 1..minted)'
  BY <1>f, Sizes DEF Fields, RefreshInv, Minting, Tick
<1>4. (Len(rows) <= minted)'
  BY <1>t
<1>5. (\A i \in DOMAIN rows : rows[i].token \in 1..minted)'
  <2>1. ASSUME NEW i \in DOMAIN rows PROVE rows'[i].token = rows[i].token
    <3>1. rows[i] \in Row  BY <1>f DEF Fields
    <3>2. rows'[i] = [rows[i] EXCEPT !.budget = Later(@)]  BY DEF Tick
    <3>q. QED BY <3>1, <3>2 DEF Row
  <2>2. DOMAIN rows' = DOMAIN rows /\ minted' = minted  BY DEF Tick
  <2>q. QED BY <2>1, <2>2 DEF RefreshInv
<1>6. (\A w \in writes : w.row.token \in 1..minted)'
  <2>1. ASSUME NEW w \in writes PROVE [w EXCEPT !.row.budget = Later(@)].row.token =
      w.row.token
    <3>1. w \in Writes /\ w.row \in Row  BY <1>f DEF Fields, Writes
    <3>q. QED BY <3>1 DEF Writes, Row
  <2>2. minted' = minted /\ writes' = {[w EXCEPT !.row.budget = Later(@)] : w \in
      writes}  BY DEF Tick
  <2>3. \A w \in writes : w.row.token \in 1..minted  BY DEF RefreshInv
  <2>q. QED BY <2>1, <2>2, <2>3
<1>7. (held # NoOne => since >= Flat)'
  BY <1>f, Sizes DEF Fields, RefreshInv, Minting, Tick
<1>8. (~up => \A r \in Refreshers : work[r].at = "idle")'
  BY <1>w DEF RefreshInv, Tick
<1>9. (~up => \A c \in Callers : sent[c] = Unsent)'
  BY DEF RefreshInv, Minting, Tick
<1>10. (~up => active = NoToken)'
  BY <1>f, Sizes DEF Fields, RefreshInv, Minting, Tick
<1>q. QED BY <1>1, <1>2, <1>3, <1>4, <1>5, <1>6, <1>7, <1>8, <1>9, <1>10 DEF RefreshInv

LEMMA RefreshLoopWakes ==
    ASSUME TypeOK, RefreshInv, LoopWakes
    PROVE  RefreshInv'
<1>f. Fields  BY FieldsHold
<1>t. TypeOK' /\ Len(rows') <= minted'  BY TypeLoopWakes
<1>n. \A x \in Refreshers : Minting(x)' <=> Minting(x)
  <2>1. [work[Loop] EXCEPT !.at = "called"].at = "called"
    BY <1>f, Sizes DEF Fields, Works
  <2>2. work' = work \/ work' = [work EXCEPT ![Loop] = [work[Loop] EXCEPT !.at = "called"]]
    BY DEF LoopWakes
  <2>3. work[Loop].at = "idle"  BY DEF LoopWakes
  <2>q. QED BY <1>f, <2>1, <2>2, <2>3, Sizes DEF Fields, Minting
<1>s. \A x \in Refreshers : work'[x].at = "stored" => work'[x] = work[x]
  <2>1. [work[Loop] EXCEPT !.at = "called"].at = "called"
    BY <1>f, Sizes DEF Fields, Works
  <2>2. work' = work \/ work' = [work EXCEPT ![Loop] = [work[Loop] EXCEPT !.at = "called"]]
    BY DEF LoopWakes
  <2>q. QED BY <1>f, <2>1, <2>2, Sizes DEF Fields
<1>1. (\A r \in Refreshers : Minting(r) <=> held = r)'
  BY <1>n DEF RefreshInv, LoopWakes
<1>2. (\A r \in Refreshers : work[r].at = "stored" =>
          work[r].token = minted /\ minted > 0 /\ (active # NoToken => active.token < minted))'
  BY <1>s DEF RefreshInv, LoopWakes
<1>3. (active # NoToken => active.token \in 1..minted)'
  BY DEF RefreshInv, Minting, LoopWakes
<1>4. (Len(rows) <= minted)'
  BY <1>t
<1>5. (\A i \in DOMAIN rows : rows[i].token \in 1..minted)'
  BY DEF RefreshInv, Minting, LoopWakes
<1>6. (\A w \in writes : w.row.token \in 1..minted)'
  BY DEF RefreshInv, Minting, LoopWakes
<1>7. (held # NoOne => since >= Flat)'
  BY DEF RefreshInv, Minting, LoopWakes
<1>8. (~up => \A r \in Refreshers : work[r].at = "idle")'
  BY <1>f, Sizes DEF Fields, RefreshInv, Minting, LoopWakes
<1>9. (~up => \A c \in Callers : sent[c] = Unsent)'
  BY DEF RefreshInv, Minting, LoopWakes
<1>10. (~up => active = NoToken)'
  BY DEF RefreshInv, Minting, LoopWakes
<1>q. QED BY <1>1, <1>2, <1>3, <1>4, <1>5, <1>6, <1>7, <1>8, <1>9, <1>10 DEF RefreshInv

LEMMA RefreshBegin ==
    ASSUME TypeOK, RefreshInv, NEW r \in Refreshers, Begin(r)
    PROVE  RefreshInv'
<1>f. Fields  BY FieldsHold
<1>t. TypeOK' /\ Len(rows') <= minted'  BY TypeBegin
<1>a. \/ work' = [work EXCEPT ![r] = Resting] /\ held' = held
      \/ /\ held = NoOne /\ since >= Cool(fails)
         /\ held' = r /\ work' = [work EXCEPT ![r] = [work[r] EXCEPT !.at = "mint"]]
  <2>1. since \in Nat /\ Cool(fails) \in Int
    BY <1>f, Sizes, CoolType DEF Fields
  <2>q. QED BY <2>1 DEF Begin, Returns
<1>b. [work[r] EXCEPT !.at = "mint"].at = "mint"  BY <1>f DEF Fields, Works
<1>c. up /\ work[r].at = "called" /\ held # r
  <2>1. work[r].at = "called"  BY DEF Begin
  <2>q. QED BY <2>1 DEF RefreshInv, Minting
<1>d. Resting.at = "idle"  BY DEF Resting
<1>e. UNCHANGED <<minted, active, up, since>>  BY DEF Begin
<1>1. (\A x \in Refreshers : Minting(x) <=> held = x)'
  <2>0. work \in [Refreshers -> Works] /\ r \in Refreshers  BY <1>f DEF Fields
  <2>1. \A x \in Refreshers : x # r => work'[x] = work[x]
    BY <1>a, <2>0
  <2>2. \/ work'[r].at = "idle" /\ held' = held
        \/ work'[r].at = "mint" /\ held' = r /\ held = NoOne
    BY <1>a, <1>b, <1>d, <2>0
  <2>3. \A x \in Refreshers : Minting(x) <=> held = x  BY DEF RefreshInv
  <2>q. QED BY <1>c, <2>1, <2>2, <2>3, Sizes DEF Minting
<1>2. (\A x \in Refreshers : work[x].at = "stored" =>
          work[x].token = minted /\ minted > 0 /\ (active # NoToken => active.token < minted))'
  BY <1>f, <1>a, <1>b, <1>c, <1>d, <1>e DEF Fields, RefreshInv
<1>3. (active # NoToken => active.token \in 1..minted)'
  BY DEF RefreshInv, Minting, Begin
<1>4. (Len(rows) <= minted)'
  BY <1>t
<1>5. (\A i \in DOMAIN rows : rows[i].token \in 1..minted)'
  BY DEF RefreshInv, Minting, Begin
<1>6. (\A w \in writes : w.row.token \in 1..minted)'
  BY DEF RefreshInv, Minting, Begin
<1>7. (held # NoOne => since >= Flat)'
  <2>1. Cool(fails) \in Int /\ Flat <= Cool(fails) /\ since \in Nat /\ Flat \in Nat
    BY <1>f, CoolType, Sizes DEF Fields
  <2>q. QED BY <1>a, <1>e, <2>1 DEF RefreshInv
<1>8. (~up => \A x \in Refreshers : work[x].at = "idle")'
  BY <1>c, <1>e
<1>9. (~up => \A c \in Callers : sent[c] = Unsent)'
  BY DEF RefreshInv, Minting, Begin
<1>10. (~up => active = NoToken)'
  BY DEF RefreshInv, Minting, Begin
<1>q. QED BY <1>1, <1>2, <1>3, <1>4, <1>5, <1>6, <1>7, <1>8, <1>9, <1>10 DEF RefreshInv

LEMMA RefreshMintFails ==
    ASSUME TypeOK, RefreshInv, NEW r \in Refreshers, MintFails(r)
    PROVE  RefreshInv'
<1>f. Fields  BY FieldsHold
<1>t. TypeOK' /\ Len(rows') <= minted'  BY TypeMintFails
<1>a. work' = [work EXCEPT ![r] = Resting] /\ held' = NoOne  BY DEF MintFails, Returns
<1>b. held = r  BY DEF RefreshInv, MintFails, Minting
<1>d. Resting.at = "idle"  BY DEF Resting
<1>e. UNCHANGED <<minted, active>>  BY DEF MintFails
<1>1. (\A x \in Refreshers : Minting(x) <=> held = x)'
  BY <1>f, <1>a, <1>b, <1>d, Sizes DEF Fields, RefreshInv, Minting
<1>2. (\A x \in Refreshers : work[x].at = "stored" =>
          work[x].token = minted /\ minted > 0 /\ (active # NoToken => active.token < minted))'
  BY <1>f, <1>a, <1>d, <1>e DEF Fields, RefreshInv
<1>3. (active # NoToken => active.token \in 1..minted)'
  BY DEF RefreshInv, Minting, MintFails
<1>4. (Len(rows) <= minted)'
  BY <1>t
<1>5. (\A i \in DOMAIN rows : rows[i].token \in 1..minted)'
  BY DEF RefreshInv, Minting, MintFails
<1>6. (\A w \in writes : w.row.token \in 1..minted)'
  BY DEF RefreshInv, Minting, MintFails
<1>7. (held # NoOne => since >= Flat)'
  BY <1>f, Sizes DEF Fields, RefreshInv, Minting, MintFails
<1>8. (~up => \A x \in Refreshers : work[x].at = "idle")'
  BY <1>f, <1>a, <1>d DEF Fields, RefreshInv, MintFails
<1>9. (~up => \A c \in Callers : sent[c] = Unsent)'
  BY DEF RefreshInv, Minting, MintFails
<1>10. (~up => active = NoToken)'
  BY DEF RefreshInv, Minting, MintFails
<1>q. QED BY <1>1, <1>2, <1>3, <1>4, <1>5, <1>6, <1>7, <1>8, <1>9, <1>10 DEF RefreshInv

LEMMA RefreshMint ==
    ASSUME TypeOK, RefreshInv, NEW r \in Refreshers, Mint(r)
    PROVE  RefreshInv'
<1>f. Fields  BY FieldsHold
<1>t. TypeOK' /\ Len(rows') <= minted'  BY TypeMint
<1>n. minted' = minted + 1 /\ minted \in Nat  BY <1>f DEF Mint, Fields
<1>1. (\A x \in Refreshers : Minting(x) <=> held = x)'
  BY <1>f, Sizes DEF Fields, RefreshInv, Minting, Mint
<1>2. (\A x \in Refreshers : work[x].at = "stored" =>
          work[x].token = minted /\ minted > 0 /\ (active # NoToken => active.token < minted))'
  <2>1. \A x \in Refreshers : x # r => work[x].at # "stored" /\ work'[x] = work[x]
    BY <1>f DEF RefreshInv, Mint, Minting, Fields
  <2>2. work'[r].token = minted + 1 /\ active' = active  BY <1>f DEF Mint, Fields
  <2>3. active # NoToken => active.token \in 1..minted  BY DEF RefreshInv
  <2>q. QED BY <1>n, <2>1, <2>2, <2>3
<1>3. (active # NoToken => active.token \in 1..minted)'
  BY <1>f, Sizes DEF Fields, RefreshInv, Minting, Mint
<1>4. (Len(rows) <= minted)'
  BY <1>t
<1>5. (\A i \in DOMAIN rows : rows[i].token \in 1..minted)'
  <2>1. rows' = rows \/ rows' = Append(rows, FreshRow(minted + 1))  BY DEF Mint
  <2>2. FreshRow(minted + 1).token = minted + 1  BY DEF FreshRow
  <2>3. rows \in Seq(Row)  BY <1>f DEF Fields
  <2>4. \A i \in DOMAIN rows : rows[i].token \in 1..minted  BY DEF RefreshInv
  <2>q. QED BY <1>n, <2>1, <2>2, <2>3, <2>4, AppendProperties
<1>6. (\A w \in writes : w.row.token \in 1..minted)'
  BY <1>f, Sizes DEF Fields, RefreshInv, Minting, Mint
<1>7. (held # NoOne => since >= Flat)'
  BY DEF RefreshInv, Minting, Mint
<1>8. (~up => \A x \in Refreshers : work[x].at = "idle")'
  BY <1>f, Sizes DEF Fields, RefreshInv, Minting, Mint
<1>9. (~up => \A c \in Callers : sent[c] = Unsent)'
  BY DEF RefreshInv, Minting, Mint
<1>10. (~up => active = NoToken)'
  BY DEF RefreshInv, Minting, Mint
<1>q. QED BY <1>1, <1>2, <1>3, <1>4, <1>5, <1>6, <1>7, <1>8, <1>9, <1>10 DEF RefreshInv

LEMMA RefreshInstall ==
    ASSUME TypeOK, RefreshInv, NEW r \in Refreshers, Install(r)
    PROVE  RefreshInv'
<1>f. Fields  BY FieldsHold
<1>t. TypeOK' /\ Len(rows') <= minted'  BY TypeInstall
<1>a. /\ work' = [work EXCEPT ![r] = Resting] /\ held' = NoOne /\ minted' = minted
      /\ active' = Installed(work[r].token, work[r].id, work[r].age)
  BY DEF Install, Returns
<1>b. held = r /\ work[r].token = minted /\ minted > 0  BY DEF RefreshInv, Install,
    Minting
<1>c. active'.token = minted  BY <1>a, <1>b DEF Installed, Managed
<1>d. Resting.at = "idle"  BY DEF Resting
<1>1. (\A x \in Refreshers : Minting(x) <=> held = x)'
  BY <1>f, <1>a, <1>b, <1>d, Sizes DEF Fields, RefreshInv, Minting
<1>2. (\A x \in Refreshers : work[x].at = "stored" =>
          work[x].token = minted /\ minted > 0 /\ (active # NoToken => active.token < minted))'
  BY <1>f, <1>a, <1>b, <1>d DEF Fields, RefreshInv, Minting
<1>3. (active # NoToken => active.token \in 1..minted)'
  BY <1>f, <1>a, <1>b, <1>c DEF Fields
<1>4. (Len(rows) <= minted)'
  BY <1>t
<1>5. (\A i \in DOMAIN rows : rows[i].token \in 1..minted)'
  BY DEF RefreshInv, Minting, Install
<1>6. (\A w \in writes : w.row.token \in 1..minted)'
  BY DEF RefreshInv, Minting, Install
<1>7. (held # NoOne => since >= Flat)'
  BY <1>f, Sizes DEF Fields, RefreshInv, Minting, Install
<1>8. (~up => \A x \in Refreshers : work[x].at = "idle")'
  BY <1>f, <1>a, <1>d DEF Fields, RefreshInv, Install
<1>9. (~up => \A c \in Callers : sent[c] = Unsent)'
  BY DEF RefreshInv, Minting, Install
<1>10. (~up => active = NoToken)'
  <2>1. up /\ up' = up  BY DEF RefreshInv, Install
  <2>q. QED BY <2>1
<1>q. QED BY <1>1, <1>2, <1>3, <1>4, <1>5, <1>6, <1>7, <1>8, <1>9, <1>10 DEF RefreshInv

LEMMA RefreshAsk ==
    ASSUME TypeOK, RefreshInv, NEW c \in Callers, Ask(c)
    PROVE  RefreshInv'
<1>f. Fields  BY FieldsHold
<1>t. TypeOK' /\ Len(rows') <= minted'  BY TypeAsk
<1>w. work' = work \/ work' = Kicked(work)  BY DEF Ask
<1>k. work \in [Refreshers -> Works]  BY <1>f DEF Fields
<1>n. \A x \in Refreshers : Minting(x)' <=> Minting(x)  BY <1>w, <1>k, KickedMinting DEF
    Minting
<1>s. \A x \in Refreshers : work'[x].at = "stored" => work'[x] = work[x]
  BY <1>w, <1>k, KickedMinting
<1>a. /\ active = NoToken => active' = NoToken /\ writes' = writes
      /\ active # NoToken => active'.token = active.token /\ active' \in Active
  <2>1. active # NoToken => active \in Active  BY <1>f DEF Fields
  <2>q. QED BY <2>1, ReplenishedType DEF Ask
<1>p. writes' = writes \/ \E a \in Active : a.token = active.token /\ writes' = Persisted(a)
  <2>1. CASE active = NoToken  BY <2>1, <1>a
  <2>2. CASE active # NoToken
    <3>1. active \in Active  BY <1>f, <2>2 DEF Fields
    <3>2. Replenished(active) \in Active /\ Replenished(active).token = active.token
      BY <3>1, ReplenishedType
    <3>3. writes' \in {writes, Persisted(active), Persisted(Replenished(active))}
      BY DEF Ask
    <3>q. QED BY <3>1, <3>2, <3>3
  <2>q. QED BY <2>1, <2>2
<1>e. UNCHANGED <<held, minted, up, rows>>  BY DEF Ask
<1>1. (\A r \in Refreshers : Minting(r) <=> held = r)'
  BY <1>n, <1>e DEF RefreshInv
<1>2. (\A r \in Refreshers : work[r].at = "stored" =>
          work[r].token = minted /\ minted > 0 /\ (active # NoToken => active.token < minted))'
  BY <1>s, <1>a, <1>e DEF RefreshInv
<1>3. (active # NoToken => active.token \in 1..minted)'
  BY <1>a, <1>e DEF RefreshInv
<1>4. (Len(rows) <= minted)'
  BY <1>t
<1>5. (\A i \in DOMAIN rows : rows[i].token \in 1..minted)'
  BY DEF RefreshInv, Minting, Ask
<1>6. (\A w \in writes : w.row.token \in 1..minted)'
  <2>1. CASE active = NoToken  BY <1>a, <1>e, <2>1 DEF RefreshInv
  <2>2. CASE active # NoToken
    <3>1. active.token \in 1..minted  BY <2>2 DEF RefreshInv
    <3>q. QED BY <1>p, <1>e, <3>1 DEF RefreshInv, Persisted
  <2>q. QED BY <2>1, <2>2
<1>7. (held # NoOne => since >= Flat)'
  BY DEF RefreshInv, Minting, Ask
<1>8. (~up => \A r \in Refreshers : work[r].at = "idle")'
  BY <1>e DEF RefreshInv, Ask
<1>9. (~up => \A x \in Callers : sent[x] = Unsent)'
  BY <1>f, Sizes DEF Fields, RefreshInv, Minting, Ask
<1>10. (~up => active = NoToken)'
  BY DEF Ask
<1>q. QED BY <1>1, <1>2, <1>3, <1>4, <1>5, <1>6, <1>7, <1>8, <1>9, <1>10 DEF RefreshInv

LEMMA RefreshComplete ==
    ASSUME TypeOK, RefreshInv, NEW c \in Callers, NEW headers \in Answers, NEW refused
        \in BOOLEAN, Complete(c, headers, refused)
    PROVE  RefreshInv'
<1>f. Fields  BY FieldsHold
<1>t. TypeOK' /\ Len(rows') <= minted'  BY TypeComplete
<1> DEFINE a == Noted(active, headers)
           one == IF active # NoToken /\ active.id = sent[c].id /\ a.now.left < Low
                  THEN Kicked(work) ELSE work
<1>k. work \in [Refreshers -> Works]  BY <1>f DEF Fields
<1>o. one \in [Refreshers -> Works] /\ Kicked(one) \in [Refreshers -> Works]
  BY <1>k, KickedType
<1>w. work' = one \/ work' = Kicked(one)  BY DEF Complete
<1>x. \A x \in Refreshers : /\ one[x].at \in {"mint", "stored"} <=> work[x].at \in {"mint", "stored"}
                            /\ one[x].at \in {"mint", "stored"} => one[x] = work[x]
  BY <1>k, KickedMinting
<1>n. \A x \in Refreshers : Minting(x)' <=> Minting(x)
  BY <1>w, <1>o, <1>x, KickedMinting DEF Minting
<1>s. \A x \in Refreshers : work'[x].at = "stored" => work'[x] = work[x]
  BY <1>w, <1>o, <1>x, KickedMinting
<1>a. /\ active = NoToken => active' = NoToken /\ writes' = writes
      /\ active # NoToken => active'.token = active.token /\ active' \in Active
  <2>1. active # NoToken => active \in Active  BY <1>f DEF Fields
  <2>2. active # NoToken => a \in Active /\ a.token = active.token  BY <2>1, NotedType
  <2>q. QED BY <2>1, <2>2 DEF Complete
<1>p. writes' = writes \/ \E b \in Active : b.token = active.token /\ writes' = Persisted(b)
  <2>1. CASE active = NoToken  BY <2>1, <1>a
  <2>2. CASE active # NoToken
    <3>1. active \in Active  BY <1>f, <2>2 DEF Fields
    <3>2. a \in Active /\ a.token = active.token  BY <3>1, NotedType
    <3>3. writes' \in {writes, Persisted(a)}  BY DEF Complete
    <3>q. QED BY <3>2, <3>3
  <2>q. QED BY <2>1, <2>2
<1>e. UNCHANGED <<held, minted, up, rows>>  BY DEF Complete
<1>u. up
  <2>1. sent[c] # Unsent  BY DEF Complete
  <2>q. QED BY <2>1 DEF RefreshInv
<1>1. (\A r \in Refreshers : Minting(r) <=> held = r)'
  BY <1>n, <1>e DEF RefreshInv
<1>2. (\A r \in Refreshers : work[r].at = "stored" =>
          work[r].token = minted /\ minted > 0 /\ (active # NoToken => active.token < minted))'
  BY <1>s, <1>a, <1>e DEF RefreshInv
<1>3. (active # NoToken => active.token \in 1..minted)'
  BY <1>a, <1>e DEF RefreshInv
<1>4. (Len(rows) <= minted)'
  BY <1>t
<1>5. (\A i \in DOMAIN rows : rows[i].token \in 1..minted)'
  BY DEF RefreshInv, Minting, Complete
<1>6. (\A w \in writes : w.row.token \in 1..minted)'
  <2>1. CASE active = NoToken  BY <1>a, <1>e, <2>1 DEF RefreshInv
  <2>2. CASE active # NoToken
    <3>1. active.token \in 1..minted  BY <2>2 DEF RefreshInv
    <3>q. QED BY <1>p, <1>e, <3>1 DEF RefreshInv, Persisted
  <2>q. QED BY <2>1, <2>2
<1>7. (held # NoOne => since >= Flat)'
  BY DEF RefreshInv, Minting, Complete
<1>8. (~up => \A r \in Refreshers : work[r].at = "idle")'
  BY <1>e, <1>u DEF RefreshInv
<1>9. (~up => \A x \in Callers : sent[x] = Unsent)'
  <2>1. sent[c] # Unsent  BY DEF Complete
  <2>2. up' = up  BY DEF Complete
  <2>q. QED BY <2>1, <2>2 DEF RefreshInv
<1>10. (~up => active = NoToken)'
  BY <1>u DEF Complete
<1>q. QED BY <1>1, <1>2, <1>3, <1>4, <1>5, <1>6, <1>7, <1>8, <1>9, <1>10 DEF RefreshInv

LEMMA RefreshDropped ==
    ASSUME TypeOK, RefreshInv, NEW c \in Callers, Dropped(c)
    PROVE  RefreshInv'
<1>f. Fields  BY FieldsHold
<1>t. TypeOK' /\ Len(rows') <= minted'  BY TypeDropped
<1>1. (\A r \in Refreshers : Minting(r) <=> held = r)'
  BY DEF RefreshInv, Minting, Dropped
<1>2. (\A r \in Refreshers : work[r].at = "stored" =>
          work[r].token = minted /\ minted > 0 /\ (active # NoToken => active.token < minted))'
  BY DEF RefreshInv, Minting, Dropped
<1>3. (active # NoToken => active.token \in 1..minted)'
  BY DEF RefreshInv, Minting, Dropped
<1>4. (Len(rows) <= minted)'
  BY <1>t
<1>5. (\A i \in DOMAIN rows : rows[i].token \in 1..minted)'
  BY DEF RefreshInv, Minting, Dropped
<1>6. (\A w \in writes : w.row.token \in 1..minted)'
  BY DEF RefreshInv, Minting, Dropped
<1>7. (held # NoOne => since >= Flat)'
  BY DEF RefreshInv, Minting, Dropped
<1>8. (~up => \A r \in Refreshers : work[r].at = "idle")'
  BY DEF RefreshInv, Minting, Dropped
<1>9. (~up => \A x \in Callers : sent[x] = Unsent)'
  <2>1. sent[c] # Unsent  BY DEF Dropped
  <2>2. up' = up  BY DEF Dropped
  <2>q. QED BY <2>1, <2>2 DEF RefreshInv
<1>10. (~up => active = NoToken)'
  BY DEF RefreshInv, Minting, Dropped
<1>q. QED BY <1>1, <1>2, <1>3, <1>4, <1>5, <1>6, <1>7, <1>8, <1>9, <1>10 DEF RefreshInv

LEMMA RefreshWrite ==
    ASSUME TypeOK, RefreshInv, NEW w \in writes, Write(w)
    PROVE  RefreshInv'
<1>f. Fields  BY FieldsHold
<1>t. TypeOK' /\ Len(rows') <= minted'  BY TypeWrite
<1>1. (\A r \in Refreshers : Minting(r) <=> held = r)'
  BY DEF RefreshInv, Minting, Write
<1>2. (\A r \in Refreshers : work[r].at = "stored" =>
          work[r].token = minted /\ minted > 0 /\ (active # NoToken => active.token < minted))'
  BY DEF RefreshInv, Minting, Write
<1>3. (active # NoToken => active.token \in 1..minted)'
  BY DEF RefreshInv, Minting, Write
<1>4. (Len(rows) <= minted)'
  BY <1>t
<1>5. (\A i \in DOMAIN rows : rows[i].token \in 1..minted)'
  BY <1>f, Sizes DEF Fields, RefreshInv, Minting, Write
<1>6. (\A x \in writes : x.row.token \in 1..minted)'
  BY <1>f, Sizes DEF Fields, RefreshInv, Minting, Write
<1>7. (held # NoOne => since >= Flat)'
  BY DEF RefreshInv, Minting, Write
<1>8. (~up => \A r \in Refreshers : work[r].at = "idle")'
  BY DEF RefreshInv, Minting, Write
<1>9. (~up => \A c \in Callers : sent[c] = Unsent)'
  BY DEF RefreshInv, Minting, Write
<1>10. (~up => active = NoToken)'
  BY DEF RefreshInv, Minting, Write
<1>q. QED BY <1>1, <1>2, <1>3, <1>4, <1>5, <1>6, <1>7, <1>8, <1>9, <1>10 DEF RefreshInv

LEMMA RefreshCrash ==
    ASSUME TypeOK, RefreshInv, Crash
    PROVE  RefreshInv'
<1>f. Fields  BY FieldsHold
<1>t. TypeOK' /\ Len(rows') <= minted'  BY TypeCrash
<1>a. work' = [x \in Refreshers |-> Resting] /\ held' = NoOne /\ active' = NoToken  BY
    DEF Crash
<1>d. Resting.at = "idle"  BY DEF Resting
<1>1. (\A r \in Refreshers : Minting(r) <=> held = r)'
  BY <1>a, <1>d, Sizes DEF Minting
<1>2. (\A r \in Refreshers : work[r].at = "stored" =>
          work[r].token = minted /\ minted > 0 /\ (active # NoToken => active.token < minted))'
  BY <1>a, <1>d
<1>3. (active # NoToken => active.token \in 1..minted)'
  BY <1>f, Sizes DEF Fields, RefreshInv, Minting, Crash
<1>4. (Len(rows) <= minted)'
  BY <1>t
<1>5. (\A i \in DOMAIN rows : rows[i].token \in 1..minted)'
  BY DEF RefreshInv, Minting, Crash
<1>6. (\A w \in writes : w.row.token \in 1..minted)'
  BY <1>f, Sizes DEF Fields, RefreshInv, Minting, Crash
<1>7. (held # NoOne => since >= Flat)'
  BY <1>f, Sizes DEF Fields, RefreshInv, Minting, Crash
<1>8. (~up => \A r \in Refreshers : work[r].at = "idle")'
  BY <1>a, <1>d
<1>9. (~up => \A c \in Callers : sent[c] = Unsent)'
  BY <1>f, Sizes DEF Fields, RefreshInv, Minting, Crash
<1>10. (~up => active = NoToken)'
  BY <1>f, Sizes DEF Fields, RefreshInv, Minting, Crash
<1>q. QED BY <1>1, <1>2, <1>3, <1>4, <1>5, <1>6, <1>7, <1>8, <1>9, <1>10 DEF RefreshInv

LEMMA RefreshRestore ==
    ASSUME TypeOK, RefreshInv, NEW i \in DOMAIN rows, Restore(i)
    PROVE  RefreshInv'
<1>f. Fields  BY FieldsHold
<1>t. TypeOK' /\ Len(rows') <= minted'  BY TypeRestore
<1>a. active' # NoToken => active'.token = rows[i].token  BY DEF Restore, Managed
<1>1. (\A r \in Refreshers : Minting(r) <=> held = r)'
  BY DEF RefreshInv, Minting, Restore
<1>2. (\A r \in Refreshers : work[r].at = "stored" =>
          work[r].token = minted /\ minted > 0 /\ (active # NoToken => active.token < minted))'
  BY <1>f, Sizes DEF Fields, RefreshInv, Minting, Restore
<1>3. (active # NoToken => active.token \in 1..minted)'
  BY <1>a DEF RefreshInv, Restore
<1>4. (Len(rows) <= minted)'
  BY <1>t
<1>5. (\A x \in DOMAIN rows : rows[x].token \in 1..minted)'
  BY DEF RefreshInv, Minting, Restore
<1>6. (\A w \in writes : w.row.token \in 1..minted)'
  BY DEF RefreshInv, Minting, Restore
<1>7. (held # NoOne => since >= Flat)'
  BY DEF RefreshInv, Minting, Restore
<1>8. (~up => \A r \in Refreshers : work[r].at = "idle")'
  BY <1>f, Sizes DEF Fields, RefreshInv, Minting, Restore
<1>9. (~up => \A c \in Callers : sent[c] = Unsent)'
  BY <1>f, Sizes DEF Fields, RefreshInv, Minting, Restore
<1>10. (~up => active = NoToken)'
  BY DEF Restore
<1>q. QED BY <1>1, <1>2, <1>3, <1>4, <1>5, <1>6, <1>7, <1>8, <1>9, <1>10 DEF RefreshInv

LEMMA RefreshStartEmpty ==
    ASSUME TypeOK, RefreshInv, StartEmpty
    PROVE  RefreshInv'
<1>f. Fields  BY FieldsHold
<1>t. TypeOK' /\ Len(rows') <= minted'  BY TypeStartEmpty
<1>a. \/ active' = active /\ minted' = minted
      \/ minted' = minted + 1 /\ active'.token = minted + 1
  BY DEF StartEmpty, Installed, Managed
<1>n. minted \in Nat /\ minted' \in {minted, minted + 1}  BY <1>f DEF Fields, StartEmpty
<1>1. (\A r \in Refreshers : Minting(r) <=> held = r)'
  BY DEF RefreshInv, Minting, StartEmpty
<1>2. (\A r \in Refreshers : work[r].at = "stored" =>
          work[r].token = minted /\ minted > 0 /\ (active # NoToken => active.token < minted))'
  BY <1>f, Sizes DEF Fields, RefreshInv, Minting, StartEmpty
<1>3. (active # NoToken => active.token \in 1..minted)'
  BY <1>a, <1>n DEF RefreshInv
<1>4. (Len(rows) <= minted)'
  BY <1>t
<1>5. (\A i \in DOMAIN rows : rows[i].token \in 1..minted)'
  <2>1. rows' = rows \/ (rows' = Append(rows, FreshRow(minted + 1)) /\ minted' = minted + 1)
    BY DEF StartEmpty
  <2>2. FreshRow(minted + 1).token = minted + 1  BY DEF FreshRow
  <2>3. rows \in Seq(Row)  BY <1>f DEF Fields
  <2>4. \A i \in DOMAIN rows : rows[i].token \in 1..minted  BY DEF RefreshInv
  <2>q. QED BY <1>n, <2>1, <2>2, <2>3, <2>4, AppendProperties
<1>6. (\A w \in writes : w.row.token \in 1..minted)'
  BY <1>f, Sizes DEF Fields, RefreshInv, Minting, StartEmpty
<1>7. (held # NoOne => since >= Flat)'
  BY <1>f, Sizes DEF Fields, RefreshInv, Minting, StartEmpty
<1>8. (~up => \A r \in Refreshers : work[r].at = "idle")'
  BY <1>f, Sizes DEF Fields, RefreshInv, Minting, StartEmpty
<1>9. (~up => \A c \in Callers : sent[c] = Unsent)'
  BY <1>f, Sizes DEF Fields, RefreshInv, Minting, StartEmpty
<1>10. (~up => active = NoToken)'
  BY DEF StartEmpty
<1>q. QED BY <1>1, <1>2, <1>3, <1>4, <1>5, <1>6, <1>7, <1>8, <1>9, <1>10 DEF RefreshInv

-----------------------------------------------------------------------------
IInv == TypeOK /\ RefreshInv /\ ReadyMeansToken

LEMMA InitInv == Init => IInv
<1> SUFFICES ASSUME Init PROVE IInv  OBVIOUS
<1>1. TypeOK
  <2>1. rows \in Seq(Row) /\ Len(rows) = 0  BY EmptySeq DEF Init
  <2>2. work \in [Refreshers -> Works] /\ sent \in [Callers -> Sends]  BY RestingType
      DEF Init
  <2>3. life \in [Serials -> 0..Life] /\ writes \subseteq Writes /\ nap \in Nat
    BY Sizes DEF Init
  <2>7. up \in BOOLEAN /\ ready \in BOOLEAN  BY DEF Init
  <2>4. /\ active \in Active \union {NoToken}
        /\ since \in 0..MaxCool /\ fails \in 0..MaxFails
        /\ held \in Refreshers \union {NoOne}
    BY Sizes DEF Init
  <2>5. MaxCrashes \in Nat  BY TimesAssumption
  <2>6. minted \in 0..MaxMints /\ crashes \in 0..MaxCrashes  BY <2>5, Sizes DEF Init
  <2>q. QED BY <2>1, <2>2, <2>3, <2>4, <2>6, <2>7, Sizes DEF TypeOK
<1>2. RefreshInv
  BY Sizes, EmptySeq DEF Init, RefreshInv, Minting, Resting
<1>q. QED BY <1>1, <1>2 DEF Init, IInv, ReadyMeansToken

\* No step of a running process loses the token.
LEMMA ReadyStep == ASSUME TypeOK, RefreshInv, ReadyMeansToken, Next PROVE ReadyMeansToken'
<1>f. Fields  BY FieldsHold
<1>a. active # NoToken => active \in Active  BY <1>f DEF Fields
<1>1. CASE Tick
  <2>1. ASSUME active # NoToken PROVE active' # NoToken
    <3>1. Later(active.now) \in Budgets /\ Later(active.stored) \in Budgets
      BY <1>a, <2>1, ActiveFields, LaterType
    <3>2. [active EXCEPT !.now = Later(@), !.stored = Later(@)] \in Active
      BY <1>a, <2>1, <3>1 DEF Active
    <3>q. QED BY <1>1, <2>1, <3>2, NoTokenAssumption DEF Tick
  <2>q. QED BY <1>1, <2>1 DEF Tick, ReadyMeansToken
<1>2. ASSUME NEW r \in Refreshers, Begin(r) \/ MintFails(r) \/ Mint(r) PROVE
    ReadyMeansToken'
  BY <1>2 DEF Begin, MintFails, Mint, ReadyMeansToken
<1>3. ASSUME NEW r \in Refreshers, Install(r) PROVE ReadyMeansToken'
  <2>1. work[r].token \in Serials /\ work[r].id \in 0..MaxMints
    <3>1. work[r] \in Works /\ minted \in 0..MaxMints  BY <1>f DEF Fields
    <3>2. work[r].token = minted /\ minted > 0  BY <1>3 DEF RefreshInv, Install
    <3>q. QED BY <3>1, <3>2, Sizes DEF Works, Serials
  <2>3. work[r].age \in Nat  BY <1>f, Sizes DEF Fields, Works, MaxAge
  <2>2. active' \in Active  BY <1>3, <2>1, <2>3, InstalledType DEF Install
  <2>q. QED BY <1>3, <2>2, NoTokenAssumption DEF Install, ReadyMeansToken
<1>4. ASSUME NEW c \in Callers, Ask(c) PROVE ReadyMeansToken'
  <2>1. active # NoToken => Replenished(active) # NoToken
    BY <1>a, ReplenishedType, NoTokenAssumption
  <2>q. QED BY <1>4, <2>1 DEF Ask, ReadyMeansToken
<1>5. ASSUME NEW c \in Callers, NEW h \in Answers, NEW x \in BOOLEAN, Complete(c, h, x)
      PROVE  ReadyMeansToken'
  <2>1. active # NoToken => Noted(active, h) # NoToken
    BY <1>a, NotedType, NoTokenAssumption
  <2>2. ready' = ready /\ (active' = active \/ (active # NoToken /\ active' = Noted(active, h)))
    BY <1>5 DEF Complete
  <2>q. QED BY <2>1, <2>2 DEF ReadyMeansToken
<1>6. ASSUME LoopWakes \/ (\E c \in Callers : Dropped(c)) \/ (\E w \in writes : Write(w))
      PROVE  ReadyMeansToken'
  BY <1>6 DEF LoopWakes, Dropped, Write, ReadyMeansToken
<1>7. CASE Crash  BY <1>7 DEF Crash, ReadyMeansToken
<1>8. ASSUME NEW i \in DOMAIN rows, Restore(i) PROVE ReadyMeansToken'
  <2>1. active' \in Active \union {NoToken}
    <3>1. TypeOK'  BY <1>8, TypeRestore
    <3>q. QED BY <3>1 DEF TypeOK
  <2>2. active'.token = rows[i].token /\ active' = Managed(rows[i].token, i,
              IF rows[i].budget.window > 0 THEN rows[i].budget ELSE Budget(Cap, Window),
              rows[i].budget)
    BY <1>8 DEF Restore, Managed
  <2>3. i \in 0..MaxMints /\ rows[i].token \in Serials /\ rows[i].budget \in Budgets
    <3>1. Len(rows) \in Nat /\ Len(rows) <= minted /\ minted \in 0..MaxMints
          /\ DOMAIN rows = 1..Len(rows) /\ rows \in Seq(Row)
      BY <1>f DEF Fields
    <3>2. rows[i] \in Row /\ i \in 0..MaxMints  BY <3>1, Sizes
    <3>q. QED BY <3>2 DEF Row
  <2>4. active' \in Active  BY <2>2, <2>3, FullType, ManagedType
  <2>q. QED BY <1>8, <2>4, NoTokenAssumption DEF Restore, ReadyMeansToken
<1>9. CASE StartEmpty
  <2>1. ASSUME minted < MaxMints PROVE Installed(minted + 1, 0, 0) # NoToken
    <3>1. minted + 1 \in Serials  BY <1>f, <2>1, Sizes DEF Fields, Serials
    <3>2. Installed(minted + 1, 0, 0) \in Active
      BY <3>1, Sizes, InstalledType
    <3>q. QED BY <3>2, NoTokenAssumption
  <2>q. QED BY <1>9, <2>1 DEF StartEmpty, ReadyMeansToken
<1>q. QED BY <1>1, <1>2, <1>3, <1>4, <1>5, <1>6, <1>7, <1>8, <1>9 DEF Next, RefreshStep,
    RequestStep

\* The lemmas of each action, put together.
LEMMA NextInv == IInv /\ [Next]_vars => IInv'
<1> SUFFICES ASSUME IInv, [Next]_vars PROVE IInv'  OBVIOUS
<1>i. TypeOK /\ RefreshInv /\ ReadyMeansToken  BY DEF IInv
<1>1. ASSUME Next PROVE TypeOK' /\ RefreshInv'
  <2>1. CASE Tick \/ LoopWakes \/ Crash \/ StartEmpty
    BY <1>i, <2>1, TypeTick, TypeLoopWakes, TypeCrash, TypeStartEmpty,
       RefreshTick, RefreshLoopWakes, RefreshCrash, RefreshStartEmpty
  <2>2. ASSUME NEW r \in Refreshers, Begin(r) \/ MintFails(r) \/ Mint(r) \/ Install(r)
        PROVE  TypeOK' /\ RefreshInv'
    BY <1>i, <2>2, TypeBegin, TypeMintFails, TypeMint, TypeInstall,
       RefreshBegin, RefreshMintFails, RefreshMint, RefreshInstall
  <2>3. ASSUME NEW c \in Callers, Ask(c) \/ Dropped(c) PROVE TypeOK' /\ RefreshInv'
    BY <1>i, <2>3, TypeAsk, TypeDropped, RefreshAsk, RefreshDropped
  <2>4. ASSUME NEW c \in Callers, NEW h \in Answers, NEW x \in BOOLEAN, Complete(c, h, x)
        PROVE  TypeOK' /\ RefreshInv'
    BY <1>i, <2>4, TypeComplete, RefreshComplete
  <2>5. ASSUME NEW w \in writes, Write(w) PROVE TypeOK' /\ RefreshInv'
    BY <1>i, <2>5, TypeWrite, RefreshWrite
  <2>6. ASSUME NEW i \in DOMAIN rows, Restore(i) PROVE TypeOK' /\ RefreshInv'
    BY <1>i, <2>6, TypeRestore, RefreshRestore
  <2>q. QED BY <1>1, <2>1, <2>2, <2>3, <2>4, <2>5, <2>6 DEF Next, RefreshStep, RequestStep
<1>2. ASSUME Next PROVE ReadyMeansToken'  BY <1>i, <1>2, ReadyStep
<1>3. CASE UNCHANGED vars
  BY <1>i, <1>3 DEF vars, IInv, TypeOK, RefreshInv, Minting, ReadyMeansToken
<1>q. QED BY <1>1, <1>2, <1>3 DEF IInv

\* Types, the lock, the rows and the signal of TokenHolder, in every state.
THEOREM Invariance == Spec => []IInv
BY InitInv, NextInv, PTL DEF Spec

\* tokenReady is closed exactly while a token is installed, for any number of
\* refreshers and callers.
THEOREM ReadySignal == Spec => []ReadyMeansToken
<1>1. IInv => ReadyMeansToken  BY DEF IInv
<1>q. QED BY Invariance, <1>1, PTL

\* What each action does to the active token's serial.
LEMMA SerialStep ==
    ASSUME IInv, Next, active # NoToken, active' # NoToken
    PROVE  \/ active'.token = active.token
           \/ active'.token > active.token /\ since >= Flat
<1>i. TypeOK /\ RefreshInv  BY DEF IInv
<1>f. Fields  BY <1>i, FieldsHold
<1>a. active \in Active  BY <1>f DEF Fields
<1>u. up
  <2>1. ~up => active = NoToken  BY <1>i DEF RefreshInv
  <2>q. QED BY <2>1
<1>1. CASE Tick
  <2>1. Later(active.now) \in Budgets /\ Later(active.stored) \in Budgets
    BY <1>a, ActiveFields, LaterType
  <2>2. [active EXCEPT !.now = Later(@), !.stored = Later(@)].token = active.token
    BY <1>a DEF Active
  <2>q. QED BY <1>1, <2>2 DEF Tick
<1>2. ASSUME NEW r \in Refreshers, Begin(r) \/ MintFails(r) \/ Mint(r)
      PROVE  active'.token = active.token
  BY <1>2 DEF Begin, MintFails, Mint
<1>3. ASSUME NEW r \in Refreshers, Install(r)
      PROVE  active'.token > active.token /\ since >= Flat
  <2>1. work[r].token = minted /\ active.token < minted /\ held = r
    BY <1>i, <1>3 DEF RefreshInv, Install, Minting
  <2>2. active'.token = work[r].token  BY <1>3 DEF Install, Installed, Managed
  <2>3. since >= Flat  BY <1>i, <2>1, Sizes DEF RefreshInv
  <2>4. minted \in Int /\ active.token \in Int  BY <1>f, <1>a DEF Fields, Active, Serials
  <2>q. QED BY <2>1, <2>2, <2>3, <2>4
<1>4. ASSUME NEW c \in Callers, Ask(c) \/ Dropped(c) PROVE active'.token = active.token
  BY <1>a, <1>4, ReplenishedType DEF Ask, Dropped
<1>5. ASSUME NEW c \in Callers, NEW h \in Answers, NEW x \in BOOLEAN, Complete(c, h, x)
      PROVE  active'.token = active.token
  BY <1>a, <1>5, NotedType DEF Complete
<1>6. ASSUME NEW w \in writes, Write(w) PROVE active'.token = active.token
  BY <1>6 DEF Write
<1>7. CASE Crash  BY <1>7 DEF Crash
<1>8. ASSUME StartEmpty \/ \E i \in DOMAIN rows : Restore(i) PROVE FALSE
  BY <1>u, <1>8 DEF StartEmpty, Restore
<1>9. CASE LoopWakes  BY <1>9 DEF LoopWakes
<1>q. QED BY <1>1, <1>2, <1>3, <1>4, <1>5, <1>6, <1>7, <1>8, <1>9 DEF Next, RefreshStep,
    RequestStep

\* A running process never installs an older token over a newer one, however
\* many refreshers were kicked off.
THEOREM NewestStays == Spec => NewestWins
<1>1. IInv /\ [Next]_vars =>
          [active # NoToken /\ active' # NoToken => active'.token >= active.token]_vars
  <2> SUFFICES ASSUME IInv, Next, active # NoToken, active' # NoToken
               PROVE  active'.token >= active.token
    BY DEF vars
  <2>1. active \in Active  BY DEF IInv, TypeOK
  <2>2. active' \in Active
    <3>1. IInv'  BY NextInv
    <3>q. QED BY <3>1 DEF IInv, TypeOK
  <2>3. active.token \in Int /\ active'.token \in Int  BY <2>1, <2>2 DEF Active, Serials
  <2>4. active'.token = active.token \/ active'.token > active.token  BY SerialStep
  <2>q. QED BY <2>3, <2>4
<1>q. QED BY Invariance, <1>1, PTL DEF Spec, NewestWins

\* An install comes at least the flat cooldown after the date of the last one.
THEOREM SpacedInstalls == Spec => InstallsSpaced
<1>1. IInv /\ [Next]_vars =>
          [(active' # NoToken /\ up /\ (active = NoToken \/ active'.token # active.token))
              => since >= Flat]_vars
  <2> SUFFICES ASSUME IInv, Next, active' # NoToken, up,
                      active = NoToken \/ active'.token # active.token
               PROVE  since >= Flat
    BY DEF vars
  <2>1. CASE active # NoToken  BY <2>1, SerialStep
  <2>2. CASE active = NoToken
    <3>1. ASSUME NEW r \in Refreshers, Install(r) PROVE since >= Flat
      <4>1. held = r  BY <3>1 DEF IInv, RefreshInv, Install, Minting
      <4>q. QED BY <4>1, Sizes DEF IInv, RefreshInv
    <3>2. ~(StartEmpty \/ \E i \in DOMAIN rows : Restore(i))  BY DEF StartEmpty, Restore
    <3>3. (\E r \in Refreshers : Install(r)) \/ active' = NoToken
      BY <2>2, <3>2 DEF Next, RefreshStep, RequestStep, Tick, LoopWakes, Begin, MintFails,
         Mint, Ask, Dropped, Complete, Write, Crash
    <3>q. QED BY <3>1, <3>3
  <2>q. QED BY <2>1, <2>2
<1>q. QED BY Invariance, <1>1, PTL DEF Spec, InstallsSpaced

\* Installs keep the order of their mints and the cooldown between them
\* (doRefresh), for any number of refreshers and callers.
THEOREM InstallsStayInTurn == Spec => InstallsInTurn
<1>1. /\ [active # NoToken /\ active' # NoToken => active'.token >= active.token]_vars
      /\ [(active' # NoToken /\ up /\ (active = NoToken \/ active'.token # active.token))
            => since >= Flat]_vars
      => [/\ active # NoToken /\ active' # NoToken => active'.token >= active.token
          /\ (active' # NoToken /\ up /\ (active = NoToken \/ active'.token # active.token))
                => since >= Flat]_vars
  OBVIOUS
<1>q. QED
  BY <1>1, NewestStays, SpacedInstalls, PTL DEF NewestWins, InstallsSpaced, InstallsInTurn
=============================================================================
