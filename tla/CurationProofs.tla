--------------------------- MODULE CurationProofs ---------------------------
(***************************************************************************)
(* Proofs about Curation: types, the rulings of curators, what a repeated   *)
(* decision writes, and the order in which automatic batches lock cards.   *)
(***************************************************************************)
EXTENDS Curation, TLAPS

-----------------------------------------------------------------------------
(* Rows.                                                                    *)

LEMMA RowsAreRows == Missing \in Row /\ NewCard \in Row /\ Queued \in Row
  BY DEF Missing, NewCard, Queued, Row, Reasons, Absence

LEMMA PatchedType ==
  ASSUME NEW r \in Row, NEW p \in Patches
  PROVE  Patched(r, p) \in Row
<1>1. /\ p.feed \in {Absence, "yes", "no"} /\ p.hidden \in {Absence, "yes", "no"}
      /\ p.listed \in {Absence, "yes", "no"} /\ p.reason \in {Absence, "curator"}
  BY CurationAssumption
<1>2. Given(p.feed, r.feed) \in BOOLEAN /\ Given(p.hidden, r.hidden) \in BOOLEAN
      /\ Given(p.listed, r.listed) \in BOOLEAN
  BY DEF Given, Row
<1>3. Why(r, p) \in Reasons
  BY <1>1 DEF Why, Row, Reasons, Absence
<1>4. Owner(r, p) \in {Absence, "curator", "automatic"}
  BY <1>1 DEF Owner, Row, Absence
<1> QED
  BY <1>2, <1>3, <1>4 DEF Patched, Row

LEMMA DecidedType ==
  ASSUME NEW r \in Row, NEW v \in Verdicts
  PROVE  Decided(r, v) \in Row
BY DEF Decided, Row, Reasons, Verdicts, Absence

LEMMA AfterType ==
  ASSUME NEW r \in Row
  PROVE  After(r) \in Row
BY DEF After, Row, Absence

LEMMA RecordedType ==
  ASSUME NEW r \in Row, NEW v \in Verdicts
  PROVE  Recorded(r, v) \in Row
<1>1. v = "eligible" \/ v \in Reasons
  BY DEF Verdicts, Reasons
<1> QED
  BY <1>1, AfterType DEF Recorded, After, Row, Reasons, Absence

LEMMA EntryTypes ==
  /\ NoEntry \in Entry
  /\ \A e, f \in Entry : Later(e, f) \in Entry
  /\ \A n \in Nat, r \in Row : [id |-> n, after |-> r] \in Entry
BY RowsAreRows DEF NoEntry, Entry, Later

LEMMA PutOutType ==
  ASSUME NEW r \in Row
  PROVE  [r EXCEPT !.hidden = TRUE] \in Row
BY DEF Row

-----------------------------------------------------------------------------
(* Typing.                                                                  *)

LEMMA TakeTypes ==
  ASSUME TypeOK, NEW t \in Txs, NEW c \in Cards, Take(t, c)
  PROVE  lock' \in [Cards -> Txs \union {Nobody}] /\ todo' \in [Txs -> SUBSET Cards]
BY DEF Take, TypeOK

LEMMA WriteTypes ==
  ASSUME TypeOK, NEW t \in Txs, NEW c \in Cards, NEW row \in Row, Write(t, c, row)
  PROVE  draft' \in [Txs -> [Cards -> Row]] /\ drafted' \in [Txs -> SUBSET Cards]
<1>1. draft \in [Txs -> [Cards -> Row]] /\ drafted \in [Txs -> SUBSET Cards]
  BY DEF TypeOK
<1>2. draft' = [draft EXCEPT ![t] = [draft[t] EXCEPT ![c] = row]]
  BY DEF Write
<1>3. [draft[t] EXCEPT ![c] = row] \in [Cards -> Row]
  BY <1>1
<1> QED
  BY <1>1, <1>2, <1>3 DEF Write

LEMMA InsertTypes ==
  ASSUME TypeOK, NEW t \in Txs, NEW c \in Cards, NEW r \in Row, Insert(t, c, r)
  PROVE  ids' \in Nat /\ entry' \in [Txs -> [Cards -> Entry]]
<1>1. ids \in Nat /\ ids' = ids + 1 /\ entry \in [Txs -> [Cards -> Entry]]
  BY DEF Insert, TypeOK
<1>2. [id |-> ids', after |-> r] \in Entry
  BY <1>1, EntryTypes
<1>3. entry' = [entry EXCEPT ![t] = [entry[t] EXCEPT ![c] = [id |-> ids', after |-> r]]]
  BY DEF Insert
<1>4. [entry[t] EXCEPT ![c] = [id |-> ids', after |-> r]] \in [Cards -> Entry]
  BY <1>1, <1>2
<1> QED
  BY <1>1, <1>3, <1>4

LEMMA FinishTypes ==
  ASSUME TypeOK, NEW t \in Txs, Finish(t)
  PROVE  /\ lock' \in [Cards -> Txs \union {Nobody}]
         /\ pc' \in [Txs -> {"idle", "automatic", "import", "revocation"}]
         /\ todo' \in [Txs -> SUBSET Cards]
         /\ order' \in [Txs -> [Cards -> Nat]]
         /\ verdict' \in [Txs -> [Cards -> Verdicts]]
         /\ draft' \in [Txs -> [Cards -> Row]]
         /\ drafted' \in [Txs -> SUBSET Cards]
         /\ entry' \in [Txs -> [Cards -> Entry]]
<1>1. ById \in [Cards -> Nat]
  BY CurationAssumption DEF ById
<1>2. Eligible \in [Cards -> Verdicts]
  BY DEF Eligible, Verdicts
<1>3. [c \in Cards |-> Missing] \in [Cards -> Row]
  BY RowsAreRows
<1>4. [c \in Cards |-> NoEntry] \in [Cards -> Entry]
  BY EntryTypes
<1> QED
  BY <1>1, <1>2, <1>3, <1>4 DEF Finish, TypeOK

LEMMA StartTypes ==
  ASSUME TypeOK, NEW t \in Txs, NEW kind \in {"automatic", "import", "revocation"},
         Start(t, kind)
  PROVE  TypeOK'
<1>1. pc' \in [Txs -> {"idle", "automatic", "import", "revocation"}]
  BY DEF Start, TypeOK
<1>2. todo' \in [Txs -> SUBSET Cards]
  <2>1. PICK S \in SUBSET Cards : todo' = [todo EXCEPT ![t] = S]
    <3>1. CASE kind = "automatic"
      BY <3>1 DEF Start
    <3>2. CASE kind = "import"
      BY <3>2 DEF Start
    <3>3. CASE kind = "revocation"
      <4>1. {c \in Revocable : cards[c].there /\ ~cards[c].hidden} \in SUBSET Cards
        BY CurationAssumption
      <4> QED
        BY <3>3, <4>1 DEF Start
    <3> QED
      BY <3>1, <3>2, <3>3
  <2> QED
    BY <2>1 DEF TypeOK
<1>3. ById \in [Cards -> Nat] /\ Orders \subseteq [Cards -> Nat]
  BY CurationAssumption DEF ById
<1>4. order' \in [Txs -> [Cards -> Nat]]
  <2>1. PICK o \in [Cards -> Nat] : order' = [order EXCEPT ![t] = o]
    BY <1>3 DEF Start, Sorted
  <2> QED
    BY <2>1 DEF TypeOK
<1>5. verdict' \in [Txs -> [Cards -> Verdicts]]
  <2>1. CASE kind = "automatic"
    <3>1. PICK S \in SUBSET Cards \ {{}} : \E v \in [S -> Verdicts] :
            verdict' = [verdict EXCEPT ![t] = [c \in Cards |-> IF c \in S THEN v[c] ELSE "eligible"]]
      BY <2>1 DEF Start
    <3>2. PICK v \in [S -> Verdicts] :
            verdict' = [verdict EXCEPT ![t] = [c \in Cards |-> IF c \in S THEN v[c] ELSE "eligible"]]
      BY <3>1
    <3>3. [c \in Cards |-> IF c \in S THEN v[c] ELSE "eligible"] \in [Cards -> Verdicts]
      BY DEF Verdicts
    <3> QED
      BY <3>2, <3>3 DEF TypeOK
  <2>2. CASE kind # "automatic"
    BY <2>2 DEF Start, TypeOK
  <2> QED
    BY <2>1, <2>2
<1> QED
  BY <1>1, <1>2, <1>4, <1>5 DEF Start, TypeOK

LEMMA TypeInvariance == TypeOK /\ [Next]_vars => TypeOK'
<1> SUFFICES ASSUME TypeOK, [Next]_vars PROVE TypeOK'
  OBVIOUS
<1>1. ASSUME NEW c \in Cards, NEW p \in Patches, AdminSetFlags(c, p) PROVE TypeOK'
  <2>1. Patched(cards[c], p) \in Row
    BY PatchedType DEF TypeOK
  <2>2. After(Patched(cards[c], p)) \in Row
    BY <2>1, AfterType
  <2>3. Ruling(down[c], p) \subseteq {"unlisted", "hidden"}
    BY DEF Ruling, TypeOK
  <2>4. ids' \in Nat /\ [id |-> ids', after |-> After(Patched(cards[c], p))] \in Entry
    BY <1>1, <2>2, EntryTypes DEF AdminSetFlags, TypeOK
  <2>5. journal' \in [Cards -> Entry]
    <3>1. /\ journal \in [Cards -> Entry]
          /\ journal' = [journal EXCEPT ![c] =
               Later(journal[c], [id |-> ids', after |-> After(Patched(cards[c], p))])]
      BY <1>1 DEF AdminSetFlags, TypeOK
    <3>2. Later(journal[c], [id |-> ids', after |-> After(Patched(cards[c], p))]) \in Entry
      BY <2>4, <3>1, EntryTypes
    <3> QED
      BY <3>1, <3>2
  <2> QED
    BY <1>1, <2>1, <2>3, <2>4, <2>5 DEF AdminSetFlags, local, TypeOK
<1>2. ASSUME NEW t \in Txs, NEW c \in Cards, SkipMissing(t, c) PROVE TypeOK'
  BY <1>2 DEF SkipMissing, TypeOK
<1>3. ASSUME NEW t \in Txs, NEW c \in Cards, Decide(t, c) PROVE TypeOK'
  <2>1. Decided(cards[c], verdict[t][c]) \in Row
    BY DecidedType DEF TypeOK
  <2>2. draft' \in [Txs -> [Cards -> Row]] /\ drafted' \in [Txs -> SUBSET Cards]
    BY <1>3, <2>1, WriteTypes DEF Decide, TypeOK
  <2>3. lock' \in [Cards -> Txs \union {Nobody}] /\ todo' \in [Txs -> SUBSET Cards]
    BY <1>3, TakeTypes DEF Decide
  <2>4. Recorded(cards[c], verdict[t][c]) \in Row
    BY RecordedType DEF TypeOK
  <2>5. ids' \in Nat /\ entry' \in [Txs -> [Cards -> Entry]]
    BY <1>3, <2>4, InsertTypes DEF Decide, TypeOK
  <2> QED
    BY <1>3, <2>2, <2>3, <2>5 DEF Decide, TypeOK
<1>4. ASSUME NEW t \in Txs, NEW c \in Cards, Import(t, c) PROVE TypeOK'
  <2>1. draft' \in [Txs -> [Cards -> Row]] /\ drafted' \in [Txs -> SUBSET Cards]
    BY <1>4, RowsAreRows, WriteTypes DEF Import, TypeOK
  <2>2. lock' \in [Cards -> Txs \union {Nobody}] /\ todo' \in [Txs -> SUBSET Cards]
    BY <1>4, TakeTypes DEF Import
  <2> QED
    BY <1>4, <2>1, <2>2 DEF Import, TypeOK
<1>5. ASSUME NEW t \in Txs, NEW c \in Cards, PutOut(t, c) PROVE TypeOK'
  <2>1. cards[c] \in Row
    BY DEF TypeOK
  <2>2. draft' \in [Txs -> [Cards -> Row]] /\ drafted' \in [Txs -> SUBSET Cards]
    BY <1>5, <2>1, PutOutType, WriteTypes DEF PutOut, TypeOK
  <2>3. lock' \in [Cards -> Txs \union {Nobody}] /\ todo' \in [Txs -> SUBSET Cards]
    BY <1>5, TakeTypes DEF PutOut
  <2> QED
    BY <1>5, <2>2, <2>3 DEF PutOut, TypeOK
<1>6. ASSUME NEW t \in Txs, Commit(t) PROVE TypeOK'
  <2>1. cards' \in [Cards -> Row]
    BY <1>6 DEF Commit, TypeOK
  <2>2. ASSUME NEW c \in Cards PROVE Later(journal[c], entry[t][c]) \in Entry
    BY EntryTypes DEF TypeOK
  <2>3. journal' \in [Cards -> Entry]
    BY <1>6, <2>2 DEF Commit, TypeOK
  <2>4. revoked' \subseteq Cards
    BY <1>6 DEF Commit, TypeOK
  <2> QED
    BY <1>6, <2>1, <2>3, <2>4, FinishTypes DEF Commit, TypeOK
<1>7. ASSUME NEW t \in Txs, Abort(t) PROVE TypeOK'
  BY <1>7, FinishTypes DEF Abort, TypeOK
<1>8. CASE UNCHANGED vars
  BY <1>8 DEF vars, local, TypeOK
<1> QED
  BY <1>1, <1>2, <1>3, <1>4, <1>5, <1>6, <1>7, <1>8, StartTypes DEF Next, Proceed

LEMMA InitTypes == Init => TypeOK
<1>1. ById \in [Cards -> Nat]
  BY CurationAssumption DEF ById
<1>2. Eligible \in [Cards -> Verdicts]
  BY DEF Eligible, Verdicts
<1> QED
  BY <1>1, <1>2, RowsAreRows, EntryTypes DEF Init, TypeOK

(* The variables keep their ranges, for any cards, transactions and patches *)
(* (tgevents/repository.go, automatic.go, sources.go).                      *)
THEOREM Typing == Spec => []TypeOK
BY InitTypes, TypeInvariance, PTL DEF Spec

-----------------------------------------------------------------------------
(* The rulings of curators.  A row that is taken down carries what a curator *)
(* has ruled, whether it is committed or only written by a transaction that  *)
(* holds it: that is what no step may break.                                 *)

Carries(r, ruling) ==
  /\ ruling # {} => r.there /\ r.by = "curator"
  /\ "unlisted" \in ruling => ~r.listed
  /\ "hidden" \in ruling => r.hidden

RulingInv ==
  /\ \A c \in Cards : Carries(cards[c], down[c])
  /\ \A t \in Txs : \A c \in drafted[t] :
       lock[c] = t /\ Carries(draft[t][c], down[c])

LEMMA PatchCarries ==
  ASSUME NEW r \in Row, NEW p \in Patches, NEW d \in SUBSET {"unlisted", "hidden"},
         Carries(r, d)
  PROVE  Carries(Patched(r, p), Ruling(d, p))
<1>1. /\ p.feed \in {Absence, "yes", "no"} /\ p.hidden \in {Absence, "yes", "no"}
      /\ p.listed \in {Absence, "yes", "no"} /\ p.reason \in {Absence, "curator"}
  BY CurationAssumption
<1>2. /\ Patched(r, p).there
      /\ Patched(r, p).by = Owner(r, p)
      /\ Patched(r, p).listed = Given(p.listed, r.listed)
      /\ Patched(r, p).hidden = Given(p.hidden, r.hidden)
  BY DEF Patched
<1>3. ASSUME Ruling(d, p) # {} PROVE Owner(r, p) = "curator"
  <2>1. CASE p.listed = "no" \/ p.hidden = "yes"
    BY <1>1, <2>1 DEF Owner, Absence
  <2>2. CASE p.listed # "no" /\ p.hidden # "yes"
    <3>1. p.listed = Absence
      BY <1>1, <1>3, <2>2 DEF Ruling, Absence
    <3>2. d # {} /\ (p.hidden = "no" => "unlisted" \in d)
      BY <1>1, <1>3, <2>2, <3>1 DEF Ruling, Absence
    <3>3. r.by = "curator" /\ (p.hidden = "no" => ~r.listed)
      BY <3>2 DEF Carries
    <3> QED
      BY <1>1, <2>2, <3>1, <3>3 DEF Owner, Absence
  <2> QED
    BY <2>1, <2>2
<1>4. ASSUME "unlisted" \in Ruling(d, p) PROVE ~Given(p.listed, r.listed)
  BY <1>1, <1>4 DEF Ruling, Given, Carries, Absence
<1>5. ASSUME "hidden" \in Ruling(d, p) PROVE Given(p.hidden, r.hidden)
  BY <1>1, <1>5 DEF Ruling, Given, Carries, Absence
<1> QED
  BY <1>2, <1>3, <1>4, <1>5 DEF Carries

(* What a transaction writes under the lock of a row, and takes it by. *)
LEMMA WriteCarries ==
  ASSUME TypeOK, RulingInv, NEW t \in Txs, NEW c \in Cards, NEW row \in Row,
         Take(t, c), UNCHANGED <<cards, down>>,
         \/ UNCHANGED <<draft, drafted>>
         \/ Write(t, c, row) /\ Carries(row, down[c])
  PROVE  RulingInv'
<1>1. \A x \in Cards : Carries(cards[x], down[x])'
  BY DEF RulingInv, Carries
<1>2. ASSUME NEW u \in Txs, NEW x \in drafted'[u]
      PROVE  lock'[x] = u /\ Carries(draft'[u][x], down'[x])
  <2>1. lock \in [Cards -> Txs \union {Nobody}] /\ drafted \in [Txs -> SUBSET Cards]
        /\ draft \in [Txs -> [Cards -> Row]]
    BY DEF TypeOK
  <2>2. lock' = [lock EXCEPT ![c] = t] /\ lock[c] = Nobody /\ Nobody \notin Txs
    BY CurationAssumption DEF Take, Free
  <2>3. CASE x \in drafted[u]
    <3>1. lock[x] = u /\ Carries(draft[u][x], down[x]) /\ x \in Cards
      BY <2>1, <2>3 DEF RulingInv
    <3>2. x # c
      BY <2>2, <3>1
    <3>3. draft'[u][x] = draft[u][x]
      BY <2>1, <3>1, <3>2 DEF Write
    <3> QED
      BY <2>1, <2>2, <3>1, <3>2, <3>3
  <2>4. CASE x \notin drafted[u]
    <3>1. Write(t, c, row) /\ Carries(row, down[c]) /\ u = t /\ x = c
      BY <1>2, <2>1, <2>4 DEF Write
    <3> QED
      BY <2>1, <2>2, <3>1 DEF Write
  <2> QED
    BY <2>3, <2>4
<1> QED
  BY <1>1, <1>2 DEF RulingInv

LEMMA FinishReleases ==
  ASSUME TypeOK, RulingInv, NEW t \in Txs, Finish(t), UNCHANGED down
  PROVE  \A u \in Txs : \A c \in drafted'[u] :
           lock'[c] = u /\ Carries(draft'[u][c], down'[c])
<1> SUFFICES ASSUME NEW u \in Txs, NEW c \in drafted'[u]
             PROVE  lock'[c] = u /\ Carries(draft'[u][c], down'[c])
  OBVIOUS
<1>1. u # t /\ c \in drafted[u] /\ draft'[u] = draft[u]
  BY DEF Finish, TypeOK
<1>2. c \in Cards /\ lock[c] = u
  BY <1>1 DEF RulingInv, TypeOK
<1> QED
  BY <1>1, <1>2 DEF Finish, RulingInv

LEMMA RulingInvariance == TypeOK /\ RulingInv /\ [Next]_vars => RulingInv'
<1> SUFFICES ASSUME TypeOK, RulingInv, [Next]_vars PROVE RulingInv'
  OBVIOUS
<1>1. ASSUME NEW c \in Cards, NEW p \in Patches, AdminSetFlags(c, p) PROVE RulingInv'
  <2>1. Carries(Patched(cards[c], p), Ruling(down[c], p))
    BY PatchCarries DEF TypeOK, RulingInv
  <2>2. /\ cards' = [cards EXCEPT ![c] = Patched(cards[c], p)]
        /\ down' = [down EXCEPT ![c] = Ruling(down[c], p)]
        /\ lock[c] = Nobody /\ UNCHANGED <<lock, draft, drafted>>
    BY <1>1 DEF AdminSetFlags, local
  <2>3. \A x \in Cards : Carries(cards'[x], down'[x])
    BY <2>1, <2>2 DEF RulingInv, TypeOK
  <2>4. ASSUME NEW t \in Txs, NEW x \in drafted[t]
        PROVE  lock[x] = t /\ Carries(draft[t][x], down'[x])
    <3>1. x \in Cards /\ lock[x] = t /\ Carries(draft[t][x], down[x])
      BY DEF RulingInv, TypeOK
    <3>2. x # c
      BY <2>2, <3>1, CurationAssumption
    <3> QED
      BY <2>2, <3>1, <3>2 DEF TypeOK
  <2> QED
    BY <2>2, <2>3, <2>4 DEF RulingInv
<1>2. ASSUME NEW t \in Txs, NEW kind \in {"automatic", "import", "revocation"}, Start(t, kind)
      PROVE  RulingInv'
  BY <1>2 DEF Start, RulingInv
<1>3. ASSUME NEW t \in Txs, NEW c \in Cards, SkipMissing(t, c) PROVE RulingInv'
  BY <1>3 DEF SkipMissing, RulingInv
<1>4. ASSUME NEW t \in Txs, NEW c \in Cards, Decide(t, c) PROVE RulingInv'
  <2> DEFINE row == Decided(cards[c], verdict[t][c])
  <2>1. row \in Row
    BY DecidedType DEF TypeOK
  <2>2. ASSUME ~Protected(cards[c]) PROVE Carries(row, down[c])
    <3>1. cards[c].by # "curator"
      BY <2>2 DEF Protected, Absence
    <3>2. down[c] = {}
      BY <3>1 DEF RulingInv, Carries
    <3> QED
      BY <3>2 DEF Carries
  <2>3. Take(t, c) /\ UNCHANGED <<cards, down>>
    BY <1>4 DEF Decide
  <2>4. UNCHANGED <<draft, drafted>> \/ (Write(t, c, row) /\ Carries(row, down[c]))
    BY <1>4, <2>2 DEF Decide
  <2> HIDE DEF row
  <2> QED
    BY <2>1, <2>3, <2>4, WriteCarries
<1>5. ASSUME NEW t \in Txs, NEW c \in Cards, Import(t, c) PROVE RulingInv'
  <2>1. ASSUME ~cards[c].there PROVE Carries(NewCard, down[c])
    BY <2>1 DEF RulingInv, Carries
  <2>2. /\ Take(t, c) /\ UNCHANGED <<cards, down>>
        /\ UNCHANGED <<draft, drafted>> \/ (Write(t, c, NewCard) /\ Carries(NewCard, down[c]))
    BY <1>5, <2>1 DEF Import
  <2> QED
    BY <2>2, RowsAreRows, WriteCarries
<1>6. ASSUME NEW t \in Txs, NEW c \in Cards, PutOut(t, c) PROVE RulingInv'
  <2> DEFINE row == [cards[c] EXCEPT !.hidden = TRUE]
  <2>1. cards[c] \in Row /\ Carries(cards[c], down[c])
    BY DEF TypeOK, RulingInv
  <2>2. row \in Row /\ Carries(row, down[c])
    BY <2>1 DEF Row, Carries
  <2>3. /\ Take(t, c) /\ UNCHANGED <<cards, down>>
        /\ UNCHANGED <<draft, drafted>> \/ Write(t, c, row)
    BY <1>6 DEF PutOut
  <2> HIDE DEF row
  <2> QED
    BY <2>2, <2>3, WriteCarries
<1>7. ASSUME NEW t \in Txs, Commit(t) PROVE RulingInv'
  <2>1. \A c \in Cards : Carries(cards'[c], down'[c])
    BY <1>7 DEF Commit, RulingInv
  <2>2. Finish(t) /\ UNCHANGED down
    BY <1>7 DEF Commit
  <2> QED
    BY <2>1, <2>2, FinishReleases DEF RulingInv
<1>8. ASSUME NEW t \in Txs, Abort(t) PROVE RulingInv'
  <2>1. Finish(t) /\ UNCHANGED <<cards, down>>
    BY <1>8 DEF Abort
  <2> QED
    BY <2>1, FinishReleases DEF RulingInv
<1>9. CASE UNCHANGED vars
  BY <1>9 DEF vars, local, RulingInv
<1> QED
  BY <1>1, <1>2, <1>3, <1>4, <1>5, <1>6, <1>7, <1>8, <1>9 DEF Next, Proceed

(* What a curator has taken down stays down until a curator puts it back,   *)
(* whatever batches, imports and revocations are under way                  *)
(* (tgevents/automatic.go:57-61, repository.go:194-218).                    *)
THEOREM CuratorsPrevail == Spec => []RulingsStand
<1>1. Init => RulingInv
  BY DEF Init, RulingInv, Carries
<1>2. RulingInv => RulingsStand
  BY DEF RulingInv, Carries, RulingsStand
<1> QED
  BY <1>1, <1>2, Typing, RulingInvariance, PTL DEF Spec

-----------------------------------------------------------------------------
(* The order of automatic batches.  A transaction that is not under way      *)
(* holds nothing and has written nothing; an automatic one goes through its  *)
(* batch by id, so all it holds comes before all it has still to process.    *)

BatchInv ==
  \A t \in Txs :
    /\ pc[t] = "idle" => drafted[t] = {} /\ \A c \in Cards : lock[c] # t
    /\ pc[t] = "automatic" =>
         order[t] = ById /\ \A c \in Cards : \A d \in todo[t] : lock[c] = t => c < d

LEMMA TakeKeepsOrder ==
  ASSUME TypeOK, BatchInv, NEW t \in Txs, NEW c \in Cards,
         pc[t] # "idle", Turn(t, c), Take(t, c), UNCHANGED <<pc, order>>,
         \A u \in Txs \ {t} : drafted'[u] = drafted[u]
  PROVE  BatchInv'
<1> SUFFICES ASSUME NEW u \in Txs
             PROVE  /\ pc'[u] = "idle" => drafted'[u] = {} /\ \A x \in Cards : lock'[x] # u
                    /\ pc'[u] = "automatic" =>
                         order'[u] = ById /\ \A x \in Cards : \A d \in todo'[u] : lock'[x] = u => x < d
  BY DEF BatchInv
<1>1. /\ lock' = [lock EXCEPT ![c] = t] /\ todo' = [todo EXCEPT ![t] = todo[t] \ {c}]
      /\ lock \in [Cards -> Txs \union {Nobody}] /\ todo \in [Txs -> SUBSET Cards]
      /\ Cards \subseteq Nat
  BY CurationAssumption DEF Take, TypeOK
<1>2. CASE u # t
  <2>1. todo'[u] = todo[u] /\ \A x \in Cards : lock'[x] = u => lock[x] = u
    BY <1>1, <1>2
  <2> QED
    BY <1>2, <2>1 DEF BatchInv
<1>3. CASE u = t
  <2>1. ASSUME pc[t] = "automatic", NEW x \in Cards, NEW d \in todo'[t], lock'[x] = t
        PROVE  x < d
    <3>1. d \in todo[t] /\ d # c /\ d \in Cards
      BY <1>1, <2>1
    <3>2. CASE x = c
      <4>1. order[t] = ById
        BY <2>1 DEF BatchInv
      <4>2. order[t][c] <= order[t][d]
        BY <3>1 DEF Turn
      <4> QED
        BY <1>1, <3>1, <3>2, <4>1, <4>2 DEF ById
    <3>3. CASE x # c
      BY <1>1, <2>1, <3>1, <3>3 DEF BatchInv
    <3> QED
      BY <3>2, <3>3
  <2> QED
    BY <1>3, <2>1 DEF BatchInv
<1> QED
  BY <1>2, <1>3

LEMMA FinishKeepsOrder ==
  ASSUME TypeOK, BatchInv, NEW t \in Txs, Finish(t)
  PROVE  BatchInv'
<1> SUFFICES ASSUME NEW u \in Txs
             PROVE  /\ pc'[u] = "idle" => drafted'[u] = {} /\ \A x \in Cards : lock'[x] # u
                    /\ pc'[u] = "automatic" =>
                         order'[u] = ById /\ \A x \in Cards : \A d \in todo'[u] : lock'[x] = u => x < d
  BY DEF BatchInv
<1>1. Nobody \notin Txs /\ \A x \in Cards : lock'[x] = IF lock[x] = t THEN Nobody ELSE lock[x]
  BY CurationAssumption DEF Finish
<1>2. CASE u = t
  BY <1>1, <1>2 DEF Finish, TypeOK
<1>3. CASE u # t
  <2>1. /\ pc'[u] = pc[u] /\ drafted'[u] = drafted[u] /\ order'[u] = order[u] /\ todo'[u] = todo[u]
        /\ \A x \in Cards : lock'[x] = u => lock[x] = u
    BY <1>1, <1>3 DEF Finish, TypeOK
  <2> QED
    BY <2>1 DEF BatchInv
<1> QED
  BY <1>2, <1>3

LEMMA StartKeepsOrder ==
  ASSUME TypeOK, BatchInv, NEW t \in Txs, NEW kind \in {"automatic", "import", "revocation"},
         Start(t, kind)
  PROVE  BatchInv'
<1> SUFFICES ASSUME NEW u \in Txs
             PROVE  /\ pc'[u] = "idle" => drafted'[u] = {} /\ \A x \in Cards : lock'[x] # u
                    /\ pc'[u] = "automatic" =>
                         order'[u] = ById /\ \A x \in Cards : \A d \in todo'[u] : lock'[x] = u => x < d
  BY DEF BatchInv
<1>1. UNCHANGED <<lock, drafted>> /\ pc[t] = "idle" /\ pc' = [pc EXCEPT ![t] = kind]
  BY DEF Start
<1>2. CASE u = t
  <2>1. \A x \in Cards : lock[x] # t
    BY <1>1 DEF BatchInv
  <2>2. kind = "automatic" => order'[t] = ById
    BY DEF Start, Sorted, TypeOK
  <2> QED
    BY <1>1, <1>2, <2>1, <2>2 DEF TypeOK
<1>3. CASE u # t
  <2>1. pc'[u] = pc[u]
    BY <1>1, <1>3 DEF TypeOK
  <2>2. todo'[u] = todo[u] /\ order'[u] = order[u]
    BY <1>3 DEF Start, TypeOK
  <2> QED
    BY <1>1, <2>1, <2>2 DEF BatchInv
<1> QED
  BY <1>2, <1>3

LEMMA BatchInvariance == TypeOK /\ BatchInv /\ [Next]_vars => BatchInv'
<1> SUFFICES ASSUME TypeOK, BatchInv, [Next]_vars PROVE BatchInv'
  OBVIOUS
<1>1. ASSUME NEW c \in Cards, NEW p \in Patches, AdminSetFlags(c, p) PROVE BatchInv'
  BY <1>1 DEF AdminSetFlags, local, BatchInv
<1>2. ASSUME NEW t \in Txs, NEW c \in Cards, SkipMissing(t, c) PROVE BatchInv'
  <2>1. \A u \in Txs : todo'[u] \subseteq todo[u]
    BY <1>2 DEF SkipMissing, TypeOK
  <2> QED
    BY <1>2, <2>1 DEF SkipMissing, BatchInv
<1>3. ASSUME NEW t \in Txs, NEW c \in Cards, Decide(t, c) \/ Import(t, c) \/ PutOut(t, c)
      PROVE  BatchInv'
  <2>1. \A u \in Txs \ {t} : drafted'[u] = drafted[u]
    BY <1>3 DEF Decide, Import, PutOut, Write, TypeOK
  <2>2. pc[t] # "idle" /\ Turn(t, c) /\ Take(t, c) /\ UNCHANGED <<pc, order>>
    BY <1>3 DEF Decide, Import, PutOut
  <2> QED
    BY <2>1, <2>2, TakeKeepsOrder
<1>4. ASSUME NEW t \in Txs, Commit(t) \/ Abort(t) PROVE BatchInv'
  BY <1>4, FinishKeepsOrder DEF Commit, Abort
<1>5. CASE UNCHANGED vars
  BY <1>5 DEF vars, local, BatchInv
<1> QED
  BY <1>1, <1>2, <1>3, <1>4, <1>5, StartKeepsOrder DEF Next, Proceed

(* Two automatic batches never wait for each other (tgevents/automatic.go:   *)
(* 42-43): sorting is enough, for any batches of any cards.                  *)
THEOREM SortedBatchesDoNotDeadlock == Spec => []BatchesNeverBlockEachOther
<1>1. Init => BatchInv
  BY CurationAssumption DEF Init, BatchInv
<1>2. TypeOK /\ BatchInv => BatchesNeverBlockEachOther
  <2> SUFFICES ASSUME TypeOK, BatchInv, NEW t \in Txs, NEW u \in Txs,
                      pc[t] = "automatic", pc[u] = "automatic",
                      WaitsFor(t, u), WaitsFor(u, t)
               PROVE  FALSE
    BY DEF BatchesNeverBlockEachOther
  <2>1. PICK c \in Cards : c \in todo[t] /\ lock[c] = u
    BY DEF WaitsFor, Turn
  <2>2. PICK d \in Cards : d \in todo[u] /\ lock[d] = t
    BY DEF WaitsFor, Turn
  <2>3. d < c /\ c < d
    BY <2>1, <2>2 DEF BatchInv
  <2> QED
    BY <2>1, <2>2, <2>3, CurationAssumption
<1> QED
  BY <1>1, <1>2, Typing, BatchInvariance, PTL DEF Spec

-----------------------------------------------------------------------------
(* Repeated decisions.                                                      *)

Differ(r, q) == After(r) # After(q) \/ r.by # q.by

LEMMA DecisionsChange ==
  ASSUME NEW r \in Row, NEW v \in Verdicts, ~Settled(r, v)
  PROVE  Differ(Decided(r, v), r)
<1>1. CASE v = "eligible"
  <2>1. /\ Decided(r, v).feed /\ Decided(r, v).listed /\ ~Decided(r, v).hidden
        /\ Decided(r, v).reason = Absence
    BY <1>1 DEF Decided, Row
  <2>2. ~r.feed \/ ~r.listed \/ r.hidden \/ r.reason # Absence
    BY <1>1 DEF Settled
  <2>3. ASSUME After(Decided(r, v)) = After(r)
        PROVE  /\ Decided(r, v).feed = r.feed /\ Decided(r, v).listed = r.listed
               /\ Decided(r, v).hidden = r.hidden /\ Decided(r, v).reason = r.reason
    BY <1>1, <2>3 DEF After, Decided, Row
  <2> QED
    BY <2>1, <2>2, <2>3 DEF Differ
<1>2. CASE v # "eligible"
  <2>1. /\ ~Decided(r, v).feed /\ ~Decided(r, v).listed
        /\ Decided(r, v).reason = v /\ Decided(r, v).by = "automatic"
    BY <1>2 DEF Decided, Row
  <2>2. r.by # "automatic" \/ r.feed \/ r.listed \/ r.reason # v
    BY <1>2 DEF Settled
  <2>3. ASSUME After(Decided(r, v)) = After(r)
        PROVE  /\ Decided(r, v).feed = r.feed /\ Decided(r, v).listed = r.listed
               /\ Decided(r, v).reason = r.reason
    BY <1>2, <2>3 DEF After, Decided, Row
  <2> QED
    BY <2>1, <2>2, <2>3 DEF Differ
<1> QED
  BY <1>1, <1>2

(* Rows are written under their lock, so what makes them differ lasts.      *)
RetryInv ==
  \A t \in Txs : pc[t] = "automatic" => \A c \in drafted[t] : Differ(draft[t][c], cards[c])

LEMMA RetryInvariance ==
  TypeOK /\ RulingInv /\ BatchInv /\ RetryInv /\ [Next]_vars => RetryInv'
<1> SUFFICES ASSUME TypeOK, RulingInv, BatchInv, RetryInv, [Next]_vars,
                    NEW u \in Txs, pc'[u] = "automatic", NEW x \in drafted'[u]
             PROVE  Differ(draft'[u][x], cards'[x])
  BY DEF RetryInv, Differ, After
<1> DEFINE Old == pc[u] = "automatic" /\ x \in drafted[u]
<1>0. Old => x \in Cards /\ lock[x] = u /\ Differ(draft[u][x], cards[x]) /\ Nobody \notin Txs
  BY CurationAssumption DEF TypeOK, RulingInv, RetryInv
<1>1. ASSUME NEW c \in Cards, NEW p \in Patches, AdminSetFlags(c, p)
      PROVE  Differ(draft'[u][x], cards'[x])
  BY <1>0, <1>1 DEF AdminSetFlags, local, TypeOK
<1>2. ASSUME NEW t \in Txs, NEW kind \in {"automatic", "import", "revocation"}, Start(t, kind)
      PROVE  Differ(draft'[u][x], cards'[x])
  <2>1. UNCHANGED <<cards, draft, drafted>> /\ pc[t] = "idle" /\ pc' = [pc EXCEPT ![t] = kind]
    BY <1>2 DEF Start
  <2>2. u # t
    BY <2>1 DEF BatchInv
  <2>3. Old
    BY <2>1, <2>2 DEF TypeOK
  <2> QED
    BY <1>0, <2>1, <2>3
<1>3. ASSUME NEW t \in Txs, NEW c \in Cards, SkipMissing(t, c)
      PROVE  Differ(draft'[u][x], cards'[x])
  BY <1>0, <1>3 DEF SkipMissing
<1>4. ASSUME NEW t \in Txs, NEW c \in Cards, Decide(t, c)
      PROVE  Differ(draft'[u][x], cards'[x])
  <2>1. UNCHANGED <<cards, pc>>
    BY <1>4 DEF Decide
  <2>2. CASE Old /\ draft'[u][x] = draft[u][x]
    BY <1>0, <2>1, <2>2
  <2>3. CASE ~(Old /\ draft'[u][x] = draft[u][x])
    <3>1. Write(t, c, Decided(cards[c], verdict[t][c])) /\ ~Settled(cards[c], verdict[t][c])
      BY <1>4, <2>1, <2>3 DEF Decide
    <3>2. u = t /\ x = c /\ draft'[u][x] = Decided(cards[c], verdict[t][c])
      <4>1. /\ draft \in [Txs -> [Cards -> Row]] /\ drafted \in [Txs -> SUBSET Cards]
            /\ draft' = [draft EXCEPT ![t] = [draft[t] EXCEPT ![c] = Decided(cards[c], verdict[t][c])]]
            /\ drafted' = [drafted EXCEPT ![t] = drafted[t] \union {c}]
        BY <3>1 DEF Write, TypeOK
      <4>2. u = t /\ x = c
        BY <2>1, <2>3, <4>1
      <4> QED
        BY <4>1, <4>2
    <3>3. cards[c] \in Row /\ verdict[t][c] \in Verdicts
      BY DEF TypeOK
    <3> QED
      BY <2>1, <3>1, <3>2, <3>3, DecisionsChange
  <2> QED
    BY <2>2, <2>3
<1>5. ASSUME NEW t \in Txs, NEW c \in Cards, Import(t, c) \/ PutOut(t, c)
      PROVE  Differ(draft'[u][x], cards'[x])
  <2>1. UNCHANGED <<cards, pc>> /\ pc[t] # "automatic"
    BY <1>5 DEF Import, PutOut
  <2>2. u # t
    BY <2>1
  <2>3. draft'[u] = draft[u] /\ drafted'[u] = drafted[u]
    BY <1>5, <2>2 DEF Import, PutOut, Write, TypeOK
  <2> QED
    BY <1>0, <2>1, <2>3
<1>6. ASSUME NEW t \in Txs, Commit(t) \/ Abort(t)
      PROVE  Differ(draft'[u][x], cards'[x])
  <2>1. Finish(t)
    BY <1>6 DEF Commit, Abort
  <2>2. u # t /\ Old /\ draft'[u] = draft[u]
    BY <2>1 DEF Finish, TypeOK
  <2>3. x \notin drafted[t]
    BY <1>0, <2>2 DEF RulingInv
  <2>4. cards'[x] = cards[x]
    BY <1>0, <1>6, <2>2, <2>3 DEF Commit, Abort
  <2> QED
    BY <1>0, <2>2, <2>4
<1>7. CASE UNCHANGED vars
  BY <1>0, <1>7 DEF vars, local
<1> QED
  BY <1>1, <1>2, <1>3, <1>4, <1>5, <1>6, <1>7 DEF Next, Proceed

(* A decision sent again writes nothing, and what a batch is about to write  *)
(* still differs when it commits (tgevents/automatic.go:63-67).              *)
THEOREM RetriesWriteNothing == Spec => []RetriesAreStable
<1>1. Init => RulingInv /\ BatchInv /\ RetryInv
  BY CurationAssumption DEF Init, RulingInv, Carries, BatchInv, RetryInv
<1>2. RetryInv => RetriesAreStable
  BY DEF RetryInv, Differ, RetriesAreStable
<1> QED
  BY <1>1, <1>2, Typing, RulingInvariance, BatchInvariance, RetryInvariance, PTL DEF Spec

-----------------------------------------------------------------------------
(* The journal.  What a transaction has written and the journal will not     *)
(* record is known while it holds the row: an import writes only cards that  *)
(* are not there, a revocation only hides.                                   *)

Out(r) == [r EXCEPT !.hidden = TRUE]

DraftOf(t, c) ==
  /\ pc[t] = "import" => ~cards[c].there
  /\ pc[t] = "revocation" => draft[t][c] = Out(cards[c])
  /\ pc[t] = "automatic" => draft[t][c].there

DraftInv == \A t \in Txs : \A c \in drafted[t] : DraftOf(t, c)

LEMMA DraftInvariance ==
  TypeOK /\ RulingInv /\ BatchInv /\ DraftInv /\ [Next]_vars => DraftInv'
<1> SUFFICES ASSUME TypeOK, RulingInv, BatchInv, DraftInv, [Next]_vars,
                    NEW u \in Txs, NEW x \in drafted'[u]
             PROVE  DraftOf(u, x)'
  BY DEF DraftInv
<1>0. x \in drafted[u] => x \in Cards /\ lock[x] = u /\ DraftOf(u, x) /\ Nobody \notin Txs
  BY CurationAssumption DEF TypeOK, RulingInv, DraftInv
<1>1. ASSUME x \in drafted[u], pc'[u] = pc[u], draft'[u][x] = draft[u][x],
             cards'[x] = cards[x]
      PROVE  DraftOf(u, x)'
  BY <1>0, <1>1 DEF DraftOf
<1>2. ASSUME NEW c \in Cards, NEW p \in Patches, AdminSetFlags(c, p)
      PROVE  DraftOf(u, x)'
  <2>1. x \in drafted[u] /\ UNCHANGED <<pc, draft>>
    BY <1>2 DEF AdminSetFlags, local
  <2>2. x # c
    BY <1>0, <1>2, <2>1 DEF AdminSetFlags
  <2>3. cards'[x] = cards[x]
    BY <1>0, <1>2, <2>1, <2>2 DEF AdminSetFlags, TypeOK
  <2> QED
    BY <1>1, <2>1, <2>3
<1>3. ASSUME NEW t \in Txs, NEW kind \in {"automatic", "import", "revocation"}, Start(t, kind)
      PROVE  DraftOf(u, x)'
  <2>1. UNCHANGED <<cards, draft, drafted>> /\ pc[t] = "idle" /\ pc' = [pc EXCEPT ![t] = kind]
    BY <1>3 DEF Start
  <2>2. u # t
    BY <2>1 DEF BatchInv
  <2>3. x \in drafted[u] /\ pc'[u] = pc[u]
    BY <2>1, <2>2 DEF TypeOK
  <2> QED
    BY <1>1, <2>1, <2>3
<1>4. ASSUME NEW t \in Txs, NEW c \in Cards, SkipMissing(t, c)
      PROVE  DraftOf(u, x)'
  BY <1>1, <1>4 DEF SkipMissing
<1>5. ASSUME NEW t \in Txs, NEW c \in Cards, NEW row \in Row, UNCHANGED <<cards, pc>>,
             UNCHANGED <<draft, drafted>> \/ Write(t, c, row),
             Write(t, c, row) => /\ pc[t] = "import" => ~cards[c].there
                                 /\ pc[t] = "revocation" => row = Out(cards[c])
                                 /\ pc[t] = "automatic" => row.there,
             Take(t, c)
      PROVE  DraftOf(u, x)'
  <2>1. CASE UNCHANGED <<draft, drafted>>
    BY <1>1, <1>5, <2>1
  <2>2. CASE Write(t, c, row)
    <3>1. /\ draft \in [Txs -> [Cards -> Row]] /\ drafted \in [Txs -> SUBSET Cards]
          /\ draft' = [draft EXCEPT ![t] = [draft[t] EXCEPT ![c] = row]]
          /\ drafted' = [drafted EXCEPT ![t] = drafted[t] \union {c}]
      BY <2>2 DEF Write, TypeOK
    <3>2. CASE u = t /\ x = c
      <4>1. draft'[u][x] = row
        BY <3>1, <3>2
      <4> QED
        BY <1>5, <2>2, <3>2, <4>1 DEF DraftOf
    <3>3. CASE ~(u = t /\ x = c)
      <4>1. x \in drafted[u] /\ draft'[u][x] = draft[u][x]
        BY <1>0, <3>1, <3>3
      <4> QED
        BY <1>1, <1>5, <4>1
    <3> QED
      BY <3>2, <3>3
  <2> QED
    BY <1>5, <2>1, <2>2
<1>6. ASSUME NEW t \in Txs, NEW c \in Cards, Decide(t, c)
      PROVE  DraftOf(u, x)'
  <2> DEFINE row == Decided(cards[c], verdict[t][c])
  <2>1. row \in Row
    BY DecidedType DEF TypeOK
  <2>2. /\ pc[t] = "automatic" /\ Take(t, c) /\ UNCHANGED <<cards, pc>>
        /\ UNCHANGED <<draft, drafted>> \/ Write(t, c, row)
    BY <1>6 DEF Decide
  <2>3. row.there
    BY <1>6 DEF Decide, Decided, TypeOK, Row
  <2> HIDE DEF row
  <2> QED
    BY <1>5, <2>1, <2>2, <2>3
<1>7. ASSUME NEW t \in Txs, NEW c \in Cards, Import(t, c)
      PROVE  DraftOf(u, x)'
  <2>1. /\ pc[t] = "import" /\ Take(t, c) /\ UNCHANGED <<cards, pc>>
        /\ IF cards[c].there THEN UNCHANGED <<draft, drafted>> ELSE Write(t, c, NewCard)
    BY <1>7 DEF Import
  <2>2. CASE cards[c].there
    BY <1>1, <2>1, <2>2
  <2>3. CASE ~cards[c].there
    BY <1>5, <2>1, <2>3, RowsAreRows
  <2> QED
    BY <2>2, <2>3
<1>8. ASSUME NEW t \in Txs, NEW c \in Cards, PutOut(t, c)
      PROVE  DraftOf(u, x)'
  <2>1. /\ pc[t] = "revocation" /\ Take(t, c) /\ UNCHANGED <<cards, pc>>
        /\ UNCHANGED <<draft, drafted>> \/ Write(t, c, Out(cards[c]))
    BY <1>8 DEF PutOut, Out
  <2>2. Out(cards[c]) \in Row
    BY PutOutType DEF TypeOK, Out
  <2> QED
    BY <1>5, <2>1, <2>2
<1>9. ASSUME NEW t \in Txs, Commit(t) \/ Abort(t)
      PROVE  DraftOf(u, x)'
  <2>1. Finish(t)
    BY <1>9 DEF Commit, Abort
  <2>2. u # t /\ x \in drafted[u] /\ draft'[u] = draft[u] /\ pc'[u] = pc[u]
    BY <2>1 DEF Finish, TypeOK
  <2>3. x \notin drafted[t]
    BY <1>0, <2>2 DEF RulingInv
  <2>4. cards'[x] = cards[x]
    BY <1>0, <1>9, <2>2, <2>3 DEF Commit, Abort
  <2> QED
    BY <1>1, <2>2, <2>4
<1>10. CASE UNCHANGED vars
  BY <1>1, <1>10 DEF vars, local
<1> QED
  BY <1>2, <1>3, <1>4, <1>6, <1>7, <1>8, <1>9, <1>10 DEF Next, Proceed

(* Of the journal itself: an entry an open batch has inserted is about a row  *)
(* it holds, says of it what the batch has written, and has an id larger     *)
(* than any committed entry of that card.  That takes the row's lock: nobody *)
(* else can insert an entry of the card until the batch ends.                *)

EntryOf(t, c) ==
  /\ entry[t][c].id <= ids
  /\ entry[t][c].id > 0 => pc[t] = "automatic" /\ c \in drafted[t]
  /\ pc[t] = "automatic" /\ c \in drafted[t] =>
       entry[t][c].id > journal[c].id /\ entry[t][c].after = After(draft[t][c])

EntryInv ==
  /\ \A c \in Cards : journal[c].id <= ids
  /\ \A t \in Txs, c \in Cards : EntryOf(t, c)

(* The state put together for the journal is that of the row the UPDATE      *)
(* leaves.                                                                   *)
LEMMA RecordsWhatIsWritten ==
  ASSUME NEW r \in Row, NEW v \in Verdicts
  PROVE  Recorded(r, v) = After(Decided(r, v))
<1>1. CASE v = "eligible"
  BY <1>1 DEF Recorded, After, Decided, Row, Absence
<1>2. CASE v # "eligible"
  <2>1. After(Decided(r, v)) =
          [r EXCEPT !.by = Absence, !.feed = FALSE, !.listed = FALSE, !.reason = v]
    BY <1>2 DEF After, Decided, Row
  <2>2. Recorded(r, v) = [After(r) EXCEPT !.feed = FALSE, !.listed = FALSE, !.reason = v]
    BY <1>2, AfterType DEF Recorded, Row
  <2> QED
    BY <2>1, <2>2 DEF After, Row
<1> QED
  BY <1>1, <1>2

LEMMA EntryInvariance ==
  TypeOK /\ RulingInv /\ BatchInv /\ EntryInv /\ [Next]_vars => EntryInv'
<1> SUFFICES ASSUME TypeOK, RulingInv, BatchInv, EntryInv, [Next]_vars PROVE EntryInv'
  OBVIOUS
<1>0. /\ Nobody \notin Txs /\ ids \in Nat
      /\ \A c \in Cards : journal[c].id \in Nat /\ journal[c].id <= ids
      /\ \A t \in Txs, c \in Cards : entry[t][c].id \in Nat
  BY CurationAssumption DEF TypeOK, Entry, EntryInv
<1>1. ASSUME UNCHANGED <<journal, ids, entry>>,
             \A u \in Txs, x \in Cards :
               /\ entry[u][x].id > 0 => pc'[u] = "automatic" /\ x \in drafted'[u]
               /\ pc'[u] = "automatic" /\ x \in drafted'[u] =>
                    pc[u] = "automatic" /\ x \in drafted[u] /\ draft'[u][x] = draft[u][x]
      PROVE  EntryInv'
  <2>1. ASSUME NEW u \in Txs, NEW x \in Cards PROVE EntryOf(u, x)'
    <3>1. EntryOf(u, x)
      BY DEF EntryInv
    <3> QED
      BY <1>1, <3>1 DEF EntryOf, After
  <2>2. \A x \in Cards : journal'[x].id <= ids'
    BY <1>0, <1>1
  <2> QED
    BY <2>1, <2>2 DEF EntryInv
<1>2. ASSUME NEW c \in Cards, NEW p \in Patches, AdminSetFlags(c, p) PROVE EntryInv'
  <2> DEFINE new == [id |-> ids', after |-> After(Patched(cards[c], p))]
  <2>1. /\ lock[c] = Nobody /\ ids' = ids + 1 /\ UNCHANGED <<pc, entry, draft, drafted>>
        /\ journal' = [journal EXCEPT ![c] = Later(journal[c], new)]
    BY <1>2 DEF AdminSetFlags, local
  <2>2. new.id = ids + 1
    BY <2>1
  <2> HIDE DEF new
  <2>3. journal'[c] = new /\ \A x \in Cards \ {c} : journal'[x] = journal[x]
    BY <1>0, <2>1, <2>2 DEF Later, TypeOK
  <2>4. \A t \in Txs : c \notin drafted[t]
    BY <1>0, <2>1 DEF RulingInv
  <2> QED
    BY <1>0, <2>1, <2>2, <2>3, <2>4 DEF EntryInv, EntryOf, After
<1>3. ASSUME NEW t \in Txs, NEW kind \in {"automatic", "import", "revocation"}, Start(t, kind)
      PROVE  EntryInv'
  <2>1. /\ UNCHANGED <<journal, ids, entry, draft, drafted>>
        /\ pc[t] = "idle" /\ pc' = [pc EXCEPT ![t] = kind]
    BY <1>3 DEF Start
  <2>2. drafted[t] = {}
    BY <2>1 DEF BatchInv
  <2> QED
    BY <1>1, <2>1, <2>2 DEF EntryInv, EntryOf, TypeOK
<1>4. ASSUME NEW t \in Txs, NEW c \in Cards, SkipMissing(t, c) PROVE EntryInv'
  BY <1>1, <1>4 DEF SkipMissing, EntryInv, EntryOf
<1>5. ASSUME NEW t \in Txs, NEW c \in Cards, Decide(t, c) PROVE EntryInv'
  <2>1. CASE UNCHANGED <<draft, drafted, entry, ids>>
    BY <1>1, <1>5, <2>1 DEF Decide, EntryInv, EntryOf
  <2>2. CASE ~UNCHANGED <<draft, drafted, entry, ids>>
    <3> DEFINE row == Decided(cards[c], verdict[t][c])
               new == [id |-> ids', after |-> Recorded(cards[c], verdict[t][c])]
    <3>1. /\ pc[t] = "automatic" /\ UNCHANGED <<pc, journal>> /\ lock[c] = Nobody
          /\ draft' = [draft EXCEPT ![t] = [draft[t] EXCEPT ![c] = row]]
          /\ drafted' = [drafted EXCEPT ![t] = drafted[t] \union {c}]
          /\ ids' = ids + 1
          /\ entry' = [entry EXCEPT ![t] = [entry[t] EXCEPT ![c] = new]]
      BY <1>5, <2>2 DEF Decide, Take, Free, Write, Insert
    <3>2. new.id = ids + 1 /\ new.after = After(row)
      BY <3>1, RecordsWhatIsWritten DEF TypeOK
    <3> HIDE DEF row, new
    <3>3. /\ draft'[t][c] = row /\ entry'[t][c] = new /\ c \in drafted'[t]
          /\ \A u \in Txs, x \in Cards : ~(u = t /\ x = c) =>
               /\ draft'[u][x] = draft[u][x] /\ entry'[u][x] = entry[u][x]
               /\ x \in drafted'[u] <=> x \in drafted[u]
      BY <3>1 DEF TypeOK
    <3>4. EntryOf(t, c)'
      BY <1>0, <3>1, <3>2, <3>3 DEF EntryOf, After
    <3>5. ASSUME NEW u \in Txs, NEW x \in Cards, ~(u = t /\ x = c) PROVE EntryOf(u, x)'
      <4>1. EntryOf(u, x)
        BY DEF EntryInv
      <4> QED
        BY <1>0, <3>1, <3>3, <3>5, <4>1 DEF EntryOf, After
    <3>6. \A x \in Cards : journal'[x].id <= ids'
      BY <1>0, <3>1
    <3> QED
      BY <3>4, <3>5, <3>6 DEF EntryInv
  <2> QED
    BY <2>1, <2>2
<1>6. ASSUME NEW t \in Txs, NEW c \in Cards, Import(t, c) \/ PutOut(t, c) PROVE EntryInv'
  <2>1. /\ pc[t] \in {"import", "revocation"} /\ UNCHANGED <<journal, ids, entry, pc>>
    BY <1>6 DEF Import, PutOut
  <2>2. \A u \in Txs \ {t} : UNCHANGED <<draft[u], drafted[u]>>
    BY <1>6 DEF Import, PutOut, Write, TypeOK
  <2> QED
    BY <1>1, <2>1, <2>2 DEF EntryInv, EntryOf
<1>7. ASSUME NEW t \in Txs, Commit(t) \/ Abort(t) PROVE EntryInv'
  <2>1. /\ Finish(t) /\ UNCHANGED ids
        /\ \/ UNCHANGED journal
           \/ journal' = [c \in Cards |-> Later(journal[c], entry[t][c])]
    BY <1>7 DEF Commit, Abort
  <2>2. /\ pc'[t] = "idle" /\ drafted'[t] = {}
        /\ \A c \in Cards : entry'[t][c] = NoEntry
        /\ \A u \in Txs \ {t} : UNCHANGED <<pc[u], draft[u], drafted[u], entry[u]>>
    BY <2>1 DEF Finish, TypeOK
  <2>3. ASSUME NEW c \in Cards PROVE EntryOf(t, c)'
    BY <1>0, <2>1, <2>2 DEF EntryOf, NoEntry
  <2>4. ASSUME NEW u \in Txs \ {t}, NEW c \in Cards PROVE EntryOf(u, c)'
    <3>1. c \in drafted[u] => journal'[c] = journal[c]
      <4>1. c \in drafted[u] => c \notin drafted[t]
        BY DEF RulingInv
      <4>2. c \notin drafted[t] => entry[t][c].id = 0
        BY <1>0 DEF EntryInv, EntryOf
      <4> QED
        BY <1>0, <2>1, <4>1, <4>2 DEF Later
    <3>2. EntryOf(u, c)
      BY DEF EntryInv
    <3> QED
      BY <2>1, <2>2, <3>1, <3>2 DEF EntryOf, After
  <2>5. ASSUME NEW c \in Cards PROVE journal'[c].id <= ids'
    BY <1>0, <2>1 DEF Later, EntryInv, EntryOf
  <2> QED
    BY <2>3, <2>4, <2>5 DEF EntryInv
<1>8. CASE UNCHANGED vars
  BY <1>1, <1>8 DEF vars, local, EntryInv, EntryOf
<1> QED
  BY <1>2, <1>3, <1>4, <1>5, <1>6, <1>7, <1>8 DEF Next, Proceed

(* The part of JournalIsTrue about one card. *)
Told(c) ==
  journal[c].id > 0 =>
    \/ journal[c].after = After(cards[c])
    \/ c \in revoked /\ Out(journal[c].after) = After(cards[c])

JournalledIsThere(c) == journal[c].id > 0 => cards[c].there

(* Hiding twice is hiding once, and the journal does not say who hid. *)
LEMMA PuttingOut ==
  ASSUME NEW r \in Row
  PROVE  Out(After(r)) = After(Out(r)) /\ Out(Out(r)) = Out(r)
<1> DEFINE yes == TRUE
           nobody == Absence
<1>1. Out(r) = [r EXCEPT !.hidden = yes] /\ After(r) = [r EXCEPT !.by = nobody]
  BY DEF Out, After
<1> QED
  BY DEF Out, After, Row

LEMMA CommitRecords ==
  ASSUME TypeOK, DraftInv, EntryInv, \A c \in Cards : Told(c) /\ JournalledIsThere(c),
         NEW t \in Txs, Commit(t), NEW c \in Cards
  PROVE  Told(c)' /\ JournalledIsThere(c)'
<1>1. /\ cards' = [x \in Cards |-> IF x \in drafted[t] THEN draft[t][x] ELSE cards[x]]
      /\ journal' = [x \in Cards |-> Later(journal[x], entry[t][x])]
      /\ revoked' = IF pc[t] = "revocation" THEN revoked \union drafted[t] ELSE revoked
      /\ pc[t] \in {"automatic", "import", "revocation"}
  BY DEF Commit, TypeOK
<1>2. /\ entry[t][c].id \in Nat /\ journal[c].id \in Nat /\ EntryOf(t, c)
      /\ cards[c] \in Row /\ journal[c].after \in Row /\ draft[t][c] \in Row
  BY DEF TypeOK, Entry, EntryInv
<1>3. ~(pc[t] = "automatic" /\ c \in drafted[t]) => journal'[c] = journal[c]
  BY <1>1, <1>2 DEF EntryOf, Later
<1>4. CASE c \notin drafted[t]
  <2>1. cards'[c] = cards[c] /\ journal'[c] = journal[c] /\ (c \in revoked => c \in revoked')
    BY <1>1, <1>3, <1>4
  <2> QED
    BY <2>1 DEF Told, JournalledIsThere
<1>5. CASE c \in drafted[t] /\ pc[t] = "automatic"
  <2>1. cards'[c] = draft[t][c] /\ journal'[c].after = After(draft[t][c]) /\ draft[t][c].there
    BY <1>1, <1>2, <1>5 DEF EntryOf, Later, DraftInv, DraftOf
  <2> QED
    BY <2>1 DEF Told, After, JournalledIsThere
<1>6. CASE c \in drafted[t] /\ pc[t] = "import"
  <2>1. ~cards[c].there /\ journal'[c] = journal[c]
    BY <1>3, <1>6 DEF DraftInv, DraftOf
  <2> QED
    BY <2>1 DEF Told, JournalledIsThere
<1>7. CASE c \in drafted[t] /\ pc[t] = "revocation"
  <2>1. cards'[c] = Out(cards[c]) /\ journal'[c] = journal[c] /\ c \in revoked'
    BY <1>1, <1>3, <1>7 DEF DraftInv, DraftOf
  <2>2. Out(cards[c]).there = cards[c].there
    BY <1>2 DEF Out, Row
  <2>3. ASSUME journal[c].after = After(cards[c])
        PROVE  Out(journal[c].after) = After(Out(cards[c]))
    BY <1>2, <2>3, PuttingOut
  <2>4. ASSUME Out(journal[c].after) = After(cards[c])
        PROVE  Out(journal[c].after) = After(Out(cards[c]))
    <3>1. Out(After(cards[c])) = After(cards[c])
      BY <1>2, <2>4, PuttingOut
    <3> QED
      BY <1>2, <2>4, <3>1, PuttingOut
  <2>5. journal[c].id > 0 => Out(journal[c].after) = After(Out(cards[c]))
    BY <2>3, <2>4 DEF Told
  <2> QED
    BY <2>1, <2>2, <2>5 DEF Told, After, JournalledIsThere
<1> QED
  BY <1>1, <1>4, <1>5, <1>6, <1>7

(* The entry of a card with the largest id says what the card is, unless a    *)
(* revocation has hidden it since, however patches, batches and imports       *)
(* interleave (tgevents/repository.go:241-243, automatic.go:79-88).           *)
THEOREM JournalTellsTheTruth == Spec => []JournalIsTrue
<1> DEFINE Journalled == \A c \in Cards : Told(c) /\ JournalledIsThere(c)
<1>1. Init => RulingInv /\ BatchInv /\ DraftInv /\ EntryInv /\ Journalled
  BY CurationAssumption
     DEF Init, RulingInv, Carries, BatchInv, DraftInv, EntryInv, EntryOf, Told,
         JournalledIsThere, NoEntry
<1>2. TypeOK /\ DraftInv /\ EntryInv /\ Journalled /\ [Next]_vars => Journalled'
  <2> SUFFICES ASSUME TypeOK, DraftInv, EntryInv, Journalled, [Next]_vars, NEW c \in Cards
               PROVE  Told(c)' /\ JournalledIsThere(c)'
    OBVIOUS
  <2>1. ASSUME UNCHANGED <<cards, journal, revoked>> PROVE Told(c)' /\ JournalledIsThere(c)'
    BY <2>1 DEF Told, After, JournalledIsThere
  <2>2. ASSUME NEW x \in Cards, NEW p \in Patches, AdminSetFlags(x, p)
        PROVE  Told(c)' /\ JournalledIsThere(c)'
    <3>1. CASE c = x
      <4> DEFINE row == Patched(cards[c], p)
                 new == [id |-> ids', after |-> After(row)]
      <4>1. /\ cards'[c] = row /\ journal'[c] = Later(journal[c], new) /\ ids' = ids + 1
        BY <2>2, <3>1 DEF AdminSetFlags, TypeOK
      <4>2. new.id = ids + 1 /\ new.after = After(row) /\ row.there
        BY <4>1 DEF Patched
      <4>3. journal[c].id \in Nat /\ ids \in Nat /\ journal[c].id <= ids
        BY DEF TypeOK, Entry, EntryInv
      <4> HIDE DEF row, new
      <4>4. journal'[c] = new
        BY <4>1, <4>2, <4>3 DEF Later
      <4> QED
        BY <4>1, <4>2, <4>4 DEF Told, After, JournalledIsThere
    <3>2. CASE c # x
      <4>1. cards'[c] = cards[c] /\ journal'[c] = journal[c] /\ (c \in revoked => c \in revoked')
        BY <2>2, <3>2 DEF AdminSetFlags, TypeOK
      <4> QED
        BY <4>1 DEF Told, JournalledIsThere
    <3> QED
      BY <3>1, <3>2
  <2>3. ASSUME NEW t \in Txs, NEW kind \in {"automatic", "import", "revocation"}, Start(t, kind)
        PROVE  Told(c)' /\ JournalledIsThere(c)'
    BY <2>1, <2>3 DEF Start
  <2>4. ASSUME NEW t \in Txs, NEW x \in Cards,
               SkipMissing(t, x) \/ Decide(t, x) \/ Import(t, x) \/ PutOut(t, x)
        PROVE  Told(c)' /\ JournalledIsThere(c)'
    BY <2>1, <2>4 DEF SkipMissing, Decide, Import, PutOut
  <2>5. ASSUME NEW t \in Txs, Commit(t) PROVE Told(c)' /\ JournalledIsThere(c)'
    BY <2>5, CommitRecords
  <2>6. ASSUME NEW t \in Txs, Abort(t) PROVE Told(c)' /\ JournalledIsThere(c)'
    BY <2>1, <2>6 DEF Abort
  <2>7. CASE UNCHANGED vars
    BY <2>1, <2>7 DEF vars
  <2> QED
    BY <2>2, <2>3, <2>4, <2>5, <2>6, <2>7 DEF Next, Proceed
<1>3. Journalled => JournalIsTrue
  BY DEF Told, JournalIsTrue, Out
<1> QED
  BY <1>1, <1>2, <1>3, Typing, RulingInvariance, BatchInvariance, DraftInvariance,
     EntryInvariance, PTL DEF Spec
=============================================================================
