------------------------------ MODULE Curation ------------------------------
(***************************************************************************)
(* Who decides what is shown of the collected events (internal/tgevents):  *)
(* curators patch the flags of a card, the automatic reviewer publishes or *)
(* excludes batches of cards, the import rewrites their contents, and a    *)
(* revoked source puts out its cards.  All of them lock the rows they      *)
(* write until they commit, READ COMMITTED, in orders of their own.        *)
(*                                                                         *)
(* Of a card only the flags that say whether it is shown are kept, with    *)
(* why and by whom it was taken down; anchor and featured are columns that *)
(* nothing else depends on.                                                *)
(***************************************************************************)
EXTENDS Naturals, FiniteSets

CONSTANTS
  Cards,      \* ids of cards, in the order of their ids
  Txs,        \* transactions over many cards that may be open at once
  Nobody,     \* the holder of a free row
  Patches,    \* patches a curator sends
  Exclusions, \* reasons to exclude a card
  Orders,     \* orders in which an import or a revocation may meet cards
  Queue,      \* cards of the moderation queue there was before
  Revocable,  \* cards of sources that get revoked
  MaxPatches, \* bound: patches of a behaviour
  MaxEntries  \* bound: ids of the journal drawn before a batch draws another

Absence == "none"  \* a field that is NULL, or not named by a patch

ASSUME CurationAssumption ==
  /\ Cards \subseteq Nat /\ Queue \subseteq Cards /\ Revocable \subseteq Cards
  /\ Nobody \notin Txs
  /\ Exclusions \intersect {Absence, "eligible", "curator"} = {}
  /\ Orders \subseteq [Cards -> Nat]
  /\ MaxPatches \in Nat /\ MaxEntries \in Nat
  /\ Patches \subseteq [feed : {Absence, "yes", "no"}, hidden : {Absence, "yes", "no"},
                        listed : {Absence, "yes", "no"}, reason : {Absence, "curator"}]

VARIABLES
  cards,    \* afisha_tg_events: the committed flags
  journal,  \* afisha_curation_log: of each card the entry with the largest id
  ids,      \* the last id drawn from its sequence
  lock,     \* the transaction holding each row
  pc,       \* what each transaction is: idle, automatic, import, revocation
  todo,     \* cards it has still to process
  order,    \* the order in which it meets them
  verdict,  \* the decisions of an automatic batch
  draft,    \* the rows it has written
  drafted,  \* which rows those are
  entry,    \* the entries of the journal it has inserted about them
  patches,  \* patches so far
  down,     \* cards a curator has taken down: unlisted, hidden or both
  revoked   \* cards put out with their source, until a curator shows them

local == <<todo, order, verdict, draft, drafted, entry>>
vars == <<cards, journal, ids, lock, pc, local, patches, down, revoked>>

Verdicts == Exclusions \union {"eligible"}
Reasons == Exclusions \union {Absence, "curator"}
Row == [there : BOOLEAN, feed : BOOLEAN, hidden : BOOLEAN, listed : BOOLEAN,
        reason : Reasons, by : {Absence, "curator", "automatic"}]

Missing == [there |-> FALSE, feed |-> FALSE, hidden |-> FALSE, listed |-> FALSE,
            reason |-> Absence, by |-> Absence]
(* The defaults of a card's columns, and a card of the old moderation queue. *)
NewCard == [Missing EXCEPT !.there = TRUE, !.listed = TRUE]
Queued == [NewCard EXCEPT !.hidden = TRUE]

(* What an entry records of a card ("after"): the flags, and not who took   *)
(* it down.                                                                 *)
After(r) == [r EXCEPT !.by = Absence]

Entry == [id : Nat, after : Row]
NoEntry == [id |-> 0, after |-> Missing]

(* Of two entries the one that the journal has last, by its primary key.    *)
Later(e, f) == IF f.id > e.id THEN f ELSE e

ById == [c \in Cards |-> c]
Eligible == [c \in Cards |-> "eligible"]

Init ==
  /\ cards = [c \in Cards |-> IF c \in Queue THEN Queued ELSE Missing]
  /\ journal = [c \in Cards |-> NoEntry]
  /\ ids = 0
  /\ lock = [c \in Cards |-> Nobody]
  /\ pc = [t \in Txs |-> "idle"]
  /\ todo = [t \in Txs |-> {}]
  /\ order = [t \in Txs |-> ById]
  /\ verdict = [t \in Txs |-> Eligible]
  /\ draft = [t \in Txs |-> [c \in Cards |-> Missing]]
  /\ drafted = [t \in Txs |-> {}]
  /\ entry = [t \in Txs |-> [c \in Cards |-> NoEntry]]
  /\ patches = 0
  /\ down = [c \in Cards |-> {}]
  /\ revoked = {}

-----------------------------------------------------------------------------
(* AdminSetFlags: one UPDATE, its entry in the journal, COMMIT.  The entry  *)
(* is of the row the UPDATE returns.                                        *)

Given(new, old) == IF new = Absence THEN old ELSE new = "yes"

(* Mutant: a hide alone leaves the automatic reviewer in charge. *)
OwnerByListing(r, p) ==
  CASE p.listed = "no" -> "curator"
    [] p.listed = "yes" -> Absence
    [] OTHER -> IF p.hidden = "no" /\ r.listed THEN Absence ELSE r.by

(* Mutant: an actor that is not named is stored as it is. *)
OwnerUndefaulted(r, p) ==
  IF p.listed = "no" \/ p.hidden = "yes" THEN "" ELSE r.by

(* hidden_by: an unlisting or a hide takes the card over, a listing or an   *)
(* unhide of a listed card gives it up.  r is the row before the patch.     *)
Owner(r, p) ==
  CASE p.listed = "no" \/ p.hidden = "yes" -> "curator"
    [] p.hidden # "yes" /\ p.listed = "yes" -> Absence
    [] p.hidden # "yes" /\ p.listed = Absence ->
         IF p.hidden = "no" /\ r.listed THEN Absence ELSE r.by

(* hide_reason changes only with listed. *)
Why(r, p) ==
  CASE p.listed = "no" -> IF p.reason = Absence THEN r.reason ELSE p.reason
    [] p.listed = "yes" -> Absence
    [] p.listed = Absence -> r.reason

Patched(r, p) ==
  [there |-> TRUE, feed |-> Given(p.feed, r.feed), hidden |-> Given(p.hidden, r.hidden),
   listed |-> Given(p.listed, r.listed), reason |-> Why(r, p), by |-> Owner(r, p)]

(* What the curator has taken down and not put back since.  Listing a card  *)
(* counts as putting it back, as in the journal ("unhide").                 *)
Ruling(d, p) ==
  ({x \in d : ~(x = "unlisted" /\ p.listed = "yes")
              /\ ~(x = "hidden" /\ (p.hidden = "no" \/ p.listed = "yes"))})
  \union (IF p.listed = "no" THEN {"unlisted"} ELSE {})
  \union (IF p.hidden = "yes" THEN {"hidden"} ELSE {})

AdminSetFlags(c, p) ==
  /\ cards[c].there /\ lock[c] = Nobody
  /\ patches < MaxPatches
  /\ patches' = patches + 1
  /\ cards' = [cards EXCEPT ![c] = Patched(@, p)]
  /\ ids' = ids + 1
  /\ journal' = [journal EXCEPT ![c] =
       Later(@, [id |-> ids', after |-> After(Patched(cards[c], p))])]
  /\ down' = [down EXCEPT ![c] = Ruling(@, p)]
  /\ revoked' = IF p.hidden = "no" THEN revoked \ {c} ELSE revoked
  /\ UNCHANGED <<lock, pc, local>>

-----------------------------------------------------------------------------
(* Transactions over many cards.                                            *)

(* Mutant: decisions are taken in the order they were sent. *)
SortedAsSent == Orders

Sorted == {ById}

(* AutomaticDecisions sorts its batch by id; an import goes through its     *)
(* file; a revocation updates the rows in whatever order the plan finds     *)
(* the visible cards of its sources.                                        *)
Start(t, kind) ==
  /\ pc[t] = "idle"
  /\ pc' = [pc EXCEPT ![t] = kind]
  /\ \/ /\ kind = "automatic"
        /\ \E S \in SUBSET Cards \ {{}} : \E v \in [S -> Verdicts] :
             /\ todo' = [todo EXCEPT ![t] = S]
             /\ verdict' = [verdict EXCEPT ![t] =
                  [c \in Cards |-> IF c \in S THEN v[c] ELSE "eligible"]]
        /\ \E o \in Sorted : order' = [order EXCEPT ![t] = o]
     \/ /\ kind = "import"
        /\ \E S \in SUBSET Cards \ {{}} : todo' = [todo EXCEPT ![t] = S]
        /\ \E o \in Orders : order' = [order EXCEPT ![t] = o]
        /\ UNCHANGED verdict
     \/ /\ kind = "revocation"
        /\ todo' = [todo EXCEPT ![t] =
             {c \in Revocable : cards[c].there /\ ~cards[c].hidden}]
        /\ \E o \in Orders : order' = [order EXCEPT ![t] = o]
        /\ UNCHANGED verdict
  /\ UNCHANGED <<cards, journal, ids, lock, draft, drafted, entry, patches, down, revoked>>

(* The card a transaction has come to. *)
Turn(t, c) == c \in todo[t] /\ \A d \in todo[t] : order[t][c] <= order[t][d]

Free(c) == lock[c] = Nobody

(* The row is taken until the end of the transaction. *)
Take(t, c) ==
  /\ Free(c)
  /\ lock' = [lock EXCEPT ![c] = t]
  /\ todo' = [todo EXCEPT ![t] = @ \ {c}]

Write(t, c, row) ==
  /\ draft' = [draft EXCEPT ![t][c] = row]
  /\ drafted' = [drafted EXCEPT ![t] = @ \union {c}]

(* A card someone else has taken down is left alone. *)
Protected(r) == r.by # "automatic" /\ (~r.listed \/ r.reason # Absence \/ r.by # Absence)

(* Mutant: a decision is written again whenever it is sent again. *)
SettledNever(r, v) == FALSE

(* The decision is in force already. *)
Settled(r, v) ==
  IF v = "eligible"
    THEN r.feed /\ r.listed /\ ~r.hidden /\ r.reason = Absence
    ELSE r.by = "automatic" /\ ~r.feed /\ ~r.listed /\ r.reason = v

Decided(r, v) ==
  IF v = "eligible"
    THEN [r EXCEPT !.feed = TRUE, !.listed = TRUE, !.hidden = FALSE,
                   !.reason = Absence, !.by = Absence]
    ELSE [r EXCEPT !.feed = FALSE, !.listed = FALSE, !.reason = v, !.by = "automatic"]

(* A card that has not been committed yet is missing, and is not waited for. *)
SkipMissing(t, c) ==
  /\ pc[t] = "automatic" /\ Turn(t, c) /\ ~cards[c].there
  /\ todo' = [todo EXCEPT ![t] = @ \ {c}]
  /\ UNCHANGED <<cards, journal, ids, lock, pc, order, verdict, draft, drafted, entry,
                 patches, down, revoked>>

(* Mutant: the entry of a card put on show again says that it is hidden. *)
RecordedStillHidden(r, v) ==
  IF v = "eligible"
    THEN [After(r) EXCEPT !.feed = TRUE, !.listed = TRUE, !.reason = Absence]
    ELSE [After(r) EXCEPT !.feed = FALSE, !.listed = FALSE, !.reason = v]

(* The entry is not of the row the UPDATE leaves: it is put together from   *)
(* the row that was read before and the decision.                           *)
Recorded(r, v) ==
  LET publish == v = "eligible"
  IN  [After(r) EXCEPT !.feed = publish, !.listed = publish,
                       !.hidden = IF publish THEN FALSE ELSE @,
                       !.reason = IF publish THEN Absence ELSE v]

(* logCuration: the id is drawn at the INSERT and not given back.           *)
Insert(t, c, after) ==
  /\ ids' = ids + 1
  /\ entry' = [entry EXCEPT ![t][c] = [id |-> ids', after |-> after]]

Decide(t, c) ==
  /\ pc[t] = "automatic" /\ Turn(t, c) /\ cards[c].there
  /\ Take(t, c)
  /\ IF Protected(cards[c]) \/ Settled(cards[c], verdict[t][c])
       THEN UNCHANGED <<draft, drafted, entry, ids>>
       ELSE /\ ids < MaxEntries
            /\ Write(t, c, Decided(cards[c], verdict[t][c]))
            /\ Insert(t, c, Recorded(cards[c], verdict[t][c]))
  /\ UNCHANGED <<cards, journal, pc, order, verdict, patches, down, revoked>>

(* UpsertBulk: a new card gets the defaults; of a card that is there the    *)
(* flags are not among the columns the import writes.                       *)
Import(t, c) ==
  /\ pc[t] = "import" /\ Turn(t, c)
  /\ Take(t, c)
  /\ IF cards[c].there THEN UNCHANGED <<draft, drafted>> ELSE Write(t, c, NewCard)
  /\ UNCHANGED <<cards, journal, ids, entry, pc, order, verdict, patches, down, revoked>>

(* UpsertSources: after the wait hidden = FALSE is looked at again. *)
PutOut(t, c) ==
  /\ pc[t] = "revocation" /\ Turn(t, c)
  /\ Take(t, c)
  /\ IF cards[c].hidden THEN UNCHANGED <<draft, drafted>>
                        ELSE Write(t, c, [cards[c] EXCEPT !.hidden = TRUE])
  /\ UNCHANGED <<cards, journal, ids, entry, pc, order, verdict, patches, down, revoked>>

Finish(t) ==
  /\ lock' = [c \in Cards |-> IF lock[c] = t THEN Nobody ELSE lock[c]]
  /\ pc' = [pc EXCEPT ![t] = "idle"]
  /\ todo' = [todo EXCEPT ![t] = {}]
  /\ order' = [order EXCEPT ![t] = ById]
  /\ verdict' = [verdict EXCEPT ![t] = Eligible]
  /\ draft' = [draft EXCEPT ![t] = [c \in Cards |-> Missing]]
  /\ drafted' = [drafted EXCEPT ![t] = {}]
  /\ entry' = [entry EXCEPT ![t] = [c \in Cards |-> NoEntry]]

(* The entries become visible with the rows.  An import and a revocation    *)
(* have none.                                                               *)
Commit(t) ==
  /\ pc[t] # "idle" /\ todo[t] = {}
  /\ cards' = [c \in Cards |-> IF c \in drafted[t] THEN draft[t][c] ELSE cards[c]]
  /\ journal' = [c \in Cards |-> Later(journal[c], entry[t][c])]
  /\ revoked' = IF pc[t] = "revocation" THEN revoked \union drafted[t] ELSE revoked
  /\ Finish(t)
  /\ UNCHANGED <<ids, patches, down>>

Abort(t) ==
  /\ pc[t] # "idle"
  /\ Finish(t)
  /\ UNCHANGED <<cards, journal, ids, patches, down, revoked>>

-----------------------------------------------------------------------------
(* Who waits for whom: the row a transaction has come to is another's.  A   *)
(* decision about a card that is not there does not wait.                   *)
WaitsFor(t, u) ==
  /\ t # u
  /\ \E c \in Cards : /\ Turn(t, c) /\ lock[c] = u
                      /\ pc[t] = "automatic" => cards[c].there

Proceed(t) ==
  Commit(t) \/ \E c \in Cards : SkipMissing(t, c) \/ Decide(t, c) \/ Import(t, c) \/ PutOut(t, c)

Next ==
  \/ \E c \in Cards, p \in Patches : AdminSetFlags(c, p)
  \/ \E t \in Txs :
       \/ \E kind \in {"automatic", "import", "revocation"} : Start(t, kind)
       \/ Proceed(t) \/ Abort(t)

Spec == Init /\ [][Next]_vars

-----------------------------------------------------------------------------
(* The variables keep their ranges. *)
TypeOK ==
  /\ cards \in [Cards -> Row]
  /\ journal \in [Cards -> Entry]
  /\ ids \in Nat
  /\ lock \in [Cards -> Txs \union {Nobody}]
  /\ pc \in [Txs -> {"idle", "automatic", "import", "revocation"}]
  /\ todo \in [Txs -> SUBSET Cards]
  /\ order \in [Txs -> [Cards -> Nat]]
  /\ verdict \in [Txs -> [Cards -> Verdicts]]
  /\ draft \in [Txs -> [Cards -> Row]]
  /\ drafted \in [Txs -> SUBSET Cards]
  /\ entry \in [Txs -> [Cards -> Entry]]
  /\ patches \in Nat
  /\ down \in [Cards -> SUBSET {"unlisted", "hidden"}]
  /\ revoked \subseteq Cards

(* "Row locks make a concurrent human rejection authoritative" (automatic.go: *)
(* 33): what a curator has taken down stays down until a curator puts it     *)
(* back, whatever batches, imports and revocations were under way meanwhile. *)
RulingsStand ==
  \A c \in Cards :
    /\ "unlisted" \in down[c] => ~cards[c].listed
    /\ "hidden" \in down[c] => cards[c].hidden

(* The journal is written in the transaction of the change it records        *)
(* (repository.go:241-243): its entry with the largest id, drawn while the   *)
(* row was locked, has the flags and the reason that the card has, whoever   *)
(* wrote last, unless a revocation has hidden the card since, which leaves   *)
(* no entry.  This is not said of created_at, the order of the journal's     *)
(* index (018_curation.sql:60-64): its default is the start of the           *)
(* transaction, and of two that overlap the first to start may write last.   *)
JournalIsTrue ==
  \A c \in Cards : journal[c].id > 0 =>
    \/ journal[c].after = After(cards[c])
    \/ c \in revoked /\ [journal[c].after EXCEPT !.hidden = TRUE] = After(cards[c])

(* "Decision retries keep updated_at stable" (docs/automatic-events.md:25):  *)
(* a row an automatic batch is about to write will be different, however     *)
(* long the batch has been under way.                                        *)
RetriesAreStable ==
  \A t \in Txs : pc[t] = "automatic" =>
    \A c \in drafted[t] : After(draft[t][c]) # After(cards[c]) \/ draft[t][c].by # cards[c].by

(* Batches are sorted by id so that two of them never wait for each other    *)
(* (automatic.go:42-43).                                                     *)
BatchesNeverBlockEachOther ==
  \A t, u \in Txs : pc[t] = "automatic" /\ pc[u] = "automatic" =>
    ~(WaitsFor(t, u) /\ WaitsFor(u, t))

=============================================================================
