-------------------------- MODULE BoardSignupProofs --------------------------
(* Theorems about BoardSignup, for any number of connections, events,       *)
(* contacts and profiles.                                                   *)
EXTENDS BoardSignup, FiniteSetTheorems, TLAPS

PcValues ==
  {"idle", "locking", "profile", "insert", "recover", "find", "announce", "commit"}

LEMMA AnyInRange == AnyEvent \in Events /\ AnyContact \in Contacts
BY SignupAssumption DEF AnyEvent, AnyContact

(* The end of a transaction keeps the variables it sets in their ranges. *)
LEMMA FinishTypes ==
  ASSUME TypeOK, NEW c \in Clients, NEW answer \in Replies, Finish(c, answer)
  PROVE  /\ eventLock' \in [Events -> Clients \union {Nobody}]
         /\ profLock' \in [Profiles -> Clients \union {Nobody}]
         /\ pc' \in [Clients -> PcValues]
         /\ event' \in [Clients -> Events]
         /\ contact' \in [Clients -> Contacts]
         /\ seen' \in [Clients -> Nat]
         /\ known' \in [Clients -> Refusals \union {"none"}]
         /\ aborted' \in [Clients -> BOOLEAN]
         /\ plan' \in [Clients -> {"none", "insert", "revive"}]
         /\ queued' \in [Clients -> SUBSET Addressees]
         /\ reply' \in [Clients -> Replies]
BY AnyInRange DEF TypeOK, Finish, Released, PcValues

(* The number of live registrations is a number. *)
LEMMA TakenType ==
  ASSUME NEW e \in Events
  PROVE  IsFiniteSet(Attending(e)) /\ Taken(e) \in Nat
<1>1. IsFiniteSet(Attending(e))
  BY SignupAssumption, FS_Subset DEF Attending
<1> QED
  BY <1>1, FS_CardinalityType DEF Taken

(* The variables keep their ranges in every behaviour of the board. *)
THEOREM Typing == Spec => []TypeOK
<1>1. Init => TypeOK
  BY AnyInRange, SignupAssumption DEF Init, TypeOK, Replies, Live
<1>2. TypeOK /\ [Next]_vars => TypeOK'
  <2> SUFFICES ASSUME TypeOK, [Next]_vars
               PROVE  TypeOK'
    OBVIOUS
  <2> USE DEF tables, locks, request, private
  <2>1. ASSUME NEW e \in Events, EventChanges(e)
        PROVE  TypeOK'
    BY <2>1 DEF EventChanges, TypeOK
  <2>12. ASSUME NEW e \in Events, DetailsChange(e)
         PROVE  TypeOK'
    BY <2>12 DEF DetailsChange, TypeOK
  <2>2. ASSUME NEW e \in Events, NEW p \in Profiles, Cancel(e, p)
        PROVE  TypeOK'
    BY <2>2 DEF Cancel, TypeOK, Live
  <2>3. ASSUME NEW c \in Clients, NEW e \in Events, NEW k \in Contacts, Begin(c, e, k)
        PROVE  TypeOK'
    BY <2>3, TakenType DEF Begin, TypeOK, Replies
  <2>4. ASSUME NEW c \in Clients, LockEvent(c)
        PROVE  TypeOK'
    BY <2>4 DEF LockEvent, TypeOK
  <2>5. ASSUME NEW c \in Clients, Refuse(c)
        PROVE  TypeOK'
    <3>1. PICK answer \in Replies : Finish(c, answer)
      BY <2>5 DEF Refuse, TypeOK, Replies
    <3> QED
      BY <2>5, <3>1, FinishTypes DEF Refuse, TypeOK, PcValues
  <2>6. ASSUME NEW c \in Clients, FindProfile(c) \/ InsertProfile(c) \/ RecoverProfile(c)
        PROVE  TypeOK'
    <3>0. Profile(c) \in Profiles
      BY SignupAssumption DEF TypeOK, Profile
    <3>1. CASE TakeProfile(c)
      BY <2>6, <3>0, <3>1 DEF FindProfile, InsertProfile, RecoverProfile, TakeProfile,
         BackToSavepoint, Finish, TypeOK
    <3>2. CASE Finish(c, "failed") /\ UNCHANGED <<tables, cancels>>
      BY <3>2, FinishTypes DEF TypeOK, PcValues, Replies
    <3>3. CASE ~TakeProfile(c) /\ ~(Finish(c, "failed") /\ UNCHANGED <<tables, cancels>>)
      BY <2>6, <3>3 DEF FindProfile, InsertProfile, RecoverProfile, BackToSavepoint, TypeOK
    <3> QED
      BY <3>1, <3>2, <3>3
  <2>7. ASSUME NEW c \in Clients, FindRegistration(c)
        PROVE  TypeOK'
    <3>1. CASE Finish(c, "already")
      BY <2>7, <3>1, FinishTypes DEF FindRegistration, TypeOK, PcValues, Replies
    <3>2. CASE ~Finish(c, "already")
      BY <2>7, <3>2 DEF FindRegistration, Write, TypeOK
    <3> QED
      BY <3>1, <3>2
  <2>8. ASSUME NEW c \in Clients, Announce(c)
        PROVE  TypeOK'
    <3>1. \A to \in Messages(c) : to \subseteq Addressees
      BY SignupAssumption DEF Messages, Addressees, TypeOK
    <3>2. queued' \in [Clients -> SUBSET Addressees] /\ aborted' \in [Clients -> BOOLEAN]
      BY <2>8, <3>1 DEF Announce, BackToSavepoint, TypeOK
    <3> QED
      BY <2>8, <3>2 DEF Announce, TypeOK
  <2>9. ASSUME NEW c \in Clients, Commit(c)
        PROVE  TypeOK'
    <3> DEFINE e == event[c]  p == Profile(c)
    <3>1. e \in Events /\ p \in Profiles /\ contact[c] \in Contacts
      BY SignupAssumption DEF TypeOK, Profile
    <3>2. PICK answer \in {"created", "error", "failed"} : Finish(c, answer)
      BY <2>9 DEF Commit
    <3>3. CASE aborted[c]
      BY <2>9, <3>2, <3>3, FinishTypes DEF Commit, TypeOK, PcValues, Replies
    <3>4. CASE ~aborted[c]
      <4>1. /\ device' = [device EXCEPT ![p] = IF Stored(p) THEN @ ELSE {contact[c]}]
            /\ status' = [status EXCEPT ![e][p] = NewStatus(e)]
            /\ rows' = IF plan[c] = "insert" THEN [rows EXCEPT ![e][p] = @ + 1] ELSE rows
            /\ signups' = [signups EXCEPT ![e][p] = @ + 1]
            /\ outbox' = [outbox EXCEPT ![e][p] =
                 [a \in Addressees |-> IF a \in queued[c] THEN @[a] + 1 ELSE @[a]]]
            /\ UNCHANGED <<refusal, details, cancels>>
        BY <2>9, <3>4 DEF Commit
      <4> HIDE DEF e, p
      <4>2. status' \in [Events -> [Profiles -> Live \union {"none", "cancelled"}]]
        BY <3>1, <4>1 DEF TypeOK, NewStatus, Live
      <4>3. rows' \in [Events -> [Profiles -> Nat]] /\ signups' \in [Events -> [Profiles -> Nat]]
        BY <3>1, <4>1 DEF TypeOK
      <4>4. outbox' \in [Events -> [Profiles -> [Addressees -> Nat]]]
        <5>1. [a \in Addressees |-> IF a \in queued[c] THEN outbox[e][p][a] + 1
                                                      ELSE outbox[e][p][a]]
                \in [Addressees -> Nat]
          BY <3>1 DEF TypeOK
        <5> QED
          BY <3>1, <4>1, <5>1 DEF TypeOK
      <4>5. device' \in [Profiles -> SUBSET Contacts]
        BY <3>1, <4>1 DEF TypeOK
      <4> QED
        BY <3>2, <4>1, <4>2, <4>3, <4>4, <4>5, FinishTypes DEF TypeOK, PcValues, Replies
    <3> QED
      BY <3>3, <3>4
  <2>10. ASSUME NEW c \in Clients, Abort(c)
         PROVE  TypeOK'
    BY <2>10, FinishTypes DEF Abort, TypeOK, PcValues, Replies
  <2>11. CASE UNCHANGED vars
    BY <2>11 DEF vars, TypeOK
  <2> QED
    BY <2>1, <2>2, <2>3, <2>4, <2>5, <2>6, <2>7, <2>8, <2>9, <2>10, <2>11, <2>12
       DEF Next, Proceed
<1> QED
  BY <1>1, <1>2, PTL DEF Spec

-----------------------------------------------------------------------------
(* Failures inside a transaction are recovered from.                        *)

(* A transaction looks a profile up again only where one is stored, and it  *)
(* has gone back to the savepoint before.                                   *)
Recovering ==
  \A c \in Clients : ~aborted[c] /\ (pc[c] = "recover" => Stored(Profile(c)))

(* What the three steps of upsertPublicProfile do to the locks: the profile *)
(* is taken, or is still to be.                                             *)
Resolving == {"profile", "insert", "recover"}

ProfileStep(c) ==
  /\ pc[c] \in Resolving
  /\ UNCHANGED <<tables, eventLock, request, plan, queued, reply, cancels>>
  /\ \/ /\ pc' = [pc EXCEPT ![c] = "find"]
        /\ profLock[Profile(c)] = Nobody
        /\ profLock' = [profLock EXCEPT ![Profile(c)] = c]
     \/ /\ \E stage \in {"insert", "recover"} : pc' = [pc EXCEPT ![c] = stage]
        /\ UNCHANGED profLock

Moved(c, stages) ==
  /\ pc[c] # "idle"
  /\ \E stage \in stages : pc' = [pc EXCEPT ![c] = stage]

LEMMA ProfileSteps ==
  ASSUME Recovering, NEW c \in Clients,
         FindProfile(c) \/ InsertProfile(c) \/ RecoverProfile(c)
  PROVE  ProfileStep(c)
BY DEF Recovering, FindProfile, InsertProfile, RecoverProfile, Found, TakeProfile,
   ProfileStep, Resolving, tables, locks, request, private

LEMMA ProfileStepMoves ==
  ASSUME NEW c \in Clients, ProfileStep(c)
  PROVE  Moved(c, {"insert", "recover", "find"}) /\ pc[c] \in Resolving
BY DEF ProfileStep, Moved, Resolving

(* So COMMIT does commit.                                                   *)
LEMMA CommitWrites ==
  ASSUME Recovering, NEW c \in Clients, Commit(c)
  PROVE  /\ pc[c] = "commit"
         /\ status' = [status EXCEPT ![event[c]][Profile(c)] = NewStatus(event[c])]
         /\ rows' = IF plan[c] = "insert"
                      THEN [rows EXCEPT ![event[c]][Profile(c)] = @ + 1] ELSE rows
         /\ signups' = [signups EXCEPT ![event[c]][Profile(c)] = @ + 1]
         /\ outbox' = [outbox EXCEPT ![event[c]][Profile(c)] =
              [a \in Addressees |-> IF a \in queued[c] THEN @[a] + 1 ELSE @[a]]]
         /\ \E answer \in {"created", "error"} : Finish(c, answer)
BY DEF Recovering, Commit

LEMMA RecoveringStep == TypeOK /\ Recovering /\ [Next]_vars => Recovering'
<1> SUFFICES ASSUME TypeOK, Recovering, [Next]_vars
             PROVE  Recovering'
  OBVIOUS
<1> USE DEF tables, locks, request, private
<1>1. ASSUME UNCHANGED <<device, pc, contact, aborted>>
      PROVE  Recovering'
  BY <1>1 DEF Recovering, Stored, Profile
<1>2. ASSUME NEW c \in Clients, NEW answer, Finish(c, answer),
             \A p \in Profiles : Stored(p) => Stored(p)'
      PROVE  Recovering'
  <2>1. \A d \in Clients : ~aborted'[d]
    BY <1>2 DEF Finish, Recovering, TypeOK
  <2>2. ASSUME NEW d \in Clients, pc'[d] = "recover"
        PROVE  Stored(Profile(d))'
    <3>1. pc[d] = "recover" /\ contact'[d] = contact[d]
      BY <1>2, <2>2 DEF Finish, TypeOK
    <3>2. Profile(d) \in Profiles /\ Profile(d)' = Profile(d)
      BY <3>1, SignupAssumption DEF TypeOK, Profile
    <3> QED
      BY <1>2, <3>1, <3>2 DEF Recovering, Stored
  <2> QED
    BY <2>1, <2>2 DEF Recovering
<1>3. ASSUME NEW c \in Clients, NEW answer, Finish(c, answer), UNCHANGED tables
      PROVE  Recovering'
  BY <1>2, <1>3 DEF Stored
<1>4. ASSUME NEW c \in Clients, pc'[c] = "recover" => Stored(Profile(c)),
             \A d \in Clients \ {c} : pc'[d] = pc[d] /\ contact'[d] = contact[d],
             contact'[c] = contact[c] \/ pc'[c] # "recover",
             \A d \in Clients : ~aborted'[d], UNCHANGED device
      PROVE  Recovering'
  BY <1>4 DEF Recovering, Stored, Profile
<1>5. ASSUME NEW c \in Clients, NEW e \in Events, NEW k \in Contacts, Begin(c, e, k)
      PROVE  Recovering'
  <2>1. pc'[c] # "recover" /\ \A d \in Clients \ {c} : pc'[d] = pc[d] /\ contact'[d] = contact[d]
    BY <1>5 DEF Begin, TypeOK
  <2> QED
    BY <1>4, <1>5, <2>1 DEF Begin, Recovering
<1>6. ASSUME NEW c \in Clients, LockEvent(c)
      PROVE  Recovering'
  <2>1. pc'[c] # "recover" /\ \A d \in Clients \ {c} : pc'[d] = pc[d]
    BY <1>6 DEF LockEvent, TypeOK
  <2> QED
    BY <1>4, <1>6, <2>1 DEF LockEvent, Recovering
<1>7. ASSUME NEW c \in Clients, FindProfile(c) \/ InsertProfile(c) \/ RecoverProfile(c)
      PROVE  Recovering'
  <2>1. pc'[c] = "recover" => Stored(Profile(c))
    <3>1. CASE TakeProfile(c)
      BY <3>1 DEF TakeProfile, TypeOK
    <3>2. CASE ~TakeProfile(c)
      BY <1>7, <3>2 DEF FindProfile, InsertProfile, RecoverProfile, Found, Recovering, TypeOK
    <3> QED
      BY <3>1, <3>2
  <2>2. \A d \in Clients : ~aborted'[d]
    <3>1. CASE TakeProfile(c)
      BY <1>7, <3>1 DEF FindProfile, InsertProfile, RecoverProfile, TakeProfile,
         BackToSavepoint, Recovering, TypeOK
    <3>2. CASE Finish(c, "failed")
      BY <3>2 DEF Finish, Recovering, TypeOK
    <3>3. CASE ~TakeProfile(c) /\ ~Finish(c, "failed")
      BY <1>7, <3>3 DEF FindProfile, InsertProfile, RecoverProfile, BackToSavepoint,
         Recovering, TypeOK
    <3> QED
      BY <3>1, <3>2, <3>3
  <2>3. UNCHANGED <<device, contact>> /\ \A d \in Clients \ {c} : pc'[d] = pc[d]
    BY <1>7, ProfileSteps, ProfileStepMoves DEF ProfileStep, Moved, TypeOK
  <2> QED
    BY <1>4, <2>1, <2>2, <2>3
<1>8. ASSUME NEW c \in Clients, FindRegistration(c)
      PROVE  Recovering'
  <2>1. CASE Finish(c, "already")
    BY <1>3, <1>8, <2>1 DEF FindRegistration
  <2>2. CASE ~Finish(c, "already")
    <3>1. pc'[c] # "recover" /\ \A d \in Clients \ {c} : pc'[d] = pc[d]
      BY <1>8, <2>2 DEF FindRegistration, TypeOK
    <3> QED
      BY <1>4, <1>8, <2>2, <3>1 DEF FindRegistration, Recovering
  <2> QED
    BY <2>1, <2>2
<1>9. ASSUME NEW c \in Clients, Announce(c)
      PROVE  Recovering'
  <2>1. pc'[c] # "recover" /\ \A d \in Clients \ {c} : pc'[d] = pc[d]
    BY <1>9 DEF Announce, TypeOK
  <2>2. \A d \in Clients : ~aborted'[d]
    BY <1>9 DEF Announce, BackToSavepoint, Recovering, TypeOK
  <2> QED
    BY <1>4, <1>9, <2>1, <2>2 DEF Announce
<1>10. ASSUME NEW c \in Clients, Commit(c)
       PROVE  Recovering'
  <2>1. PICK answer : Finish(c, answer)
    BY <1>10 DEF Commit
  <2>2. \A p \in Profiles : Stored(p) => Stored(p)'
    BY <1>10 DEF Commit, Recovering, Stored, TypeOK
  <2> QED
    BY <1>2, <2>1, <2>2
<1>11. ASSUME NEW c \in Clients, Refuse(c) \/ Abort(c)
       PROVE  Recovering'
  BY <1>3, <1>11 DEF Refuse, Abort
<1>12. ASSUME NEW e \in Events,
              EventChanges(e) \/ DetailsChange(e) \/ \E p \in Profiles : Cancel(e, p)
       PROVE  Recovering'
  BY <1>1, <1>12 DEF EventChanges, DetailsChange, Cancel
<1>13. CASE UNCHANGED vars
  BY <1>1, <1>13 DEF vars
<1> QED
  BY <1>5, <1>6, <1>7, <1>8, <1>9, <1>10, <1>11, <1>12, <1>13 DEF Next, Proceed

LEMMA RecoveringInvariance == Spec => []Recovering
<1>1. Init => Recovering
  BY DEF Init, Recovering
<1> QED
  BY <1>1, RecoveringStep, Typing, PTL DEF Spec

LEMMA RepliesStep == TypeOK /\ Recovering /\ RecoveriesHold /\ [Next]_vars => RecoveriesHold'
<1> SUFFICES ASSUME TypeOK, Recovering, RecoveriesHold, [Next]_vars
             PROVE  RecoveriesHold'
  OBVIOUS
<1> USE DEF tables, locks, request, private
<1>1. ASSUME UNCHANGED reply
      PROVE  RecoveriesHold'
  BY <1>1 DEF RecoveriesHold
<1>2. ASSUME NEW c \in Clients, NEW answer, Finish(c, answer), answer # "failed"
      PROVE  RecoveriesHold'
  BY <1>2 DEF RecoveriesHold, Finish, TypeOK
<1>3. ASSUME NEW c \in Clients, Refuse(c)
      PROVE  RecoveriesHold'
  <2>1. {refusal[event[c]], known[c]} \subseteq Refusals \union {"none"}
    BY DEF TypeOK
  <2>2. PICK answer : Finish(c, answer) /\ answer \in Refusals \union {"sold_out", "invalid_form"}
    BY <1>3, <2>1 DEF Refuse
  <2> QED
    BY <1>2, <2>2, SignupAssumption
<1>4. ASSUME NEW c \in Clients, Commit(c) \/ Abort(c)
      PROVE  RecoveriesHold'
  BY <1>2, <1>4, CommitWrites DEF Abort
<1>5. ASSUME NEW c \in Clients, FindRegistration(c)
      PROVE  RecoveriesHold'
  BY <1>1, <1>2, <1>5 DEF FindRegistration
<1>6. ASSUME NEW c \in Clients, NEW e \in Events, NEW k \in Contacts, Begin(c, e, k)
      PROVE  RecoveriesHold'
  BY <1>6 DEF Begin, RecoveriesHold, TypeOK
<1>7. ASSUME NEW c \in Clients, FindProfile(c) \/ InsertProfile(c) \/ RecoverProfile(c)
      PROVE  RecoveriesHold'
  BY <1>1, <1>7, ProfileSteps DEF ProfileStep
<1>8. \/ UNCHANGED reply
      \/ \E c \in Clients : Refuse(c) \/ FindRegistration(c) \/ Commit(c) \/ Abort(c)
      \/ \E c \in Clients : FindProfile(c) \/ InsertProfile(c) \/ RecoverProfile(c)
      \/ \E c \in Clients, e \in Events, k \in Contacts : Begin(c, e, k)
  BY DEF Next, Proceed, EventChanges, DetailsChange, Cancel, LockEvent, Announce, vars
<1> QED
  BY <1>1, <1>3, <1>4, <1>5, <1>6, <1>7, <1>8

(* Whoever signs up, over however many connections at once, no transaction  *)
(* fails by its own doing: not where the contact is an account's, not where *)
(* another request has just inserted the profile, not where the organizers  *)
(* cannot be looked up (repository.go:582-637, mail.go:231-241).            *)
THEOREM SignupsRecover == Spec => []RecoveriesHold
<1>1. Init => RecoveriesHold
  BY DEF Init, RecoveriesHold
<1> QED
  BY <1>1, RepliesStep, RecoveringInvariance, Typing, PTL DEF Spec

-----------------------------------------------------------------------------
(* One registration for each profile and event.                             *)

(* Transactions past the first statement hold the row of their event. *)
Inside == Resolving \union {"find", "announce", "commit"}

HoldsEvent == \A c \in Clients : pc[c] \in Inside => eventLock[event[c]] = c

(* What a transaction is about to insert is still missing. *)
StillMissing ==
  \A c \in Clients :
    pc[c] \in {"announce", "commit"} /\ plan[c] = "insert" =>
      rows[event[c]][Profile(c)] = 0

RowInv == HoldsEvent /\ StillMissing /\ OneRegistrationEach

(* A transaction other than c neither gains nor loses anything by a step of *)
(* c that leaves the registrations alone.                                   *)
LEMMA OtherKeepsItsLock ==
  ASSUME TypeOK, HoldsEvent, NEW c \in Clients, NEW answer, Finish(c, answer)
  PROVE  HoldsEvent'
BY SignupAssumption DEF TypeOK, HoldsEvent, Inside, Resolving, Finish, Released

LEMMA FinishKeepsMissing ==
  ASSUME TypeOK, StillMissing, NEW c \in Clients, NEW answer, Finish(c, answer),
         rows' = rows
  PROVE  StillMissing'
BY DEF TypeOK, StillMissing, Finish, Profile

LEMMA RowStep == TypeOK /\ Recovering /\ RowInv /\ [Next]_vars => RowInv'
<1> SUFFICES ASSUME TypeOK, Recovering, RowInv, [Next]_vars
             PROVE  RowInv'
  OBVIOUS
<1>0. HoldsEvent /\ StillMissing /\ OneRegistrationEach
  BY DEF RowInv
<1> USE DEF tables, locks, request, private
<1>1. ASSUME NEW e \in Events, EventChanges(e) \/ DetailsChange(e)
      PROVE  RowInv'
  BY <1>0, <1>1 DEF EventChanges, DetailsChange, RowInv, HoldsEvent, StillMissing,
     OneRegistrationEach, Profile
<1>2. ASSUME NEW e \in Events, NEW p \in Profiles, Cancel(e, p)
      PROVE  RowInv'
  BY <1>0, <1>2 DEF Cancel, RowInv, HoldsEvent, StillMissing,
     OneRegistrationEach, Profile
<1>3. ASSUME NEW c \in Clients, NEW e \in Events, NEW k \in Contacts, Begin(c, e, k)
      PROVE  RowInv'
  BY <1>0, <1>3 DEF Begin, RowInv, HoldsEvent, StillMissing, Inside, Resolving,
     OneRegistrationEach, Profile, TypeOK
<1>4. ASSUME NEW c \in Clients, LockEvent(c)
      PROVE  RowInv'
  BY <1>0, <1>4, SignupAssumption DEF LockEvent, RowInv, HoldsEvent, StillMissing,
     Inside, Resolving, OneRegistrationEach, Profile, TypeOK
<1>5. ASSUME NEW c \in Clients, NEW answer, Finish(c, answer), rows' = rows
      PROVE  RowInv'
  BY <1>0, <1>5, OtherKeepsItsLock, FinishKeepsMissing DEF RowInv, OneRegistrationEach
<1>6. ASSUME NEW c \in Clients, FindProfile(c) \/ InsertProfile(c) \/ RecoverProfile(c)
      PROVE  RowInv'
  <2>1. /\ UNCHANGED <<rows, event, contact, plan, eventLock>> /\ pc[c] \in Inside
        /\ Moved(c, {"insert", "recover", "find"})
    BY <1>6, ProfileSteps, ProfileStepMoves DEF ProfileStep, Inside
  <2> QED
    BY <1>0, <2>1 DEF Moved, RowInv, HoldsEvent, StillMissing, Inside, Resolving,
       OneRegistrationEach, Profile, TypeOK
<1>7. ASSUME NEW c \in Clients, FindRegistration(c), ~Finish(c, "already")
      PROVE  RowInv'
  <2>1. /\ pc[c] = "find" /\ pc' = [pc EXCEPT ![c] = "announce"]
        /\ plan' = [plan EXCEPT ![c] = Write(c)]
        /\ UNCHANGED <<rows, event, contact, eventLock>>
    BY <1>7 DEF FindRegistration
  <2> QED
    BY <1>0, <2>1 DEF Write, RowInv, HoldsEvent, StillMissing, Inside, Resolving,
       OneRegistrationEach, Profile, TypeOK
<1>8. ASSUME NEW c \in Clients, Announce(c)
      PROVE  RowInv'
  BY <1>0, <1>8 DEF Announce, RowInv, HoldsEvent, StillMissing, Inside, Resolving,
     OneRegistrationEach, Profile, TypeOK
<1>9. ASSUME NEW c \in Clients, Commit(c)
      PROVE  RowInv'
  <2>1. pc[c] = "commit"
    BY <1>9 DEF Commit
  <2>0. PICK answer \in {"created", "error"} : Finish(c, answer)
    BY <1>9, CommitWrites
  <2>2. HoldsEvent'
    BY <1>0, <2>0, OtherKeepsItsLock
  <2>3. event[c] \in Events /\ Profile(c) \in Profiles /\ eventLock[event[c]] = c
    BY <1>0, <2>1, SignupAssumption DEF TypeOK, Profile, HoldsEvent, Inside, Resolving
  <2>4. \A e \in Events, p \in Profiles :
          /\ e # event[c] => rows'[e][p] = rows[e][p]
          /\ rows'[e][p] = rows[e][p] \/ (plan[c] = "insert" /\ p = Profile(c) /\ rows'[e][p] = rows[e][p] + 1)
    BY <1>9, <2>3, CommitWrites DEF TypeOK
  <2>5. OneRegistrationEach'
    <3> SUFFICES ASSUME NEW e \in Events, NEW p \in Profiles
                 PROVE  rows'[e][p] <= 1
      BY DEF OneRegistrationEach
    <3>1. rows[e][p] <= 1 /\ rows[e][p] \in Nat
      BY <1>0 DEF OneRegistrationEach, TypeOK
    <3>2. plan[c] = "insert" => rows[event[c]][Profile(c)] = 0
      BY <1>0, <2>1 DEF StillMissing
    <3> QED
      BY <2>4, <3>1, <3>2
  <2>6. StillMissing'
    <3> SUFFICES ASSUME NEW d \in Clients, pc'[d] \in {"announce", "commit"},
                        plan'[d] = "insert"
                 PROVE  rows'[event'[d]][Profile(d)'] = 0
      BY DEF StillMissing
    <3>1. d # c /\ pc[d] = pc'[d] /\ plan[d] = "insert" /\ event'[d] = event[d]
          /\ contact'[d] = contact[d]
      BY <2>0, <2>1 DEF Finish, TypeOK
    <3>2. eventLock[event[d]] = d
      BY <1>0, <3>1 DEF HoldsEvent, Inside, Resolving
    <3>3. event[d] # event[c]
      BY <2>3, <3>1, <3>2
    <3>4. event[d] \in Events /\ Profile(d) \in Profiles /\ Profile(d)' = Profile(d)
      BY <3>1, SignupAssumption DEF TypeOK, Profile
    <3>5. rows[event[d]][Profile(d)] = 0
      BY <1>0, <3>1 DEF StillMissing
    <3> QED
      BY <2>4, <3>1, <3>3, <3>4, <3>5
  <2> QED
    BY <2>2, <2>5, <2>6 DEF RowInv
<1>10. CASE UNCHANGED vars
  BY <1>0, <1>10 DEF vars, RowInv, HoldsEvent, StillMissing, OneRegistrationEach, Profile
<1>11. ASSUME NEW c \in Clients, Refuse(c) \/ Abort(c)
       PROVE  RowInv'
  BY <1>5, <1>11 DEF Refuse, Abort
<1>12. ASSUME NEW c \in Clients, FindRegistration(c)
       PROVE  RowInv'
  BY <1>5, <1>7, <1>12 DEF FindRegistration
<1> QED
  BY <1>1, <1>2, <1>3, <1>4, <1>6, <1>8, <1>9, <1>10, <1>11, <1>12 DEF Next, Proceed

LEMMA RowInvariance == Spec => []RowInv
<1>1. Init => RowInv
  BY DEF Init, RowInv, HoldsEvent, Inside, Resolving, StillMissing, OneRegistrationEach
<1> QED
  BY <1>1, RowStep, RecoveringInvariance, Typing, PTL DEF Spec

(* However many requests run at once and whatever contacts they carry, a    *)
(* profile never gets a second registration for an event.                   *)
THEOREM OneRegistration == Spec => []OneRegistrationEach
<1>1. RowInv => OneRegistrationEach
  BY DEF RowInv
<1> QED
  BY <1>1, RowInvariance, PTL

-----------------------------------------------------------------------------
(* How far an event can be oversold.                                        *)

(* Open transactions on an event that counted a free seat. *)
Eager(e) == {c \in Clients : pc[c] # "idle" /\ event[c] = e /\ seen[c] < Capacity[e]}

(* Seats taken and seats about to be taken; past its checks a transaction   *)
(* has counted a free seat.                                                 *)
SeatInv ==
  /\ \A e \in Events : Capacity[e] > 0 =>
       Taken(e) + Cardinality(Eager(e)) <= Capacity[e] + Cardinality(Clients) - 1
  /\ \A c \in Clients : pc[c] \in Inside /\ Capacity[event[c]] > 0 => c \in Eager(event[c])

LEMMA EagerType ==
  ASSUME NEW e \in Events
  PROVE  /\ IsFiniteSet(Eager(e)) /\ Cardinality(Eager(e)) \in Nat
         /\ Cardinality(Clients) \in Nat /\ Cardinality(Eager(e)) <= Cardinality(Clients)
<1>1. Eager(e) \subseteq Clients /\ IsFiniteSet(Clients)
  BY SignupAssumption DEF Eager
<1> QED
  BY <1>1, FS_Subset, FS_CardinalityType

(* Fewer attendees and fewer eager transactions keep the bound. *)
LEMMA Shrinking ==
  ASSUME NEW e \in Events,
         Attending(e)' \subseteq Attending(e), Eager(e)' \subseteq Eager(e)
  PROVE  Taken(e)' + Cardinality(Eager(e))' <= Taken(e) + Cardinality(Eager(e))
<1>1. IsFiniteSet(Attending(e)) /\ IsFiniteSet(Eager(e))
  BY TakenType, EagerType
<1>2. Cardinality(Attending(e)') <= Cardinality(Attending(e))
      /\ Cardinality(Eager(e)') <= Cardinality(Eager(e))
      /\ Cardinality(Attending(e)) \in Nat /\ Cardinality(Eager(e)) \in Nat
      /\ Cardinality(Attending(e)') \in Nat /\ Cardinality(Eager(e)') \in Nat
  BY <1>1, FS_Subset, FS_CardinalityType
<1> QED
  BY <1>2 DEF Taken

(* Every step but the start and the commit of a signup takes no seat.       *)
LEMMA NoSeatTaken ==
  ASSUME SeatInv, \A e \in Events : Attending(e)' \subseteq Attending(e),
         \A e \in Events : Eager(e)' \subseteq Eager(e)
  PROVE  \A e \in Events : Capacity[e] > 0 =>
           Taken(e)' + Cardinality(Eager(e))' <= Capacity[e] + Cardinality(Clients) - 1
<1> SUFFICES ASSUME NEW e \in Events, Capacity[e] > 0
             PROVE  Taken(e)' + Cardinality(Eager(e))'
                      <= Capacity[e] + Cardinality(Clients) - 1
  OBVIOUS
<1>1. Taken(e)' + Cardinality(Eager(e))' <= Taken(e) + Cardinality(Eager(e))
  BY Shrinking
<1>2. Taken(e) + Cardinality(Eager(e)) <= Capacity[e] + Cardinality(Clients) - 1
  BY DEF SeatInv
<1>3. Taken(e) \in Nat /\ Cardinality(Eager(e)) \in Nat /\ Cardinality(Clients) \in Nat
      /\ Capacity[e] \in Nat
  BY TakenType, EagerType, SignupAssumption
<1>4. Taken(e)' \in Nat /\ Cardinality(Eager(e))' \in Nat
  <2>1. IsFiniteSet(Attending(e)') /\ IsFiniteSet(Eager(e)')
    BY TakenType, EagerType, FS_Subset
  <2> QED
    BY <2>1, FS_CardinalityType DEF Taken
<1> QED
  BY <1>1, <1>2, <1>3, <1>4

(* The end of a transaction frees its seat, and takes none. *)
LEMMA FinishIsNotEager ==
  ASSUME TypeOK, SeatInv, NEW c \in Clients, NEW answer, Finish(c, answer)
  PROVE  /\ \A e \in Events : Eager(e)' \subseteq Eager(e) \ {c}
         /\ \A d \in Clients : pc'[d] \in Inside /\ Capacity[event'[d]] > 0 =>
              d \in Eager(event[d])' /\ event'[d] = event[d]
<1>1. \A e \in Events : Eager(e)' \subseteq Eager(e) \ {c}
  BY DEF TypeOK, Finish, Eager
<1>2. \A d \in Clients : pc'[d] \in Inside => d # c
  BY DEF TypeOK, Finish, Inside, Resolving
<1>3. \A d \in Clients \ {c} : pc'[d] = pc[d] /\ event'[d] = event[d] /\ seen'[d] = seen[d]
  BY DEF TypeOK, Finish
<1>4. ASSUME NEW d \in Clients, pc'[d] \in Inside, Capacity[event'[d]] > 0
      PROVE  d \in Eager(event[d])' /\ event'[d] = event[d]
  <2>1. d \in Eager(event[d]) /\ pc'[d] = pc[d] /\ event'[d] = event[d] /\ seen'[d] = seen[d]
    BY <1>2, <1>3, <1>4 DEF SeatInv
  <2> QED
    BY <2>1 DEF Eager
<1> QED
  BY <1>1, <1>4

LEMMA SeatStep == TypeOK /\ Recovering /\ SeatInv /\ [Next]_vars => SeatInv'
<1> SUFFICES ASSUME TypeOK, Recovering, SeatInv, [Next]_vars
             PROVE  SeatInv'
  OBVIOUS
<1> DEFINE Counted == \A d \in Clients :
             pc[d] \in Inside /\ Capacity[event[d]] > 0 => d \in Eager(event[d])
<1>0. Counted
  BY DEF SeatInv
<1> USE DEF tables, locks, request, private
<1>1. ASSUME \A e \in Events : Attending(e)' \subseteq Attending(e),
             \A e \in Events : Eager(e)' \subseteq Eager(e), Counted'
      PROVE  SeatInv'
  BY <1>1, NoSeatTaken DEF SeatInv
<1>2. ASSUME NEW e \in Events, EventChanges(e) \/ DetailsChange(e)
      PROVE  SeatInv'
  BY <1>0, <1>1, <1>2 DEF EventChanges, DetailsChange, Attending, Eager
<1>3. ASSUME NEW e \in Events, NEW p \in Profiles, Cancel(e, p)
      PROVE  SeatInv'
  <2>1. \A f \in Events : Attending(f)' \subseteq Attending(f)
    BY <1>3 DEF Cancel, Attending, TypeOK, Live
  <2>2. Counted' /\ \A f \in Events : Eager(f)' \subseteq Eager(f)
    BY <1>0, <1>3 DEF Cancel, Eager
  <2> QED
    BY <1>1, <2>1, <2>2
<1>4. ASSUME NEW c \in Clients, NEW e \in Events, NEW k \in Contacts, Begin(c, e, k)
      PROVE  SeatInv'
  <2>1. Counted'
    BY <1>0, <1>4 DEF Begin, Eager, Inside, Resolving, TypeOK
  <2>2. \A f \in Events : Attending(f)' = Attending(f)
    BY <1>4 DEF Begin, Attending
  <2>3. \A f \in Events : f # e \/ ~(Taken(e) < Capacity[e]) => Eager(f)' \subseteq Eager(f)
    BY <1>4 DEF Begin, Eager, TypeOK
  <2>4. CASE ~(Taken(e) < Capacity[e])
    BY <1>1, <2>1, <2>2, <2>3, <2>4
  <2>5. CASE Taken(e) < Capacity[e]
    <3>1. Eager(e)' \subseteq Clients
      BY DEF Eager
    <3>2. Cardinality(Eager(e)') <= Cardinality(Clients) /\ Cardinality(Eager(e)') \in Nat
          /\ Cardinality(Clients) \in Nat
      BY <3>1, SignupAssumption, FS_Subset, FS_CardinalityType
    <3>3. Taken(e)' = Taken(e) /\ Taken(e) \in Nat /\ Capacity[e] \in Nat
      BY <2>2, TakenType, SignupAssumption DEF Taken
    <3>4. Taken(e)' + Cardinality(Eager(e))' <= Capacity[e] + Cardinality(Clients) - 1
      BY <2>5, <3>2, <3>3
    <3>5. ASSUME NEW f \in Events, f # e, Capacity[f] > 0
          PROVE  Taken(f)' + Cardinality(Eager(f))' <= Capacity[f] + Cardinality(Clients) - 1
      <4>1. Taken(f)' + Cardinality(Eager(f))' <= Taken(f) + Cardinality(Eager(f))
        BY <2>2, <2>3, <3>5, Shrinking
      <4>2. Taken(f) + Cardinality(Eager(f)) <= Capacity[f] + Cardinality(Clients) - 1
        BY <3>5 DEF SeatInv
      <4>3. Taken(f)' \in Nat /\ Cardinality(Eager(f))' \in Nat /\ Taken(f) \in Nat
            /\ Cardinality(Eager(f)) \in Nat /\ Capacity[f] \in Nat
        <5>1. Eager(f)' \subseteq Eager(f) /\ Taken(f)' = Taken(f)
          BY <2>2, <2>3, <3>5 DEF Taken
        <5> QED
          BY <5>1, TakenType, EagerType, FS_Subset, FS_CardinalityType, SignupAssumption
      <4> QED
        BY <3>2, <4>1, <4>2, <4>3
    <3> QED
      BY <2>1, <3>4, <3>5 DEF SeatInv
  <2> QED
    BY <2>4, <2>5
<1>5. ASSUME NEW c \in Clients, LockEvent(c)
      PROVE  SeatInv'
  <2>1. /\ \A e \in Events : Eager(e)' = Eager(e) /\ Attending(e)' = Attending(e)
        /\ event' = event
    BY <1>5 DEF LockEvent, Eager, Attending, TypeOK
  <2>2. Capacity[event[c]] > 0 => c \in Eager(event[c])
    <3>1. event[c] \in Events /\ seen[c] \in Nat /\ pc[c] = "locking" /\ ~SoldOut(c)
      BY <1>5 DEF LockEvent, TypeOK
    <3>2. Capacity[event[c]] \in Nat
      BY <3>1, SignupAssumption
    <3>3. Capacity[event[c]] > 0 => seen[c] < Capacity[event[c]]
      BY <3>1, <3>2 DEF SoldOut
    <3> QED
      BY <3>1, <3>3 DEF Eager
  <2>3. \A d \in Clients : d # c => pc'[d] = pc[d]
    BY <1>5 DEF LockEvent, TypeOK
  <2>4. ASSUME NEW d \in Clients, pc'[d] \in Inside, Capacity[event'[d]] > 0
        PROVE  d \in Eager(event[d])
    BY <1>0, <2>1, <2>2, <2>3, <2>4
  <2>5. Counted'
    BY <2>1, <2>4 DEF TypeOK
  <2> QED
    BY <1>1, <2>1, <2>5
<1>6. ASSUME NEW c \in Clients, NEW answer, Finish(c, answer), status' = status
      PROVE  SeatInv'
  <2>1. \A e \in Events : Attending(e)' = Attending(e)
    BY <1>6 DEF Attending
  <2> QED
    BY <1>1, <1>6, <2>1, FinishIsNotEager
<1>7. ASSUME NEW c \in Clients,
             \/ FindProfile(c) \/ InsertProfile(c) \/ RecoverProfile(c) \/ Announce(c)
             \/ FindRegistration(c) /\ ~Finish(c, "already")
      PROVE  SeatInv'
  <2>0. /\ UNCHANGED <<status, event, seen>> /\ pc[c] \in Inside
        /\ \E stage \in Inside : pc' = [pc EXCEPT ![c] = stage]
    BY <1>7, ProfileSteps DEF ProfileStep, Announce, FindRegistration, Inside, Resolving
  <2>1. /\ \A e \in Events : Eager(e)' = Eager(e) /\ Attending(e)' = Attending(e)
        /\ event' = event
    BY <2>0 DEF Eager, Attending, TypeOK, Inside, Resolving
  <2>2. \A d \in Clients : pc'[d] \in Inside => pc[d] \in Inside
    BY <2>0 DEF TypeOK
  <2>3. Counted'
    BY <1>0, <2>1, <2>2 DEF TypeOK
  <2> QED
    BY <1>1, <2>1, <2>3
<1>8. ASSUME NEW c \in Clients, Commit(c)
      PROVE  SeatInv'
  <2>1. pc[c] = "commit"
    BY <1>8 DEF Commit
  <2>0. PICK answer \in {"created", "error"} : Finish(c, answer)
    BY <1>8, CommitWrites
  <2>2. PICK e \in Events, p \in Profiles : e = event[c] /\ p = Profile(c)
    BY SignupAssumption DEF TypeOK, Profile
  <2>3. /\ \A f \in Events \ {e} : Attending(f)' = Attending(f)
        /\ Attending(e)' = Attending(e) \union {p}
    <3>1. status' = [status EXCEPT ![e][p] = NewStatus(e)] /\ NewStatus(e) \in Live
      BY <1>8, <2>2, CommitWrites DEF NewStatus, Live
    <3>2. ASSUME NEW f \in Events, NEW q \in Profiles
          PROVE  status'[f][q] = IF f = e /\ q = p THEN NewStatus(e) ELSE status[f][q]
      BY <2>2, <3>1 DEF TypeOK
    <3>3. \A f \in Events \ {e} : Attending(f)' = Attending(f)
      BY <3>2 DEF Attending
    <3>4. Attending(e)' = Attending(e) \union {p}
      BY <2>2, <3>1, <3>2 DEF Attending
    <3> QED
      BY <3>3, <3>4
  <2>4. Counted'
    BY <2>0, FinishIsNotEager
  <2>5. ASSUME NEW f \in Events, Capacity[f] > 0
        PROVE  Taken(f)' + Cardinality(Eager(f))' <= Capacity[f] + Cardinality(Clients) - 1
    <3>1. Eager(f)' \subseteq Eager(f) \ {c}
      BY <2>0, FinishIsNotEager
    <3>2. /\ IsFiniteSet(Attending(f)) /\ IsFiniteSet(Eager(f))
          /\ Taken(f) \in Nat /\ Cardinality(Eager(f)) \in Nat
          /\ Cardinality(Clients) \in Nat /\ Capacity[f] \in Nat
      BY TakenType, EagerType, SignupAssumption
    <3>3. Taken(f) + Cardinality(Eager(f)) <= Capacity[f] + Cardinality(Clients) - 1
      BY <2>5 DEF SeatInv
    <3>4. Cardinality(Eager(f)') <= Cardinality(Eager(f) \ {c})
          /\ Cardinality(Eager(f)') \in Nat /\ IsFiniteSet(Eager(f) \ {c})
          /\ Cardinality(Eager(f) \ {c}) \in Nat
          /\ Cardinality(Eager(f) \ {c}) <= Cardinality(Eager(f))
      <4>1. IsFiniteSet(Eager(f) \ {c}) /\ Cardinality(Eager(f) \ {c}) <= Cardinality(Eager(f))
        BY <3>2, FS_Subset
      <4> QED
        BY <3>1, <4>1, FS_Subset, FS_CardinalityType
    <3>5. CASE f # e
      <4>1. Taken(f)' = Taken(f)
        BY <2>3, <3>5 DEF Taken
      <4> QED
        BY <3>2, <3>3, <3>4, <4>1
    <3>6. CASE f = e
      <4>1. c \in Eager(f)
        BY <1>0, <2>1, <2>2, <2>5, <3>6 DEF Inside, Resolving
      <4>2. Cardinality(Eager(f) \ {c}) = Cardinality(Eager(f)) - 1
        BY <3>2, <4>1, FS_RemoveElement
      <4>3. Cardinality(Attending(f) \union {p}) <= Cardinality(Attending(f)) + 1
            /\ Cardinality(Attending(f) \union {p}) \in Nat
        <5> DEFINE A == Attending(f)
        <5>1. IsFiniteSet(A) /\ Cardinality(A) \in Nat
          BY <3>2 DEF Taken
        <5> HIDE DEF A
        <5>2. Cardinality(A \union {p}) = IF p \in A THEN Cardinality(A) ELSE Cardinality(A) + 1
          BY <5>1, FS_AddElement
        <5>3. Cardinality(A \union {p}) <= Cardinality(A) + 1 /\ Cardinality(A \union {p}) \in Nat
          BY <5>1, <5>2
        <5> QED
          BY <5>3 DEF A
      <4>4. Taken(f)' <= Taken(f) + 1 /\ Taken(f)' \in Nat
        <5>1. Attending(f)' = Attending(f) \union {p}
          BY <2>3, <3>6
        <5>2. Taken(f)' = Cardinality(Attending(f) \union {p}) /\ Taken(f) = Cardinality(Attending(f))
          BY <5>1 DEF Taken
        <5> QED
          BY <4>3, <5>2
      <4> QED
        BY <3>2, <3>3, <3>4, <4>2, <4>4
    <3> QED
      BY <3>5, <3>6
  <2> QED
    BY <2>4, <2>5 DEF SeatInv
<1>9. CASE UNCHANGED vars
  BY <1>0, <1>1, <1>9 DEF vars, Eager, Attending
<1>10. ASSUME NEW c \in Clients, Refuse(c) \/ Abort(c) \/ FindRegistration(c)
       PROVE  SeatInv'
  BY <1>6, <1>7, <1>10 DEF Refuse, Abort, FindRegistration
<1> QED
  BY <1>2, <1>3, <1>4, <1>5, <1>7, <1>8, <1>9, <1>10 DEF Next, Proceed

LEMMA SeatInvariance == Spec => []SeatInv
<1>1. Init => SeatInv
  <2> SUFFICES ASSUME Init
               PROVE  SeatInv
    OBVIOUS
  <2>1. \A e \in Events : Attending(e) = {} /\ Eager(e) = {}
    BY DEF Init, Attending, Eager, Live
  <2>2. \A c \in Clients : pc[c] \notin Inside
    BY DEF Init, Inside, Resolving
  <2>3. ASSUME NEW e \in Events, Capacity[e] > 0
        PROVE  Taken(e) + Cardinality(Eager(e)) <= Capacity[e] + Cardinality(Clients) - 1
    <3>1. Taken(e) = 0 /\ Cardinality(Eager(e)) = 0
      BY <2>1, FS_EmptySet DEF Taken
    <3>2. Capacity[e] \in Nat /\ Cardinality(Clients) \in Nat
      BY SignupAssumption, EagerType
    <3> QED
      BY <2>3, <3>1, <3>2
  <2> QED
    BY <2>2, <2>3 DEF SeatInv
<1> QED
  BY <1>1, SeatStep, RecoveringInvariance, Typing, PTL DEF Spec

(* An event with a capacity is never oversold by more than the number of    *)
(* connections less one, whatever the requests do.                          *)
THEOREM OversellIsBounded == Spec => []OversellBounded
<1>1. SeatInv => OversellBounded
  <2> SUFFICES ASSUME SeatInv, NEW e \in Events, Capacity[e] > 0
               PROVE  Taken(e) <= Capacity[e] + Cardinality(Clients) - 1
    BY DEF OversellBounded
  <2>1. Taken(e) + Cardinality(Eager(e)) <= Capacity[e] + Cardinality(Clients) - 1
    BY DEF SeatInv
  <2> QED
    BY <2>1, TakenType, EagerType, SignupAssumption
<1> QED
  BY <1>1, SeatInvariance, PTL

-----------------------------------------------------------------------------
(* What is stored is stored with its messages.                              *)

(* A transaction about to commit has written to the chat, and to each of    *)
(* the people the event is pushed to or to none of them.                    *)
Announced == \A c \in Clients : pc[c] = "commit" => queued[c] \in Messages(c)

(* The part of StoredWithMessages about one profile and event. *)
Accounted(e, p) ==
  /\ outbox[e][p]["tg"] = signups[e][p]
  /\ outbox[e][p]["email"] <= signups[e][p]
  /\ \A t, u \in Targets[e] :
       outbox[e][p][t] = outbox[e][p][u] /\ outbox[e][p][t] <= signups[e][p]
  /\ \A t \in Staff \ Targets[e] : outbox[e][p][t] = 0
  /\ (signups[e][p] > 0) <=> (status[e][p] # "none")

MessageInv == Announced /\ \A e \in Events, p \in Profiles : Accounted(e, p)

(* What a transaction has written reaches all of the targets or none.       *)
LEMMA QueuedTogether ==
  ASSUME TypeOK, Announced, NEW c \in Clients, pc[c] = "commit"
  PROVE  /\ "tg" \in queued[c] /\ queued[c] \subseteq Addressees
         /\ \A t, u \in Targets[event[c]] : t \in queued[c] <=> u \in queued[c]
         /\ \A t \in Staff \ Targets[event[c]] : t \notin queued[c]
<1>1. PICK pushes \in {{}, Targets[event[c]]} :
        queued[c] = {"tg"} \union pushes
                      \union (IF contact[c] \in WithEmail THEN {"email"} ELSE {})
  BY DEF Announced, Messages
<1>2. Targets[event[c]] \subseteq Staff /\ "tg" \notin Staff /\ "email" \notin Staff
  BY SignupAssumption DEF TypeOK
<1> QED
  BY <1>1, <1>2 DEF Addressees

(* The new numbers of the registration that is committed: one signup more,  *)
(* one message to the chat more, and at most one to everybody else.         *)
LEMMA CommitAccounted ==
  ASSUME TypeOK, Recovering, MessageInv, NEW c \in Clients, Commit(c)
  PROVE  \A e \in Events, p \in Profiles : Accounted(e, p)'
<1>1. PICK e \in Events, p \in Profiles : e = event[c] /\ p = Profile(c)
  BY SignupAssumption DEF TypeOK, Profile
<1> DEFINE more == [a \in Addressees |->
                      IF a \in queued[c] THEN outbox[e][p][a] + 1 ELSE outbox[e][p][a]]
<1>2. /\ "tg" \in queued[c] /\ queued[c] \subseteq Addressees
      /\ \A t, u \in Targets[e] : t \in queued[c] <=> u \in queued[c]
      /\ \A t \in Staff \ Targets[e] : t \notin queued[c]
  BY <1>1, QueuedTogether, CommitWrites DEF MessageInv
<1>3. /\ signups[e][p] \in Nat
      /\ \A a \in Addressees : outbox[e][p][a] \in Nat
      /\ Staff \subseteq Addressees /\ Targets[e] \subseteq Staff
      /\ {"tg", "email"} \subseteq Addressees
  BY <1>1, SignupAssumption DEF TypeOK, Addressees
<1>4. Accounted(e, p)
  BY <1>1 DEF MessageInv
<1>5. /\ more["tg"] = signups[e][p] + 1
      /\ more["email"] <= signups[e][p] + 1
      /\ \A t \in Staff \ Targets[e] : more[t] = 0
  BY <1>2, <1>3, <1>4 DEF Accounted
<1>10. ASSUME NEW t \in Targets[e], NEW u \in Targets[e]
       PROVE  more[t] = more[u] /\ more[t] <= signups[e][p] + 1
  <2>1. outbox[e][p][t] = outbox[e][p][u] /\ outbox[e][p][t] <= signups[e][p]
    BY <1>4 DEF Accounted
  <2>2. t \in Addressees /\ u \in Addressees /\ outbox[e][p][t] \in Nat
    BY <1>3
  <2>3. t \in queued[c] <=> u \in queued[c]
    BY <1>2
  <2> QED
    BY <1>3, <2>1, <2>2, <2>3
<1>6. /\ status' = [status EXCEPT ![e][p] = NewStatus(e)]
      /\ signups' = [signups EXCEPT ![e][p] = @ + 1]
      /\ outbox' = [outbox EXCEPT ![e][p] = more]
  BY <1>1, CommitWrites
<1> HIDE DEF more
<1>7. /\ status'[e][p] = NewStatus(e) /\ signups'[e][p] = signups[e][p] + 1
      /\ outbox'[e][p] = more
  BY <1>1, <1>6 DEF TypeOK
<1>8. Accounted(e, p)'
  BY <1>3, <1>5, <1>7, <1>10 DEF Accounted, NewStatus
<1>9. ASSUME NEW f \in Events, NEW q \in Profiles, f # e \/ q # p
      PROVE  Accounted(f, q)'
  <2>1. status'[f][q] = status[f][q] /\ signups'[f][q] = signups[f][q]
        /\ outbox'[f][q] = outbox[f][q]
    BY <1>1, <1>6, <1>9 DEF TypeOK
  <2>2. Accounted(f, q)
    BY DEF MessageInv
  <2> QED
    BY <2>1, <2>2 DEF Accounted
<1> QED
  BY <1>1, <1>8, <1>9

LEMMA KeepsAnnounced ==
  ASSUME Announced,
         \A c \in Clients : pc'[c] = "commit" =>
           /\ pc[c] = "commit" /\ queued'[c] = queued[c]
           /\ event'[c] = event[c] /\ contact'[c] = contact[c]
  PROVE  Announced'
<1> SUFFICES ASSUME NEW c \in Clients, pc'[c] = "commit"
             PROVE  queued'[c] \in Messages(c)'
  BY DEF Announced
<1>1. Messages(c)' = Messages(c)
  BY DEF Messages
<1> QED
  BY <1>1 DEF Announced

LEMMA MessageStep == TypeOK /\ Recovering /\ MessageInv /\ [Next]_vars => MessageInv'
<1> SUFFICES ASSUME TypeOK, Recovering, MessageInv, [Next]_vars
             PROVE  MessageInv'
  OBVIOUS
<1> USE DEF tables, locks, request, private
<1>1. ASSUME UNCHANGED <<status, signups, outbox>>, Announced'
      PROVE  MessageInv'
  BY <1>1 DEF MessageInv, Accounted
<1>2. ASSUME NEW c \in Clients, NEW answer, Finish(c, answer)
      PROVE  Announced'
  BY <1>2, KeepsAnnounced DEF Finish, MessageInv, TypeOK
<1>3. ASSUME NEW c \in Clients, NEW answer, Finish(c, answer), UNCHANGED tables
      PROVE  MessageInv'
  BY <1>1, <1>2, <1>3
<1>4. ASSUME NEW e \in Events, EventChanges(e) \/ DetailsChange(e)
      PROVE  MessageInv'
  BY <1>1, <1>4, KeepsAnnounced DEF EventChanges, DetailsChange, MessageInv
<1>5. ASSUME NEW e \in Events, NEW p \in Profiles, Cancel(e, p)
      PROVE  MessageInv'
  <2>1. ASSUME NEW f \in Events, NEW q \in Profiles
        PROVE  Accounted(f, q)'
    <3>1. (status'[f][q] # "none") <=> (status[f][q] # "none")
      BY <1>5 DEF Cancel, TypeOK, Live
    <3>2. Accounted(f, q)
      BY DEF MessageInv
    <3> QED
      BY <1>5, <3>1, <3>2 DEF Cancel, Accounted
  <2> QED
    BY <1>5, <2>1, KeepsAnnounced DEF Cancel, MessageInv
<1>6. ASSUME NEW c \in Clients, NEW e \in Events, NEW k \in Contacts, Begin(c, e, k)
      PROVE  MessageInv'
  <2>1. Announced'
    BY <1>6, KeepsAnnounced DEF Begin, MessageInv, TypeOK
  <2> QED
    BY <1>1, <1>6, <2>1 DEF Begin
<1>7. ASSUME NEW c \in Clients,
             \/ LockEvent(c)
             \/ FindProfile(c) \/ InsertProfile(c) \/ RecoverProfile(c)
      PROVE  MessageInv'
  <2>1. /\ UNCHANGED <<status, signups, outbox, queued, event, contact>>
        /\ Moved(c, {"profile", "insert", "recover", "find"})
    BY <1>7, ProfileSteps, ProfileStepMoves DEF LockEvent, ProfileStep, Moved
  <2>2. Announced'
    BY <2>1, KeepsAnnounced DEF Moved, MessageInv, TypeOK
  <2> QED
    BY <1>1, <2>1, <2>2
<1>8. ASSUME NEW c \in Clients, Refuse(c) \/ Abort(c)
      PROVE  MessageInv'
  BY <1>3, <1>8 DEF Refuse, Abort
<1>9. ASSUME NEW c \in Clients, FindRegistration(c)
      PROVE  MessageInv'
  <2>1. CASE Finish(c, "already")
    BY <1>3, <1>9, <2>1 DEF FindRegistration
  <2>2. CASE ~Finish(c, "already")
    <3>1. Announced'
      BY <1>9, <2>2, KeepsAnnounced DEF FindRegistration, MessageInv, TypeOK
    <3> QED
      BY <1>1, <1>9, <2>2, <3>1 DEF FindRegistration
  <2> QED
    BY <2>1, <2>2
<1>10. ASSUME NEW c \in Clients, Announce(c)
       PROVE  MessageInv'
  <2>1. PICK to \in Messages(c) : queued' = [queued EXCEPT ![c] = to]
    BY <1>10 DEF Announce
  <2>2. Announced'
    <3>1. \A d \in Clients : Messages(d)' = Messages(d)
      BY <1>10 DEF Announce, Messages
    <3> QED
      BY <1>10, <2>1, <3>1 DEF Announce, MessageInv, Announced, TypeOK
  <2> QED
    BY <1>1, <1>10, <2>2 DEF Announce
<1>11. ASSUME NEW c \in Clients, Commit(c)
       PROVE  MessageInv'
  <2>1. PICK answer \in {"created", "error"} : Finish(c, answer)
    BY <1>11, CommitWrites
  <2>2. Announced'
    BY <1>2, <2>1
  <2> QED
    BY <1>11, <2>2, CommitAccounted DEF MessageInv
<1>12. CASE UNCHANGED vars
  BY <1>1, <1>12, KeepsAnnounced DEF vars, MessageInv
<1> QED
  BY <1>4, <1>5, <1>6, <1>7, <1>8, <1>9, <1>10, <1>11, <1>12 DEF Next, Proceed

LEMMA MessageInvariance == Spec => []MessageInv
<1>1. Init => MessageInv
  BY SignupAssumption DEF Init, MessageInv, Announced, Accounted, Addressees
<1> QED
  BY <1>1, MessageStep, RecoveringInvariance, Typing, PTL DEF Spec

(* Each committed signup has its one message to the chat, at most one       *)
(* letter, and a push to each of the owner and the admins or to none of     *)
(* them, and a profile without a registration has none (notify.go:22-23,    *)
(* mail.go:219-256).                                                        *)
THEOREM StoredTogether == Spec => []StoredWithMessages
<1>1. MessageInv => StoredWithMessages
  BY DEF MessageInv, Accounted, StoredWithMessages
<1> QED
  BY <1>1, MessageInvariance, PTL

-----------------------------------------------------------------------------
(* What people are told.                                                    *)

(* A request under way has not been answered. *)
Unanswered == \A c \in Clients : pc[c] # "idle" => reply[c] = "none"

Truthful(c) ==
  pc[c] # "idle" /\ reply'[c] \in {"created", "already"} =>
    status'[event[c]][Profile(c)] \in Live

LEMMA UnansweredStep == TypeOK /\ Recovering /\ Unanswered /\ [Next]_vars => Unanswered'
<1> SUFFICES ASSUME TypeOK, Recovering, Unanswered, [Next]_vars
             PROVE  Unanswered'
  OBVIOUS
<1> USE DEF tables, locks, request, private
<1>1. ASSUME UNCHANGED <<pc, reply>>
      PROVE  Unanswered'
  BY <1>1 DEF Unanswered
<1>2. ASSUME NEW c \in Clients, NEW answer, Finish(c, answer)
      PROVE  Unanswered'
  BY <1>2 DEF Finish, Unanswered, TypeOK
<1>3. ASSUME NEW c \in Clients, NEW e \in Events, NEW k \in Contacts, Begin(c, e, k)
      PROVE  Unanswered'
  BY <1>3 DEF Begin, Unanswered, TypeOK
<1>4. ASSUME NEW c \in Clients, pc[c] # "idle", UNCHANGED reply,
             \A d \in Clients \ {c} : pc'[d] = pc[d]
      PROVE  Unanswered'
  BY <1>4 DEF Unanswered
<1>5. ASSUME NEW c \in Clients,
             \/ LockEvent(c) \/ Announce(c)
             \/ FindProfile(c) \/ InsertProfile(c) \/ RecoverProfile(c)
      PROVE  Unanswered'
  <2>1. UNCHANGED reply /\ Moved(c, PcValues)
    BY <1>5, ProfileSteps, ProfileStepMoves DEF LockEvent, ProfileStep, Moved, Announce, PcValues
  <2> QED
    BY <1>4, <2>1 DEF Moved, TypeOK
<1>6. ASSUME NEW c \in Clients, FindRegistration(c)
      PROVE  Unanswered'
  <2>1. CASE Finish(c, "already")
    BY <1>2, <2>1
  <2>2. CASE ~Finish(c, "already")
    BY <1>4, <1>6, <2>2 DEF FindRegistration, TypeOK
  <2> QED
    BY <2>1, <2>2
<1>7. ASSUME NEW c \in Clients, Refuse(c) \/ Commit(c) \/ Abort(c)
      PROVE  Unanswered'
  BY <1>2, <1>7 DEF Refuse, Commit, Abort
<1>8. ASSUME NEW e \in Events,
             EventChanges(e) \/ DetailsChange(e) \/ \E p \in Profiles : Cancel(e, p)
      PROVE  Unanswered'
  BY <1>1, <1>8 DEF EventChanges, DetailsChange, Cancel
<1>9. CASE UNCHANGED vars
  BY <1>1, <1>9 DEF vars
<1> QED
  BY <1>3, <1>5, <1>6, <1>7, <1>8, <1>9 DEF Next, Proceed

LEMMA StepIsTruthful ==
  ASSUME TypeOK, Recovering, Unanswered, [Next]_vars, NEW d \in Clients
  PROVE  Truthful(d)
<1> USE DEF tables, locks, request, private
<1>1. ASSUME pc[d] # "idle" => reply'[d] = reply[d]
      PROVE  Truthful(d)
  BY <1>1 DEF Unanswered, Truthful
<1>2. ASSUME NEW c \in Clients, NEW answer, Finish(c, answer),
             c # d \/ answer \notin {"created", "already"}
      PROVE  Truthful(d)
  <2>1. reply'[d] = IF c = d THEN answer ELSE reply[d]
    BY <1>2 DEF Finish, TypeOK
  <2> QED
    BY <1>1, <1>2, <2>1 DEF Truthful
<1>3. ASSUME NEW c \in Clients, Refuse(c)
      PROVE  Truthful(d)
  <2>1. {refusal[event[c]], known[c]} \subseteq Refusals \union {"none"}
    BY DEF TypeOK
  <2>2. PICK answer : Finish(c, answer) /\ answer \in Refusals \union {"sold_out", "invalid_form"}
    BY <1>3, <2>1 DEF Refuse
  <2> QED
    BY <1>2, <2>2, SignupAssumption
<1>4. ASSUME NEW c \in Clients, FindRegistration(c)
      PROVE  Truthful(d)
  <2>1. CASE ~Registered(c)
    BY <1>1, <1>4, <2>1 DEF FindRegistration
  <2>2. CASE Registered(c) /\ c # d
    BY <1>2, <1>4, <2>2 DEF FindRegistration
  <2>3. CASE Registered(c) /\ c = d
    BY <1>4, <2>3 DEF FindRegistration, Registered, Truthful
  <2> QED
    BY <2>1, <2>2, <2>3
<1>5. ASSUME NEW c \in Clients, Commit(c)
      PROVE  Truthful(d)
  <2>1. PICK answer \in {"created", "error"} : Finish(c, answer)
    BY <1>5, CommitWrites
  <2>2. CASE c # d
    BY <1>2, <2>1, <2>2
  <2>3. CASE c = d
    <3>1. PICK e \in Events, p \in Profiles : e = event[c] /\ p = Profile(c)
      BY SignupAssumption DEF TypeOK, Profile
    <3>2. status' = [status EXCEPT ![e][p] = NewStatus(e)]
      BY <1>5, <3>1, CommitWrites
    <3>3. status'[e][p] \in Live
      BY <3>1, <3>2 DEF TypeOK, NewStatus, Live
    <3> QED
      BY <2>3, <3>1, <3>3 DEF Truthful
  <2> QED
    BY <2>2, <2>3
<1>6. ASSUME NEW c \in Clients, Abort(c)
      PROVE  Truthful(d)
  BY <1>2, <1>6 DEF Abort
<1>7. ASSUME NEW c \in Clients, NEW e \in Events, NEW k \in Contacts, Begin(c, e, k)
      PROVE  Truthful(d)
  BY <1>1, <1>7 DEF Begin, TypeOK
<1>8. CASE UNCHANGED reply
  BY <1>1, <1>8
<1>9. \/ UNCHANGED reply
      \/ \E c \in Clients : Refuse(c) \/ FindRegistration(c) \/ Commit(c) \/ Abort(c)
      \/ \E c \in Clients, e \in Events, k \in Contacts : Begin(c, e, k)
  BY ProfileSteps DEF Next, Proceed, EventChanges, DetailsChange, Cancel, LockEvent,
     ProfileStep, Announce, vars
<1> QED
  BY <1>3, <1>4, <1>5, <1>6, <1>7, <1>8, <1>9

(* Nobody is told they are on the list without being on it at that moment.  *)
THEOREM RepliesTellTheTruth == Spec => RepliesAreTrue
<1>1. Init => Unanswered
  BY DEF Init, Unanswered
<1>2. TypeOK /\ Recovering /\ Unanswered /\ [Next]_vars =>
        [\A c \in Clients :
           pc[c] # "idle" /\ reply'[c] \in {"created", "already"} =>
             status'[event[c]][Profile(c)] \in Live]_vars
  BY StepIsTruthful DEF Truthful
<1> QED
  BY <1>1, <1>2, UnansweredStep, RecoveringInvariance, Typing, PTL DEF Spec, RepliesAreTrue

-----------------------------------------------------------------------------
(* Nobody waits for somebody who waits for them.                            *)

(* What a transaction can wait for a profile with, and with it in hand.     *)
Resolved == {"find", "announce", "commit"}

(* A lock is held by a transaction that has got as far as taking it.        *)
LocksAreHeld ==
  /\ \A e \in Events : eventLock[e] # Nobody =>
       pc[eventLock[e]] \in Inside /\ event[eventLock[e]] = e
  /\ \A p \in Profiles : profLock[p] # Nobody =>
       pc[profLock[p]] \in Resolved /\ Profile(profLock[p]) = p

(* Who waits for an event waits for a transaction that waits for a profile  *)
(* at most, and who waits for a profile waits for one that waits for        *)
(* nothing.                                                                 *)
WaitsEnd ==
  \A c \in Clients :
    /\ pc[c] = "locking" /\ eventLock[event[c]] # Nobody =>
         pc[eventLock[event[c]]] \in Resolving \union Resolved
    /\ pc[c] \in Resolving /\ profLock[Profile(c)] # Nobody =>
         pc[profLock[Profile(c)]] \in Resolved

LEMMA LocksStep == TypeOK /\ Recovering /\ LocksAreHeld /\ [Next]_vars => LocksAreHeld'
<1> SUFFICES ASSUME TypeOK, Recovering, LocksAreHeld, [Next]_vars
             PROVE  LocksAreHeld'
  OBVIOUS
<1> USE DEF tables, locks, request, private
<1>1. ASSUME NEW c \in Clients, pc[c] \notin Inside, UNCHANGED locks,
             \A d \in Clients \ {c} :
               pc'[d] = pc[d] /\ event'[d] = event[d] /\ contact'[d] = contact[d]
      PROVE  LocksAreHeld'
  <2>1. /\ \A e \in Events : eventLock[e] # Nobody => eventLock[e] \in Clients \ {c}
        /\ \A p \in Profiles : profLock[p] # Nobody => profLock[p] \in Clients \ {c}
    BY <1>1 DEF LocksAreHeld, TypeOK, Inside, Resolving, Resolved
  <2> QED
    BY <1>1, <2>1 DEF LocksAreHeld, Profile
<1>2. ASSUME NEW c \in Clients, NEW answer, Finish(c, answer)
      PROVE  LocksAreHeld'
  BY <1>2 DEF Finish, Released, LocksAreHeld, TypeOK, Profile
<1>3. ASSUME UNCHANGED <<locks, pc, event, contact>>
      PROVE  LocksAreHeld'
  BY <1>3 DEF LocksAreHeld, Profile
<1>4. ASSUME NEW e \in Events,
             EventChanges(e) \/ DetailsChange(e) \/ \E p \in Profiles : Cancel(e, p)
      PROVE  LocksAreHeld'
  BY <1>3, <1>4 DEF EventChanges, DetailsChange, Cancel
<1>5. ASSUME NEW c \in Clients, NEW e \in Events, NEW k \in Contacts, Begin(c, e, k)
      PROVE  LocksAreHeld'
  BY <1>1, <1>5 DEF Begin, Inside, Resolving, TypeOK
<1>6. ASSUME NEW c \in Clients, LockEvent(c)
      PROVE  LocksAreHeld'
  <2>1. /\ pc' = [pc EXCEPT ![c] = "profile"] /\ UNCHANGED <<event, contact, profLock>>
        /\ eventLock' = [eventLock EXCEPT ![event[c]] = c] /\ pc[c] = "locking"
    BY <1>6 DEF LockEvent
  <2>2. \A e \in Events : eventLock'[e] # Nobody =>
          pc'[eventLock'[e]] \in Inside /\ event[eventLock'[e]] = e
    BY <2>1 DEF LocksAreHeld, TypeOK, Inside, Resolving
  <2>3. \A p \in Profiles : profLock[p] # Nobody =>
          pc'[profLock[p]] \in Resolved /\ Profile(profLock[p]) = p
    BY <2>1 DEF LocksAreHeld, TypeOK, Resolved
  <2> QED
    BY <2>1, <2>2, <2>3 DEF LocksAreHeld, Profile
<1>7. ASSUME NEW c \in Clients, FindProfile(c) \/ InsertProfile(c) \/ RecoverProfile(c)
      PROVE  LocksAreHeld'
  <2>1. /\ UNCHANGED <<event, contact, eventLock>> /\ pc[c] \in Resolving
        /\ \/ /\ pc' = [pc EXCEPT ![c] = "find"]
              /\ profLock' = [profLock EXCEPT ![Profile(c)] = c]
           \/ /\ \E stage \in {"insert", "recover"} : pc' = [pc EXCEPT ![c] = stage]
              /\ UNCHANGED profLock
    BY <1>7, ProfileSteps DEF ProfileStep
  <2>0. /\ pc[c] \in Resolving
        /\ \E stage \in Inside : pc' = [pc EXCEPT ![c] = stage]
    BY <1>7, ProfileSteps, ProfileStepMoves DEF Moved, Inside, Resolving
  <2>2. \A e \in Events : eventLock[e] # Nobody =>
          pc'[eventLock[e]] \in Inside /\ event[eventLock[e]] = e
    BY <2>0 DEF LocksAreHeld, TypeOK
  <2>3. \A p \in Profiles : profLock[p] # Nobody => profLock[p] \in Clients \ {c}
    <3>1. pc[c] \notin Resolved
      BY <2>0 DEF Resolving, Resolved
    <3>2. \A p \in Profiles : profLock[p] # Nobody =>
            profLock[p] \in Clients /\ pc[profLock[p]] \in Resolved
      BY DEF LocksAreHeld, TypeOK
    <3> QED
      BY <3>1, <3>2
  <2>4. \A p \in Profiles : profLock'[p] # Nobody =>
          pc'[profLock'[p]] \in Resolved /\ Profile(profLock'[p]) = p
    BY <2>1, <2>3 DEF LocksAreHeld, TypeOK, Resolved
  <2> QED
    BY <2>1, <2>2, <2>4 DEF LocksAreHeld, Profile
<1>8. ASSUME NEW c \in Clients, pc[c] \in Resolved, UNCHANGED <<locks, event, contact>>,
             \E v \in Resolved : pc' = [pc EXCEPT ![c] = v]
      PROVE  LocksAreHeld'
  BY <1>8 DEF LocksAreHeld, TypeOK, Inside, Resolving, Resolved, Profile
<1>9. ASSUME NEW c \in Clients, FindRegistration(c) \/ Announce(c)
      PROVE  LocksAreHeld'
  BY <1>2, <1>8, <1>9 DEF FindRegistration, Announce, Resolved
<1>10. ASSUME NEW c \in Clients, Refuse(c) \/ Commit(c) \/ Abort(c)
       PROVE  LocksAreHeld'
  BY <1>2, <1>10 DEF Refuse, Commit, Abort
<1>11. CASE UNCHANGED vars
  BY <1>3, <1>11 DEF vars
<1> QED
  BY <1>4, <1>5, <1>6, <1>7, <1>9, <1>10, <1>11 DEF Next, Proceed

(* No circle of transactions that wait for each other can form, for any     *)
(* number of them, events and profiles: the database never has to break a   *)
(* deadlock of signups (repository.go:303-316, 550-637).                    *)
THEOREM SignupsDoNotDeadlock == Spec => []WaitsEnd
<1>1. Init => LocksAreHeld
  BY DEF Init, LocksAreHeld
<1>2. TypeOK /\ LocksAreHeld => WaitsEnd
  BY SignupAssumption DEF TypeOK, LocksAreHeld, WaitsEnd, Inside, Resolving, Resolved, Profile
<1> QED
  BY <1>1, <1>2, LocksStep, RecoveringInvariance, Typing, PTL DEF Spec

-----------------------------------------------------------------------------
(* The signup is the guest list: every step of a transaction is a step of   *)
(* GuestList, or none of it.                                                *)

(* Who is about to be written down has no place: the row of the event is    *)
(* held since it was looked for, and everyone else may only give one up.    *)
StillOut ==
  \A c \in Clients :
    pc[c] \in {"announce", "commit"} => status[event[c]][Profile(c)] \notin Live

LEMMA StillOutStep ==
  TypeOK /\ Recovering /\ HoldsEvent /\ StillOut /\ [Next]_vars => StillOut'
<1> SUFFICES ASSUME TypeOK, Recovering, HoldsEvent, StillOut, [Next]_vars
             PROVE  StillOut'
  OBVIOUS
<1> USE DEF tables, locks, request, private
<1>1. ASSUME UNCHANGED <<pc, event, contact, status>>
      PROVE  StillOut'
  BY <1>1 DEF StillOut, Profile
<1>2. ASSUME NEW c \in Clients, NEW answer, Finish(c, answer), UNCHANGED status
      PROVE  StillOut'
  BY <1>2 DEF Finish, StillOut, TypeOK, Profile
<1>3. ASSUME NEW e \in Events, NEW p \in Profiles, Cancel(e, p)
      PROVE  StillOut'
  <2>1. \A f \in Events, q \in Profiles : status'[f][q] \in Live => status[f][q] \in Live
    BY <1>3 DEF Cancel, TypeOK, Live
  <2>2. \A c \in Clients : event[c] \in Events /\ Profile(c) \in Profiles
    BY SignupAssumption DEF TypeOK, Profile
  <2>3. UNCHANGED <<pc, event, contact>>
    BY <1>3 DEF Cancel
  <2> QED
    BY <2>1, <2>2, <2>3 DEF StillOut, Profile
<1>4. ASSUME NEW c \in Clients, NEW e \in Events, NEW k \in Contacts, Begin(c, e, k)
      PROVE  StillOut'
  BY <1>4 DEF Begin, StillOut, TypeOK, Profile
<1>5. ASSUME NEW c \in Clients,
             \/ LockEvent(c) \/ Announce(c)
             \/ FindProfile(c) \/ InsertProfile(c) \/ RecoverProfile(c)
      PROVE  StillOut'
  <2>1. /\ UNCHANGED <<status, event, contact>>
        /\ \/ Moved(c, {"profile", "insert", "recover", "find"})
           \/ pc[c] = "announce" /\ pc' = [pc EXCEPT ![c] = "commit"]
    BY <1>5, ProfileSteps, ProfileStepMoves DEF LockEvent, ProfileStep, Moved, Announce
  <2> QED
    BY <2>1 DEF Moved, StillOut, TypeOK, Profile
<1>6. ASSUME NEW c \in Clients, FindRegistration(c)
      PROVE  StillOut'
  <2>1. CASE Registered(c)
    BY <1>2, <1>6, <2>1 DEF FindRegistration
  <2>2. CASE ~Registered(c)
    BY <1>6, <2>2 DEF FindRegistration, StillOut, Registered, TypeOK, Profile
  <2> QED
    BY <2>1, <2>2
<1>7. ASSUME NEW c \in Clients, Refuse(c) \/ Abort(c)
      PROVE  StillOut'
  BY <1>2, <1>7 DEF Refuse, Abort
<1>8. ASSUME NEW c \in Clients, Commit(c)
      PROVE  StillOut'
  <2>1. PICK answer : Finish(c, answer)
    BY <1>8 DEF Commit
  <2>2. ASSUME NEW d \in Clients, pc'[d] \in {"announce", "commit"}
        PROVE  status'[event'[d]][Profile(d)'] \notin Live
    <3>1. d # c /\ pc[d] = pc'[d] /\ event'[d] = event[d] /\ Profile(d)' = Profile(d)
      BY <2>1, <2>2 DEF Finish, TypeOK, Profile
    <3>2. event[d] # event[c]
      BY <1>8, <2>2, <3>1 DEF HoldsEvent, Inside, Resolving, Commit
    <3>3. status'[event[d]] = status[event[d]]
      BY <1>8, <3>1, <3>2, CommitWrites DEF TypeOK
    <3> QED
      BY <2>2, <3>1, <3>3 DEF StillOut
  <2> QED
    BY <2>2 DEF StillOut
<1>9. CASE UNCHANGED vars
  BY <1>1, <1>9 DEF vars
<1>10. ASSUME NEW e \in Events, EventChanges(e) \/ DetailsChange(e)
       PROVE  StillOut'
  BY <1>1, <1>10 DEF EventChanges, DetailsChange
<1> QED
  BY <1>3, <1>4, <1>5, <1>6, <1>7, <1>8, <1>9, <1>10 DEF Next, Proceed

(* The request a connection is busy with. *)
Asked(c) ==
  IF pc[c] = "idle" THEN {}
  ELSE {[event |-> event[c], guest |-> Profile(c), full |-> SoldOut(c)]}

Request(c) == [event |-> event[c], guest |-> Profile(c), full |-> SoldOut(c)]

(* A transaction that ends answers its request. *)
LEMMA FinishAnswers ==
  ASSUME TypeOK, NEW c \in Clients, NEW answer, Finish(c, answer)
  PROVE  List!Answer(c, answer)
<1>1. \A d \in Clients : Asked(d)' = IF d = c THEN {} ELSE Asked(d)
  BY DEF Finish, TypeOK, Asked, Profile, SoldOut
<1>2. reply' = [reply EXCEPT ![c] = answer]
  BY DEF Finish
<1> QED
  BY <1>1, <1>2 DEF List!Answer, Asked

LEMMA ListStep ==
  TypeOK /\ Recovering /\ SeatInv /\ Announced /\ StillOut /\ [Next]_vars
    => [List!GNext]_(List!gvars)
<1> SUFFICES ASSUME TypeOK, Recovering, SeatInv, Announced, StillOut, [Next]_vars
             PROVE  [List!GNext]_(List!gvars)
  OBVIOUS
<1> USE DEF tables, locks, request, private
<1>1. ASSUME UNCHANGED <<status, outbox, reply>>, \A c \in Clients : Asked(c)' = Asked(c)
      PROVE  UNCHANGED List!gvars
  BY <1>1 DEF List!gvars, Asked
<1>2. ASSUME NEW c \in Clients, NEW e \in Events, NEW k \in Contacts, Begin(c, e, k)
      PROVE  List!Ask(c, e, ProfileOf[k])
  <2>1. Asked(c) = {}
    BY <1>2 DEF Begin, Asked
  <2>2. Asked(c)' = {[event |-> e, guest |-> ProfileOf[k], full |-> List!Full(e)]}
    <3>1. pc'[c] # "idle" /\ event'[c] = e /\ Profile(c)' = ProfileOf[k] /\ seen'[c] = Taken(e)
      BY <1>2 DEF Begin, TypeOK, Profile
    <3>2. SoldOut(c)' = List!Full(e)
      <4>1. List!Full(e) <=> Capacity[e] > 0 /\ Taken(e) >= Capacity[e]
        BY DEF Taken, Attending, List!Full, List!Live, Live, Cardinality, List!Cardinality
      <4>2. SoldOut(c)' <=> Capacity[e] > 0 /\ Taken(e) >= Capacity[e]
        BY <3>1 DEF SoldOut
      <4>3. SoldOut(c)' \in BOOLEAN /\ List!Full(e) \in BOOLEAN
        BY DEF SoldOut, List!Full
      <4> QED
        BY <4>1, <4>2, <4>3
    <3> QED
      BY <3>1, <3>2 DEF Asked
  <2>3. \A d \in Clients \ {c} : Asked(d)' = Asked(d)
    BY <1>2 DEF Begin, Asked, TypeOK, Profile, SoldOut
  <2> QED
    BY <1>2, <2>1, <2>2, <2>3 DEF Begin, Asked, List!Ask
<1>3. ASSUME NEW c \in Clients,
             \/ LockEvent(c) \/ Announce(c)
             \/ FindProfile(c) \/ InsertProfile(c) \/ RecoverProfile(c)
      PROVE  UNCHANGED List!gvars
  <2>0. /\ UNCHANGED <<status, outbox, reply, request>> /\ pc[c] # "idle"
        /\ \E stage \in PcValues \ {"idle"} : pc' = [pc EXCEPT ![c] = stage]
    BY <1>3, ProfileSteps DEF LockEvent, ProfileStep, Announce, Resolving, PcValues
  <2>1. \A d \in Clients : Asked(d)' = Asked(d)
    BY <2>0 DEF Asked, TypeOK, Profile, SoldOut
  <2> QED
    BY <1>1, <2>0, <2>1
<1>4. ASSUME NEW c \in Clients, Refuse(c) \/ Abort(c)
      PROVE  List!TurnAway(c, Request(c))
  <2>1. PICK answer : /\ Finish(c, answer) /\ (answer = "sold_out" => SoldOut(c))
                      /\ answer \in Refusals \union {"sold_out", "invalid_form", "error"}
    <3>1. CASE Abort(c)
      BY <3>1 DEF Abort
    <3>2. CASE Refuse(c)
      <4>1. {refusal[event[c]], known[c]} \subseteq Refusals \union {"none"}
        BY DEF TypeOK
      <4> QED
        BY <3>2, <4>1, SignupAssumption DEF Refuse
    <3> QED
      BY <1>4, <3>1, <3>2
  <2>2. UNCHANGED <<status, outbox>>
    BY <1>4 DEF Refuse, Abort
  <2> QED
    BY <2>1, <2>2, FinishAnswers DEF List!TurnAway, Request
<1>5. ASSUME NEW c \in Clients, FindRegistration(c), Registered(c)
      PROVE  List!Recognise(c, Request(c))
  BY <1>5, FinishAnswers DEF FindRegistration, Registered, List!Recognise, List!Live, Live, Request
<1>6. ASSUME NEW c \in Clients, FindRegistration(c), ~Registered(c)
      PROVE  UNCHANGED List!gvars
  <2>1. \A d \in Clients : Asked(d)' = Asked(d)
    BY <1>6 DEF FindRegistration, Asked, TypeOK, Profile, SoldOut
  <2> QED
    BY <1>1, <1>6, <2>1 DEF FindRegistration
<1>7. ASSUME NEW c \in Clients, Commit(c)
      PROVE  List!Admit(c, Request(c))
  <2>1. PICK answer \in {"created", "error"} : List!Answer(c, answer)
    BY <1>7, FinishAnswers, CommitWrites
  <2>2. PICK e \in Events, p \in Profiles : e = event[c] /\ p = Profile(c)
    BY SignupAssumption DEF TypeOK, Profile
  <2>3. ~SoldOut(c)
    <3>1. Capacity[e] > 0 => seen[c] < Capacity[e]
      BY <1>7, <2>2 DEF SeatInv, Commit, Inside, Resolving, Eager
    <3> QED
      BY <2>2, <3>1, SignupAssumption DEF SoldOut, TypeOK
  <2>4. status[e][p] \notin Live /\ status' = [status EXCEPT ![e][p] = NewStatus(e)]
    BY <1>7, <2>2, CommitWrites DEF StillOut
  <2>5. /\ queued[c] \in SUBSET Addressees /\ "tg" \in queued[c]
        /\ outbox' = [outbox EXCEPT ![e][p] =
             [a \in Addressees |-> IF a \in queued[c] THEN @[a] + 1 ELSE @[a]]]
    <3>1. pc[c] = "commit"
      BY <1>7, CommitWrites
    <3>2. queued[c] \in SUBSET Addressees /\ "tg" \in queued[c]
      BY <3>1, QueuedTogether
    <3>3. outbox' = [outbox EXCEPT ![event[c]][Profile(c)] =
                       [a \in Addressees |-> IF a \in queued[c] THEN @[a] + 1 ELSE @[a]]]
      BY <1>7, CommitWrites
    <3> QED
      BY <2>2, <3>2, <3>3
  <2>6. NewStatus(e) \in Live
    BY DEF NewStatus, Live
  <2> QED
    BY <2>1, <2>2, <2>3, <2>4, <2>5, <2>6 DEF List!Admit, List!Live, Live, Request
<1>8. ASSUME NEW e \in Events, NEW p \in Profiles, Cancel(e, p)
      PROVE  List!Leave(e, p)
  BY <1>8 DEF Cancel, List!Leave, List!Live, Live, Profile, SoldOut
<1>9. ASSUME NEW e \in Events, EventChanges(e) \/ DetailsChange(e)
      PROVE  UNCHANGED List!gvars
  BY <1>9 DEF EventChanges, DetailsChange, List!gvars, Profile, SoldOut
<1>10. CASE UNCHANGED vars
  BY <1>10 DEF vars, List!gvars, Profile, SoldOut
<1>11. ASSUME NEW c \in Clients, Refuse(c) \/ Abort(c) \/ FindRegistration(c) \/ Commit(c)
       PROVE  pc[c] # "idle" /\ Request(c) \in Asked(c)
  BY <1>11 DEF Refuse, Abort, FindRegistration, Commit, Asked, Request
<1>12. \A c \in Clients : Refuse(c) \/ Abort(c) \/ FindRegistration(c) \/ Commit(c)
         => List!GNext \/ UNCHANGED List!gvars
  BY <1>4, <1>5, <1>6, <1>7, <1>11 DEF List!GNext, Asked
<1>13. \A c \in Clients, e \in Events, k \in Contacts : Begin(c, e, k) => List!GNext
  BY <1>2, SignupAssumption DEF List!GNext
<1>14. \A e \in Events, p \in Profiles : Cancel(e, p) => List!GNext
  BY <1>8 DEF List!GNext
<1> QED
  BY <1>3, <1>9, <1>10, <1>12, <1>13, <1>14 DEF Next, Proceed

(* Signing up implements the guest list, for any connections, events,       *)
(* contacts and capacities (repository.go:280-475).                         *)
THEOREM SignupKeepsTheList == Spec => KeepsTheList
<1>1. Init => List!GInit
  BY DEF Init, List!GInit
<1>2. Init => StillOut
  BY DEF Init, StillOut
<1>3. RowInv => HoldsEvent
  BY DEF RowInv
<1>4. MessageInv => Announced
  BY DEF MessageInv
<1>5. Spec => []StillOut
  BY <1>2, <1>3, StillOutStep, RowInvariance, RecoveringInvariance, Typing, PTL DEF Spec
<1>6. Spec => [][List!GNext]_(List!gvars)
  BY <1>4, <1>5, ListStep, SeatInvariance, MessageInvariance, RecoveringInvariance, Typing,
     PTL DEF Spec
<1> QED
  BY <1>1, <1>6, PTL DEF Spec, KeepsTheList, List!GSpec
=============================================================================
