----------------------------- MODULE BoardSignup -----------------------------
(***************************************************************************)
(* Public signup for an event of the board (events/repository.go,          *)
(* RegisterPublic): one READ COMMITTED transaction per request, which      *)
(* reads the event and its number of live registrations in a single        *)
(* SELECT ... FOR UPDATE OF e, finds or creates the guest's profile, then   *)
(* inserts or revives the registration and queues what it announces.       *)
(*                                                                         *)
(* In READ COMMITTED a statement reads from the snapshot taken when it     *)
(* starts; only the row it locks is read afresh after the wait.  The count *)
(* is a subquery on another table and the organizer's details are joined   *)
(* without a lock, so Begin takes both and LockEvent uses them.            *)
(***************************************************************************)
EXTENDS Naturals, FiniteSets

CONSTANTS
  Clients,    \* transactions that may be open at once: pooled connections
  Nobody,     \* the holder of a free lock
  Refusals,   \* why an event takes no signups, seats apart
  Staff,      \* profiles of organizers and admins
  Events,
  Contacts,   \* contacts people type into the form
  Profiles,   \* accounts of the application and guests' profiles
  Accounts,   \* those that are the application's own, with their contacts
  ProfileOf,  \* the profile with a contact's email, phone or telegram
  Targets,    \* who gets pushes about an event: its owner and the admins
  WithEmail,  \* contacts that leave an address for letters
  Capacity,   \* max_attendees of each event, 0 for none
  Manual,     \* events whose signups wait for the organizer's approval
  MaxCancels  \* bound: cancellations of a behaviour

ASSUME SignupAssumption ==
  /\ Events # {} /\ Contacts # {}
  /\ IsFiniteSet(Clients) /\ Nobody \notin Clients
  /\ IsFiniteSet(Profiles)
  /\ ProfileOf \in [Contacts -> Profiles] /\ Accounts \subseteq Profiles
  /\ Targets \in [Events -> SUBSET Staff] /\ Staff \intersect {"tg", "email"} = {}
  /\ Capacity \in [Events -> Nat]
  /\ Manual \subseteq Events
  /\ MaxCancels \in Nat
  /\ Refusals \intersect
       {"none", "sold_out", "invalid_form", "already", "created", "error", "failed"} = {}

VARIABLES
  refusal,    \* why an event's row takes no signups, "none" when it does
  details,    \* why the organizer's details of it take none
  device,     \* the contact whose device id a profile was inserted with
  rows,       \* number of registrations of a profile for an event
  status,     \* status of the registration of a profile for an event
  signups,    \* committed signups, first and repeated
  outbox,     \* messages queued about them, by addressee
  eventLock,  \* the transaction holding the event's row
  profLock,   \* the transaction holding the profile's row or key
  pc,         \* progress of each transaction
  event,      \* its event
  contact,    \* its contact
  seen,       \* registrations counted by its first statement
  known,      \* the details as its first statement has read them
  aborted,    \* whether a statement of it has failed, so that the next will
  plan,       \* what it is going to write: insert or revive
  queued,     \* whom it has written messages to
  reply,      \* last answer given over each connection
  cancels     \* cancellations so far

tables  == <<refusal, details, device, rows, status, signups, outbox>>
locks   == <<eventLock, profLock>>
request == <<event, contact, seen, known>>
private == <<aborted, plan, queued>>
vars == <<tables, locks, pc, request, private, reply, cancels>>

(* "error" is a failure from outside, "failed" one the transaction has made  *)
(* itself; both are answered with status 500.                                *)
Replies == Refusals \union
  {"none", "sold_out", "invalid_form", "already", "created", "error", "failed"}

(* The organizers' chat, the guest's address, and who gets pushes. *)
Addressees == {"tg", "email"} \union Staff
Live == {"registered", "waitlisted"}

(* The locals of a connection between two requests. *)
AnyEvent == CHOOSE e \in Events : TRUE
AnyContact == CHOOSE k \in Contacts : TRUE

Profile(c) == ProfileOf[contact[c]]

(* How many registrations of an event are not cancelled. *)
Attending(e) == {p \in Profiles : status[e][p] \in Live}
Taken(e) == Cardinality(Attending(e))

Init ==
  /\ refusal \in [Events -> Refusals \union {"none"}]
  /\ details \in [Events -> Refusals \union {"none"}]
  /\ device = [p \in Profiles |-> {}]
  /\ rows = [e \in Events |-> [p \in Profiles |-> 0]]
  /\ status = [e \in Events |-> [p \in Profiles |-> "none"]]
  /\ signups = [e \in Events |-> [p \in Profiles |-> 0]]
  /\ outbox = [e \in Events |-> [p \in Profiles |-> [a \in Addressees |-> 0]]]
  /\ eventLock = [e \in Events |-> Nobody]
  /\ profLock = [p \in Profiles |-> Nobody]
  /\ pc = [c \in Clients |-> "idle"]
  /\ event = [c \in Clients |-> AnyEvent]
  /\ contact = [c \in Clients |-> AnyContact]
  /\ seen = [c \in Clients |-> 0]
  /\ known = [c \in Clients |-> "none"]
  /\ aborted = [c \in Clients |-> FALSE]
  /\ plan = [c \in Clients |-> "none"]
  /\ queued = [c \in Clients |-> {}]
  /\ reply = [c \in Clients |-> "none"]
  /\ cancels = 0

-----------------------------------------------------------------------------
(* Outside the board: the organizer and the application.                    *)

(* The organizer publishes or withdraws the event, or its time passes.      *)
(* An UPDATE of the event waits for a transaction that holds its row.       *)
EventChanges(e) ==
  /\ eventLock[e] = Nobody
  /\ \E r \in (Refusals \union {"none"}) \ {refusal[e]} :
       refusal' = [refusal EXCEPT ![e] = r]
  /\ UNCHANGED <<details, device, rows, status, signups, outbox>>
  /\ UNCHANGED <<locks, pc, request, private, reply, cancels>>

(* The organizer hides the event, sends people elsewhere, or the deadline    *)
(* passes: the details are a row of their own, which signups do not lock.    *)
DetailsChange(e) ==
  /\ \E r \in (Refusals \union {"none"}) \ {details[e]} :
       details' = [details EXCEPT ![e] = r]
  /\ UNCHANGED <<refusal, device, rows, status, signups, outbox>>
  /\ UNCHANGED <<locks, pc, request, private, reply, cancels>>

(* A live registration is cancelled in the application.  A transaction that *)
(* has locked a registration's row has found it cancelled already.          *)
Cancel(e, p) ==
  /\ status[e][p] \in Live
  /\ cancels < MaxCancels
  /\ status' = [status EXCEPT ![e][p] = "cancelled"]
  /\ cancels' = cancels + 1
  /\ UNCHANGED <<refusal, details, device, rows, signups, outbox>>
  /\ UNCHANGED <<locks, pc, request, private, reply>>

-----------------------------------------------------------------------------
(* RegisterPublic, one action per statement that can wait or fail.          *)

(* Mutant: an early return forgets the rollback. *)
ReleasedNever(lock, c) == lock

Released(lock, c) == [x \in DOMAIN lock |-> IF lock[x] = c THEN Nobody ELSE lock[x]]

(* The end of a transaction: its locks are released and it answers. *)
Finish(c, answer) ==
  /\ eventLock' = Released(eventLock, c)
  /\ profLock' = Released(profLock, c)
  /\ pc' = [pc EXCEPT ![c] = "idle"]
  /\ event' = [event EXCEPT ![c] = AnyEvent]
  /\ contact' = [contact EXCEPT ![c] = AnyContact]
  /\ seen' = [seen EXCEPT ![c] = 0]
  /\ known' = [known EXCEPT ![c] = "none"]
  /\ aborted' = [aborted EXCEPT ![c] = FALSE]
  /\ plan' = [plan EXCEPT ![c] = "none"]
  /\ queued' = [queued EXCEPT ![c] = {}]
  /\ reply' = [reply EXCEPT ![c] = answer]

(* BEGIN, and the first statement takes its snapshot. *)
Begin(c, e, k) ==
  /\ pc[c] = "idle"
  /\ pc' = [pc EXCEPT ![c] = "locking"]
  /\ event' = [event EXCEPT ![c] = e]
  /\ contact' = [contact EXCEPT ![c] = k]
  /\ seen' = [seen EXCEPT ![c] = Taken(e)]
  /\ known' = [known EXCEPT ![c] = details[e]]
  /\ reply' = [reply EXCEPT ![c] = "none"]
  /\ UNCHANGED <<tables, locks, private, cancels>>

(* Mutant: one seat too many. *)
SoldOutLate(c) == Capacity[event[c]] > 0 /\ seen[c] > Capacity[event[c]]

SoldOut(c) == Capacity[event[c]] > 0 /\ seen[c] >= Capacity[event[c]]

(* The event's row is free: it is locked, and every check of the event and  *)
(* of the form is made before anything is written.                          *)
LockEvent(c) ==
  /\ pc[c] = "locking"
  /\ eventLock[event[c]] = Nobody
  /\ refusal[event[c]] = "none" /\ known[c] = "none" /\ ~SoldOut(c)
  /\ eventLock' = [eventLock EXCEPT ![event[c]] = c]
  /\ pc' = [pc EXCEPT ![c] = "profile"]
  /\ UNCHANGED <<tables, profLock, request, private, reply, cancels>>

Refuse(c) ==
  /\ pc[c] = "locking"
  /\ eventLock[event[c]] = Nobody
  /\ \/ \E r \in {refusal[event[c]], known[c]} \ {"none"} : Finish(c, r)
     \/ /\ {refusal[event[c]], known[c]} = {"none"}
        /\ Finish(c, IF SoldOut(c) THEN "sold_out" ELSE "invalid_form")
  /\ UNCHANGED <<tables, cancels>>

-----------------------------------------------------------------------------
(* upsertPublicProfile.                                                     *)

Stored(p) == p \in Accounts \/ device[p] # {}

TakeProfile(c) ==
  /\ profLock[Profile(c)] = Nobody
  /\ profLock' = [profLock EXCEPT ![Profile(c)] = c]
  /\ pc' = [pc EXCEPT ![c] = "find"]
  /\ UNCHANGED <<eventLock, request, private, reply>>

(* The profile that was once inserted for this contact, if there is one: it  *)
(* is locked and updated.  What is not committed yet is not seen.            *)
FindProfile(c) ==
  /\ pc[c] = "profile"
  /\ IF contact[c] \in device[Profile(c)]
       THEN TakeProfile(c)
       ELSE /\ pc' = [pc EXCEPT ![c] = "insert"]
            /\ UNCHANGED <<locks, request, private, reply>>
  /\ UNCHANGED <<tables, cancels>>

(* An insertion waits for a transaction that has inserted or updated a row   *)
(* with the same key, and not for one that only holds its lock.              *)
Written(p) ==
  /\ profLock[p] # Nobody
  /\ Stored(p) => contact[profLock[p]] \in device[p]

(* Mutant: there is no savepoint to go back to. *)
StillAborted(c) == [aborted EXCEPT ![c] = TRUE]

(* A failed statement aborts the transaction, and ROLLBACK TO SAVEPOINT      *)
(* brings it back.                                                           *)
BackToSavepoint(c) == [aborted EXCEPT ![c] = FALSE]

(* The contact's email, phone or telegram is unique: where a profile has it, *)
(* the insertion fails.                                                      *)
InsertProfile(c) ==
  /\ pc[c] = "insert"
  /\ ~Written(Profile(c))
  /\ IF Stored(Profile(c))
       THEN /\ aborted' = BackToSavepoint(c)
            /\ pc' = [pc EXCEPT ![c] = "recover"]
            /\ UNCHANGED <<locks, request, plan, queued, reply>>
       ELSE TakeProfile(c)
  /\ UNCHANGED <<tables, cancels>>

(* The second lookup goes by every key: a live account has another device.   *)
Found(c) == ~aborted[c] /\ Stored(Profile(c))

RecoverProfile(c) ==
  /\ pc[c] = "recover"
  /\ IF Found(c) THEN TakeProfile(c) ELSE Finish(c, "failed")
  /\ UNCHANGED <<tables, cancels>>

-----------------------------------------------------------------------------
(* The registration and its messages.                                       *)

(* Mutant: a cancelled registration counts as a registration. *)
RegisteredEver(c) == rows[event[c]][Profile(c)] > 0

Registered(c) == status[event[c]][Profile(c)] \in Live

(* Mutant: the registration is looked for among the live ones only. *)
WriteInsertOnly(c) == "insert"

Write(c) == IF rows[event[c]][Profile(c)] = 0 THEN "insert" ELSE "revive"

(* The existing registration: a live one ends the request, a cancelled one  *)
(* is revived, none is inserted.                                            *)
FindRegistration(c) ==
  /\ pc[c] = "find"
  /\ \/ Registered(c) /\ Finish(c, "already")
     \/ /\ ~Registered(c)
        /\ plan' = [plan EXCEPT ![c] = Write(c)]
        /\ pc' = [pc EXCEPT ![c] = "announce"]
        /\ UNCHANGED <<locks, request, aborted, queued, reply>>
  /\ UNCHANGED <<tables, cancels>>

(* Mutant: a push that cannot be queued is skipped. *)
MessagesSomePushes(c) ==
  {{"tg"} \union pushes \union (IF contact[c] \in WithEmail THEN {"email"} ELSE {}) :
     pushes \in SUBSET Targets[event[c]]}

(* The organizers' chat always, the guest's letter when there is an address, *)
(* and a push to each target unless their lookup fails.                      *)
Messages(c) ==
  {{"tg"} \union pushes \union (IF contact[c] \in WithEmail THEN {"email"} ELSE {}) :
     pushes \in {{}, Targets[event[c]]}}

(* enqueueNotify and afterSignup, in the same transaction.  The lookup of    *)
(* the targets has a savepoint of its own, so that its failure does not      *)
(* fail the signup.                                                          *)
Announce(c) ==
  /\ pc[c] = "announce"
  /\ \E to \in Messages(c) :
       /\ queued' = [queued EXCEPT ![c] = to]
       /\ aborted' = IF Targets[event[c]] \subseteq to THEN aborted ELSE BackToSavepoint(c)
  /\ pc' = [pc EXCEPT ![c] = "commit"]
  /\ UNCHANGED <<tables, locks, request, plan, reply, cancels>>

(* Mutant: a status the rest of the code does not know. *)
NewStatusUnknown(e) == IF e \in Manual THEN "waitlisted" ELSE "confirmed"

NewStatus(e) == IF e \in Manual THEN "waitlisted" ELSE "registered"

(* COMMIT: the profile, the registration and its messages appear together.   *)
(* Its answer may be lost after the database has committed; in an aborted    *)
(* transaction it is a rollback.                                             *)
Commit(c) ==
  LET e == event[c]  p == Profile(c) IN
  /\ pc[c] = "commit"
  /\ IF aborted[c]
       THEN UNCHANGED <<device, status, rows, signups, outbox>> /\ Finish(c, "failed")
       ELSE /\ device' = [device EXCEPT ![p] = IF Stored(p) THEN @ ELSE {contact[c]}]
            /\ status' = [status EXCEPT ![e][p] = NewStatus(e)]
            /\ rows' = IF plan[c] = "insert" THEN [rows EXCEPT ![e][p] = @ + 1] ELSE rows
            /\ signups' = [signups EXCEPT ![e][p] = @ + 1]
            /\ outbox' = [outbox EXCEPT ![e][p] =
                 [a \in Addressees |-> IF a \in queued[c] THEN @[a] + 1 ELSE @[a]]]
            /\ \E answer \in {"created", "error"} : Finish(c, answer)
  /\ UNCHANGED <<refusal, details, cancels>>

(* An error, the request's timeout or a crash: everything is rolled back.   *)
Abort(c) ==
  /\ pc[c] # "idle"
  /\ Finish(c, "error")
  /\ UNCHANGED <<tables, cancels>>

-----------------------------------------------------------------------------
Proceed(c) ==
  \/ LockEvent(c) \/ Refuse(c)
  \/ FindProfile(c) \/ InsertProfile(c) \/ RecoverProfile(c)
  \/ FindRegistration(c) \/ Announce(c) \/ Commit(c)

Next ==
  \/ \E e \in Events :
       EventChanges(e) \/ DetailsChange(e) \/ \E p \in Profiles : Cancel(e, p)
  \/ \E c \in Clients :
       \/ \E e \in Events, k \in Contacts : Begin(c, e, k)
       \/ Proceed(c) \/ Abort(c)

Spec == Init /\ [][Next]_vars

(* The database serves the waiters of a lock in turn, and a transaction     *)
(* that can go on does.  No request has to be made, and none has to fail.   *)
FairSpec == Spec /\ \A c \in Clients : SF_vars(Proceed(c))

-----------------------------------------------------------------------------
(* The variables keep their ranges. *)
TypeOK ==
  /\ refusal \in [Events -> Refusals \union {"none"}]
  /\ details \in [Events -> Refusals \union {"none"}]
  /\ device \in [Profiles -> SUBSET Contacts]
  /\ rows \in [Events -> [Profiles -> Nat]]
  /\ status \in [Events -> [Profiles -> Live \union {"none", "cancelled"}]]
  /\ signups \in [Events -> [Profiles -> Nat]]
  /\ outbox \in [Events -> [Profiles -> [Addressees -> Nat]]]
  /\ eventLock \in [Events -> Clients \union {Nobody}]
  /\ profLock \in [Profiles -> Clients \union {Nobody}]
  /\ pc \in [Clients ->
       {"idle", "locking", "profile", "insert", "recover", "find", "announce", "commit"}]
  /\ event \in [Clients -> Events]
  /\ contact \in [Clients -> Contacts]
  /\ seen \in [Clients -> Nat]
  /\ known \in [Clients -> Refusals \union {"none"}]
  /\ aborted \in [Clients -> BOOLEAN]
  /\ plan \in [Clients -> {"none", "insert", "revive"}]
  /\ queued \in [Clients -> SUBSET Addressees]
  /\ reply \in [Clients -> Replies]
  /\ cancels \in Nat

(* A profile has at most one registration for an event, whichever of its    *)
(* contacts it signs up with and however requests interleave: what the      *)
(* event's row lock and the profile's lock are for (repository.go:303-316,  *)
(* 395-401).                                                                *)
OneRegistrationEach == \A e \in Events, p \in Profiles : rows[e][p] <= 1

(* "Stored together or not at all" (notify.go:22-23): each committed signup *)
(* has its one message to the organizers' chat, at most one letter, and a   *)
(* push to each of the owner and the admins or to none of them (mail.go:    *)
(* 219-256), and a profile without a registration has none.                 *)
StoredWithMessages ==
  \A e \in Events, p \in Profiles :
    /\ outbox[e][p]["tg"] = signups[e][p]
    /\ outbox[e][p]["email"] <= signups[e][p]
    /\ \A t, u \in Targets[e] :
         outbox[e][p][t] = outbox[e][p][u] /\ outbox[e][p][t] <= signups[e][p]
    /\ \A t \in Staff \ Targets[e] : outbox[e][p][t] = 0
    /\ (signups[e][p] > 0) <=> (status[e][p] # "none")

(* A signup that meets an account's contact, another request that inserts    *)
(* the same profile, or a failed lookup of the organizers, goes on: nothing  *)
(* the code recovers from comes back at a later statement, as it did when    *)
(* there was no savepoint and the second lookup went by device alone         *)
(* (repository.go:582-587, 610-614, mail.go:231-236).                        *)
RecoveriesHold == \A c \in Clients : reply[c] # "failed"

(* "No seats are left" (repository.go:341-343): an event with a capacity is *)
(* never signed up for beyond it.                                           *)
NeverOversold == \A e \in Events : Capacity[e] > 0 => Taken(e) <= Capacity[e]

(* How far the code can go beyond the capacity: every open transaction but  *)
(* one may have counted before the last seat was taken.                     *)
OversellBounded ==
  \A e \in Events : Capacity[e] > 0 =>
    Taken(e) <= Capacity[e] + Cardinality(Clients) - 1

(* Nobody is told they are on the list without being on it at that moment: *)
(* the registration the answer speaks of is live (repository.go:402-412,     *)
(* 437-440, 471-474).                                                        *)
RepliesAreTrue ==
  [][\A c \in Clients :
       pc[c] # "idle" /\ reply'[c] \in {"created", "already"} =>
         status'[event[c]][Profile(c)] \in Live]_vars

(* A signup is one step of GuestList, however its statements interleave with *)
(* others: nobody gets a second place or messages for one they have, no      *)
(* effect is without its messages, and every answer is true when it is given *)
(* (repository.go:280-475).  What is left of the transaction is that seats   *)
(* are counted when the request is made (repository.go:310-311).             *)
List == INSTANCE GuestList WITH
  Connections <- Clients,
  Guests      <- Profiles,
  Channels    <- Addressees,
  Reasons     <- Refusals \union {"sold_out", "invalid_form", "error"},
  place       <- status,
  sent        <- outbox,
  asked       <- [c \in Clients |-> IF pc[c] = "idle" THEN {}
                    ELSE {[event |-> event[c], guest |-> Profile(c), full |-> SoldOut(c)]}],
  told        <- reply

KeepsTheList == List!GSpec

(* Every request is answered: the locks are taken in one order, event then  *)
(* profile, and held by transactions that go on.                            *)
EveryRequestIsAnswered == \A c \in Clients : pc[c] # "idle" ~> pc[c] = "idle"
=============================================================================
