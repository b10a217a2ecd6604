------------------------------- MODULE Reminders -------------------------------
(***************************************************************************)
(* Reminders of the board's events (events/mail.go, StartReminderLoop and  *)
(* sweepReminders): every minute each process reads the registrations that *)
(* are due, then takes them one by one, marking the row and queueing the   *)
(* letter in a transaction of its own.                                     *)
(*                                                                         *)
(* The list is read once and worked off while guests cancel and come back, *)
(* organizers move their events and other processes sweep: the UPDATE asks *)
(* again about the mark, and about nothing else.  Signing up is            *)
(* BoardSignup's transaction, here its effect on the row at COMMIT.        *)
(***************************************************************************)
EXTENDS Naturals, FiniteSets

CONSTANTS
  Replicas,    \* processes of the backend
  Nobody,      \* the holder of a free row lock
  Guests,      \* pairs of an event and a profile: the rows there can be
  Events,
  EventOf,     \* the event of each row
  Manual,      \* events whose signups wait for approval
  Starts,      \* instants an event may start at
  Lead,        \* ReminderLead
  Limit,       \* rows a sweep reads at most
  MaxTicks,    \* bound: the clock
  MaxChanges,  \* bound: what guests and organizers do
  MaxFaults    \* bound: failed statements, lost answers and crashes

ASSUME RemindersAssumption ==
  /\ Nobody \notin Replicas /\ IsFiniteSet(Guests) /\ Guests # {}
  /\ EventOf \in [Guests -> Events] /\ Manual \subseteq Events
  /\ Starts \subseteq Nat /\ Starts # {}
  /\ Lead \in Nat /\ Limit \in Nat \ {0}
  /\ MaxTicks \in Nat /\ MaxChanges \in Nat /\ MaxFaults \in Nat

VARIABLES
  now,        \* the clock
  start,      \* start of each event
  published,  \* the events that are published
  reg,        \* the row of each guest: its status, creation, address and mark
  lock,       \* the process whose transaction holds a guest's row
  letters,    \* reminders queued for a guest
  stage,      \* progress of each process's sweep
  todo,       \* the rows its sweep has read and not yet taken
  row,        \* the row it has taken
  lapsed,     \* history: rows that stopped being due during its sweep
  changes, faults

tables == <<now, start, published>>
sweeps == <<stage, todo, row, lapsed>>
bounds == <<changes, faults>>
vars == <<tables, reg, lock, letters, sweeps, bounds>>

NoRow == [status |-> "none", created |-> 0, email |-> FALSE, marked |-> FALSE]
RegRows == [status : {"none", "registered", "waitlisted", "cancelled"}, created : Nat,
            email : BOOLEAN, marked : BOOLEAN]

(* The row of a process that has taken none. *)
AnyGuest == CHOOSE g \in Guests : TRUE

Init ==
  /\ now = 0
  /\ start \in [Events -> Starts]
  /\ published = Events
  /\ reg = [g \in Guests |-> NoRow]
  /\ lock = [g \in Guests |-> Nobody]
  /\ letters = [g \in Guests |-> 0]
  /\ stage = [x \in Replicas |-> "waiting"]
  /\ todo = [x \in Replicas |-> {}]
  /\ row = [x \in Replicas |-> AnyGuest]
  /\ lapsed = [x \in Replicas |-> {}]
  /\ changes = 0 /\ faults = 0

-----------------------------------------------------------------------------
(* Who gets a reminder.                                                     *)

(* A guest who is coming, has left an address, and signed up before the     *)
(* reminder's time, to an event that is published and about to start.       *)
Invited(g) ==
  LET e == EventOf[g] IN
  /\ reg[g].status = "registered" /\ reg[g].email
  /\ e \in published
  /\ now < start[e] /\ start[e] <= now + Lead
  /\ reg[g].created + Lead < start[e]

Due(g) == Invited(g) /\ ~reg[g].marked

(* Steps of everybody else, after which running sweeps may hold rows that   *)
(* are due no more.                                                         *)
Overtaken ==
  lapsed' = [x \in Replicas |-> IF stage[x] = "waiting" THEN {}
               ELSE lapsed[x] \union {g \in Guests : Invited(g) /\ ~Invited(g)'}]

-----------------------------------------------------------------------------
(* Guests, organizers and the clock.                                        *)

Changed == changes < MaxChanges /\ changes' = changes + 1

(* Mutant: a status the rest of the code does not know. *)
NewStatusUnknown(g) == IF EventOf[g] \in Manual THEN "pending" ELSE "registered"

NewStatus(g) == IF EventOf[g] \in Manual THEN "waitlisted" ELSE "registered"

(* RegisterPublic at its COMMIT: a new row, or a cancelled one revived with *)
(* a new date and address and its old mark.  It waits for a sweep's lock.   *)
SignUp(g) ==
  /\ Changed
  /\ reg[g].status \in {"none", "cancelled"} /\ EventOf[g] \in published
  /\ now < start[EventOf[g]] /\ lock[g] = Nobody
  /\ \E email \in BOOLEAN :
       reg' = [reg EXCEPT ![g] = [@ EXCEPT !.status = NewStatus(g), !.created = now, !.email = email]]
  /\ UNCHANGED <<tables, lock, letters, stage, todo, row, faults>>
  /\ Overtaken

(* In the application: the guest cancels, the organizer lets a guest in. *)
SetStatus(g, from, to) ==
  /\ Changed
  /\ reg[g].status \in from /\ lock[g] = Nobody
  /\ reg' = [reg EXCEPT ![g].status = to]
  /\ UNCHANGED <<tables, lock, letters, stage, todo, row, faults>>
  /\ Overtaken

Cancel(g) == SetStatus(g, {"registered", "waitlisted"}, "cancelled")
Approve(g) == SetStatus(g, {"waitlisted"}, "registered")

(* The organizer moves the event, hides it or publishes it again. *)
Organize(e) ==
  /\ Changed
  /\ \/ \E t \in Starts \ {start[e]} : start' = [start EXCEPT ![e] = t] /\ UNCHANGED published
     \/ /\ published' = IF e \in published THEN published \ {e} ELSE published \union {e}
        /\ UNCHANGED start
  /\ UNCHANGED <<now, reg, lock, letters, stage, todo, row, faults>>
  /\ Overtaken

Tick ==
  /\ now < MaxTicks
  /\ now' = now + 1
  /\ UNCHANGED <<start, published, reg, lock, letters, stage, todo, row, bounds>>
  /\ Overtaken

-----------------------------------------------------------------------------
(* sweepReminders.                                                          *)

(* Mutant: rows that are marked already are read again. *)
CandidatesMarked == {g \in Guests : Invited(g)}

(* Mutant: the guest's status is not asked about. *)
CandidatesAnyStatus ==
  {g \in Guests : /\ reg[g].status # "none" /\ reg[g].email /\ ~reg[g].marked
                  /\ now < start[EventOf[g]] /\ start[EventOf[g]] <= now + Lead}

Candidates == {g \in Guests : Due(g)}

(* The SELECT: as many of the due rows as the limit lets through, in no      *)
(* particular order.                                                        *)
Read(x) ==
  /\ stage[x] = "waiting"
  /\ \E batch \in SUBSET Candidates :
       /\ batch # {} /\ Cardinality(batch) <= Limit
       /\ batch = Candidates \/ Cardinality(batch) = Limit
       /\ todo' = [todo EXCEPT ![x] = batch]
  /\ stage' = [stage EXCEPT ![x] = "next"]
  /\ UNCHANGED <<tables, reg, lock, letters, row, lapsed, bounds>>

(* The loop ends, or an error ends it: the sweep waits for the next tick.   *)
Ended(x) ==
  /\ stage' = [stage EXCEPT ![x] = "waiting"]
  /\ todo' = [todo EXCEPT ![x] = {}]
  /\ row' = [row EXCEPT ![x] = AnyGuest]
  /\ lapsed' = [lapsed EXCEPT ![x] = {}]
  /\ lock' = [g \in Guests |-> IF lock[g] = x THEN Nobody ELSE lock[g]]

Finish(x) ==
  /\ stage[x] = "next" /\ todo[x] = {}
  /\ Ended(x)
  /\ UNCHANGED <<tables, reg, letters, bounds>>

(* BEGIN for one of the rows left. *)
Take(x) ==
  /\ stage[x] = "next"
  /\ \E g \in todo[x] :
       /\ row' = [row EXCEPT ![x] = g]
       /\ todo' = [todo EXCEPT ![x] = @ \ {g}]
  /\ stage' = [stage EXCEPT ![x] = "update"]
  /\ UNCHANGED <<tables, reg, lock, letters, lapsed, bounds>>

(* The row is done with: the loop goes on. *)
Onwards(x) == stage' = [stage EXCEPT ![x] = "next"] /\ row' = [row EXCEPT ![x] = AnyGuest]

(* Mutant: the mark is not asked about again. *)
UnmarkedAsRead(g) == TRUE

Unmarked(g) == ~reg[g].marked

(* The UPDATE waits for whoever holds the row and reads it afresh: it marks *)
(* an unmarked row, and another process's is passed over.                   *)
Mark(x) ==
  /\ stage[x] = "update" /\ lock[row[x]] = Nobody
  /\ IF Unmarked(row[x])
     THEN /\ lock' = [lock EXCEPT ![row[x]] = x]
          /\ stage' = [stage EXCEPT ![x] = "commit"]
          /\ UNCHANGED row
     ELSE Onwards(x) /\ UNCHANGED lock
  /\ UNCHANGED <<tables, reg, letters, todo, lapsed, bounds>>

(* enqueueLetter: one more letter of the guest in the outbox. *)
Queued(g) == [letters EXCEPT ![g] = @ + 1]

(* enqueueLetter and COMMIT: the mark and the letter appear together, and   *)
(* the answer may be lost, which ends the sweep.                            *)
Commit(x) ==
  /\ stage[x] = "commit"
  /\ reg' = [reg EXCEPT ![row[x]].marked = TRUE]
  /\ letters' = Queued(row[x])
  /\ \/ /\ Onwards(x)
        /\ lock' = [lock EXCEPT ![row[x]] = Nobody]
        /\ UNCHANGED <<todo, lapsed, faults>>
     \/ /\ faults < MaxFaults /\ faults' = faults + 1
        /\ Ended(x)
  /\ UNCHANGED <<tables, changes>>

(* A statement fails, or the process dies and is started again: what was     *)
(* not committed is gone.                                                   *)
Fail(x) ==
  /\ stage[x] # "waiting"
  /\ faults < MaxFaults /\ faults' = faults + 1
  /\ Ended(x)
  /\ UNCHANGED <<tables, reg, letters, changes>>

-----------------------------------------------------------------------------
Sweep(x) == Read(x) \/ Finish(x) \/ Take(x) \/ Mark(x) \/ Commit(x)

Next ==
  \/ \E g \in Guests : SignUp(g) \/ Cancel(g) \/ Approve(g)
  \/ \E e \in Events : Organize(e)
  \/ Tick
  \/ \E x \in Replicas : Sweep(x) \/ Fail(x)

Spec == Init /\ [][Next]_vars

(* The ticker of a process fires for as long as it runs, and a statement    *)
(* that can go on does.  Nobody has to sign up, and nothing has to fail.     *)
FairSpec == Spec /\ \A x \in Replicas : WF_vars(Sweep(x))

-----------------------------------------------------------------------------
(* The variables keep their ranges. *)
TypeOK ==
  /\ now \in Nat /\ changes \in Nat /\ faults \in Nat
  /\ start \in [Events -> Starts]
  /\ published \subseteq Events
  /\ reg \in [Guests -> RegRows]
  /\ lock \in [Guests -> Replicas \union {Nobody}]
  /\ letters \in [Guests -> Nat]
  /\ stage \in [Replicas -> {"waiting", "next", "update", "commit"}]
  /\ todo \in [Replicas -> SUBSET Guests]
  /\ row \in [Replicas -> Guests]
  /\ lapsed \in [Replicas -> SUBSET Guests]
  /\ \A x \in Replicas : Cardinality(todo[x]) <= Limit

(* "The mark and the letter in one transaction: otherwise a restart between *)
(* them drops the letter or sends it every minute" (mail.go:418-419): a row *)
(* has one reminder if it is marked and none if it is not, however sweeps   *)
(* of several processes, failures and revivals of the row interleave.       *)
MarkedOnceQueuedOnce ==
  \A g \in Guests : letters[g] = IF reg[g].marked THEN 1 ELSE 0

(* A reminder goes to a guest who is due it, or who was at some moment of   *)
(* the sweep: what a guest or an organizer called off before the list was    *)
(* read (mail.go:354-360) is never announced.                               *)
RemindersAreDue ==
  [][\A x \in Replicas : stage[x] = "commit" /\ letters' # letters /\ lock'[row[x]] # lock[row[x]] =>
       Invited(row[x]) \/ row[x] \in lapsed[x]]_vars

(* Nobody is passed over: a guest who is due a reminder gets it, or stops   *)
(* being due, whatever the limit, the other processes and finitely many     *)
(* failures do (mail.go:330-341, 361).                                      *)
EveryoneDueIsReminded == \A g \in Guests : Due(g) ~> ~Due(g)
=============================================================================
