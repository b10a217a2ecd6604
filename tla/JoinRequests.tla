---------------------------- MODULE JoinRequests ----------------------------
(***************************************************************************)
(* Requests to join the closed network (internal/join): a form is stored   *)
(* with its message to the moderators in one READ COMMITTED transaction,   *)
(* and a second form of the same username within a sliding window of 24    *)
(* hours is answered with "already".  The window cannot be a unique index, *)
(* so the check is made under an advisory lock on the username's hash.     *)
(*                                                                         *)
(* NOW() is the start of the transaction, not of the statement: created_at *)
(* and the window's edge are both the time at which the request began.     *)
(***************************************************************************)
EXTENDS Naturals

CONSTANTS
  Clients,   \* transactions that may be open at once
  Nobody,    \* the holder of a free lock
  People,    \* usernames, after normalisation
  KeyOf,     \* hashtext of a username: two usernames may share a key
  Window,    \* the window, in units of time
  MaxTime,   \* bound: the time a behaviour reaches
  MaxForms   \* bound: forms inserted, rolled back or not

ASSUME JoinAssumption ==
  /\ People # {}
  /\ Nobody \notin Clients
  /\ Window \in Nat \ {0}
  /\ MaxTime \in Nat /\ MaxForms \in Nat

VARIABLES
  now,       \* the database's clock
  forms,     \* join_requests: committed forms
  messages,  \* ids of the forms whose message is in the queue
  nextId,    \* the sequence behind the ids; it is not rolled back
  lock,      \* the transaction holding each key
  pc,        \* progress of each transaction
  who,       \* its username
  stamp,     \* its NOW()
  draft,     \* id of the form it has inserted
  told,      \* whether it has queued the message
  reply      \* the answer last given over each connection

table == <<forms, messages>>
local == <<who, stamp, draft, told>>
vars == <<now, table, nextId, lock, pc, local, reply>>

Statuses == {"new", "approved", "rejected"}
Keys == {KeyOf[p] : p \in People}
Key(c) == KeyOf[who[c]]

AnyPerson == CHOOSE p \in People : TRUE

Init ==
  /\ now = 0
  /\ forms = {} /\ messages = {} /\ nextId = 0
  /\ lock = [k \in Keys |-> Nobody]
  /\ pc = [c \in Clients |-> "idle"]
  /\ who = [c \in Clients |-> AnyPerson]
  /\ stamp = [c \in Clients |-> 0]
  /\ draft = [c \in Clients |-> 0]
  /\ told = [c \in Clients |-> FALSE]
  /\ reply = [c \in Clients |-> "none"]

Tick ==
  /\ now < MaxTime
  /\ now' = now + 1
  /\ UNCHANGED <<table, nextId, lock, pc, local, reply>>

-----------------------------------------------------------------------------
(* Submit and Create.                                                       *)

(* A filled honeypot and a form that is not valid are answered without the  *)
(* database; to a bot the answer looks like success.                        *)
Screen(c) ==
  /\ pc[c] = "idle"
  /\ \E r \in {"trapped", "invalid"} : reply' = [reply EXCEPT ![c] = r]
  /\ UNCHANGED <<now, table, nextId, lock, pc, local>>

Begin(c, p) ==
  /\ pc[c] = "idle"
  /\ pc' = [pc EXCEPT ![c] = "locking"]
  /\ who' = [who EXCEPT ![c] = p]
  /\ stamp' = [stamp EXCEPT ![c] = now]
  /\ reply' = [reply EXCEPT ![c] = "none"]
  /\ UNCHANGED <<now, table, nextId, lock, draft, told>>

(* Mutant: the key is not waited for. *)
FreeAlways(c) == TRUE

Free(c) == lock[Key(c)] = Nobody

Lock(c) ==
  /\ pc[c] = "locking"
  /\ Free(c)
  /\ lock' = [lock EXCEPT ![Key(c)] = c]
  /\ pc' = [pc EXCEPT ![c] = "checking"]
  /\ UNCHANGED <<now, table, nextId, local, reply>>

(* Mutant: the key stays locked. *)
ReleasedNever(c) == lock

Released(c) == [k \in Keys |-> IF lock[k] = c THEN Nobody ELSE lock[k]]

(* The end of a transaction, committed or rolled back. *)
Finish(c, answer) ==
  /\ lock' = Released(c)
  /\ pc' = [pc EXCEPT ![c] = "idle"]
  /\ who' = [who EXCEPT ![c] = AnyPerson]
  /\ stamp' = [stamp EXCEPT ![c] = 0]
  /\ draft' = [draft EXCEPT ![c] = 0]
  /\ told' = [told EXCEPT ![c] = FALSE]
  /\ reply' = [reply EXCEPT ![c] = answer]

(* Mutant: usernames are compared by their hash. *)
RecentByKey(c) == {f \in forms : KeyOf[f.who] = Key(c) /\ f.at + Window > stamp[c]}

(* created_at > NOW() - 24 hours, from a snapshot taken under the lock. *)
Recent(c) == {f \in forms : f.who = who[c] /\ f.at + Window > stamp[c]}

Check(c) ==
  /\ pc[c] = "checking"
  /\ IF Recent(c) # {}
       THEN Finish(c, "already")
       ELSE /\ pc' = [pc EXCEPT ![c] = "inserting"]
            /\ UNCHANGED <<lock, local, reply>>
  /\ UNCHANGED <<now, table, nextId>>

Insert(c) ==
  /\ pc[c] = "inserting"
  /\ nextId < MaxForms
  /\ nextId' = nextId + 1
  /\ draft' = [draft EXCEPT ![c] = nextId']
  /\ pc' = [pc EXCEPT ![c] = "telling"]
  /\ UNCHANGED <<now, table, lock, who, stamp, told, reply>>

(* EnqueueTelegram, in the same transaction. *)
Tell(c) ==
  /\ pc[c] = "telling"
  /\ told' = [told EXCEPT ![c] = TRUE]
  /\ pc' = [pc EXCEPT ![c] = "committing"]
  /\ UNCHANGED <<now, table, nextId, lock, who, stamp, draft, reply>>

(* Mutant: a status outside the table's check. *)
NewFormPending(c) == [id |-> draft[c], who |-> who[c], at |-> stamp[c], status |-> "pending"]

NewForm(c) == [id |-> draft[c], who |-> who[c], at |-> stamp[c], status |-> "new"]

(* The answer to COMMIT may be lost after the database has committed: the   *)
(* person is told that nothing was stored, and to try again.                *)
Commit(c) ==
  /\ pc[c] = "committing"
  /\ forms' = forms \union {NewForm(c)}
  /\ messages' = IF told[c] THEN messages \union {draft[c]} ELSE messages
  /\ \E answer \in {"accepted", "error"} : Finish(c, answer)
  /\ UNCHANGED <<now, nextId>>

(* An error or the request's timeout: everything is rolled back. *)
Abort(c) ==
  /\ pc[c] # "idle"
  /\ Finish(c, "error")
  /\ UNCHANGED <<now, table, nextId>>

-----------------------------------------------------------------------------
(* A moderator decides, and may decide again (SetStatus, by id). *)
SetStatus(f, st) ==
  /\ f \in forms
  /\ forms' = {IF g.id = f.id THEN [g EXCEPT !.status = st] ELSE g : g \in forms}
  /\ UNCHANGED <<now, messages, nextId, lock, pc, local, reply>>

Proceed(c) == Lock(c) \/ Check(c) \/ Insert(c) \/ Tell(c) \/ Commit(c)

Next ==
  \/ Tick
  \/ \E f \in forms, st \in Statuses : SetStatus(f, st)
  \/ \E c \in Clients :
       \/ Screen(c) \/ Abort(c) \/ Proceed(c)
       \/ \E p \in People : Begin(c, p)

Spec == Init /\ [][Next]_vars

(* The database serves the waiters of an advisory lock in turn.  The bound  *)
(* on forms, which the code does not have, stands for a failed INSERT.      *)
FairSpec ==
  Spec /\ \A c \in Clients :
    SF_vars(Proceed(c)) /\ WF_vars(nextId = MaxForms /\ pc[c] = "inserting" /\ Abort(c))

-----------------------------------------------------------------------------
(* The variables keep their ranges. *)
Forms == [id : Nat, who : People, at : Nat, status : Statuses]

TypeOK ==
  /\ now \in Nat
  /\ forms \subseteq Forms
  /\ messages \subseteq Nat
  /\ nextId \in Nat
  /\ lock \in [Keys -> Clients \union {Nobody}]
  /\ pc \in [Clients -> {"idle", "locking", "checking", "inserting", "telling", "committing"}]
  /\ who \in [Clients -> People]
  /\ stamp \in [Clients -> Nat]
  /\ draft \in [Clients -> Nat]
  /\ told \in [Clients -> BOOLEAN]
  /\ reply \in [Clients ->
       {"none", "trapped", "invalid", "already", "accepted", "error"}]

(* "A repeat within a day is the same request" (repository.go:15-23, 43-50): *)
(* two forms of one username are a whole window apart, however requests      *)
(* overlap, whatever becomes of the answer to a commit and whatever the      *)
(* moderators decide in between.                                             *)
NoRepeatWithinWindow ==
  \A f, g \in forms : f.who = g.who /\ f.id # g.id =>
    f.at + Window <= g.at \/ g.at + Window <= f.at

(* "A form nobody heard of is lost" (repository.go:34-36, handler.go:98-101): *)
(* who is told that a form is there has one, with its message in the queue.  *)
AnswersAreTrue ==
  [][\A c \in Clients :
       pc[c] # "idle" /\ reply'[c] \in {"accepted", "already"} =>
         \E f \in forms' :
           f.who = who[c] /\ f.at + Window > stamp[c] /\ f.id \in messages']_vars

(* Every request is answered: nobody waits for a key for ever. *)
EveryFormIsAnswered == \A c \in Clients : pc[c] # "idle" ~> pc[c] = "idle"
=============================================================================
