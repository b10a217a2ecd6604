--------------------------- MODULE WebRegistration ---------------------------
(***************************************************************************)
(* Registration by link, without an account (internal/webreg), for one     *)
(* event.  A submission is checked against a configuration of the event,   *)
(* gets a deduplication key from the first contact it has, and is written  *)
(* by one INSERT ... ON CONFLICT DO UPDATE, repeated when the ticket code  *)
(* it drew is taken.  Its place in the list is counted by a second         *)
(* statement.                                                              *)
(*                                                                         *)
(* Of a submission only the contacts are kept.  The handler's cache is     *)
(* abstracted: a request may be served any configuration the event has had.*)
(***************************************************************************)
EXTENDS Naturals, FiniteSets

CONSTANTS
  Requests,       \* registrations that may be in progress at once
  Values,         \* emails, usernames and phone numbers
  NoValue,        \* a contact that is not given
  Codes,          \* ticket codes (32^7 in the code)
  NoCode,
  Payloads,       \* what people fill in, by kind of contact
  Configs,        \* configurations an organizer chooses from
  Legacy,         \* a username registered before keys had a prefix, or NoValue
  MaxAttempts,    \* draws of a ticket code (3 in the code)
  MaxSubmissions, \* bound: submissions that pass the checks
  MaxScans        \* bound: tickets scanned at the door

Kinds == {"email", "tg", "phone"}
Demands == {"off", "optional", "required"}
Contacts == [Kinds -> Values \union {NoValue}]

ASSUME WebAssumption ==
  /\ NoValue \notin Values /\ NoCode \notin Codes
  /\ Payloads \subseteq Contacts
  /\ Configs # {}
  /\ Configs \subseteq [form : [Kinds -> Demands], open : BOOLEAN, tickets : BOOLEAN]
  /\ Legacy \in Values \union {NoValue}
  /\ IsFiniteSet(Values)
  /\ MaxAttempts \in Nat \ {0} /\ MaxSubmissions \in Nat /\ MaxScans \in Nat

VARIABLES
  served,      \* the configurations the event has had
  rows,        \* the event's registrations by deduplication key
  lastId,      \* the sequence behind their ids
  submissions, \* submissions so far
  scans,       \* scans so far: the clock of the door
  pc,          \* progress of each request
  ev,          \* the configuration it has been served
  clean,       \* its contacts after the checks
  key,         \* its deduplication key
  attempt,     \* draws that collided
  id,          \* the id drawn, then the id of the row
  code,        \* the code drawn, then the ticket of the row
  passes       \* answers given: key, id, ticket and place in the list

local == <<ev, clean, key, attempt, id, code>>
vars == <<served, rows, lastId, submissions, scans, pc, local, passes>>

NoContacts == [k \in Kinds |-> NoValue]
Absent == [id |-> 0, data |-> NoContacts, ticket |-> NoCode, arrived |-> 0]
Present(k) == rows[k].id > 0

AllKeys == [kind : Kinds \union {"bare"}, value : Values]
           \union [kind : {"random"}, value : 1..MaxSubmissions]
AnyConfig == CHOOSE cfg \in Configs : TRUE

(* A row older than migration 004 has the bare username as its key. *)
LegacyRow == [id |-> 1, data |-> [NoContacts EXCEPT !["tg"] = Legacy],
              ticket |-> NoCode, arrived |-> 0]

Init ==
  /\ \E cfg \in Configs : served = {cfg}
  /\ rows = [k \in AllKeys |->
       IF k.kind = "bare" /\ k.value = Legacy THEN LegacyRow ELSE Absent]
  /\ lastId = 1 /\ submissions = 0 /\ scans = 0
  /\ pc = [c \in Requests |-> "idle"]
  /\ ev = [c \in Requests |-> AnyConfig]
  /\ clean = [c \in Requests |-> NoContacts]
  /\ key = [c \in Requests |-> [kind |-> "none", value |-> NoValue]]
  /\ attempt = [c \in Requests |-> 0]
  /\ id = [c \in Requests |-> 0]
  /\ code = [c \in Requests |-> NoCode]
  /\ passes = {}

-----------------------------------------------------------------------------
(* The organizer saves a configuration; requests may go on being served an  *)
(* earlier one.                                                             *)
UpsertEvent(cfg) ==
  /\ served' = served \union {cfg}
  /\ UNCHANGED <<rows, lastId, submissions, scans, pc, local, passes>>

-----------------------------------------------------------------------------
(* Register.                                                                *)

Finish(c) ==
  /\ pc' = [pc EXCEPT ![c] = "idle"]
  /\ ev' = [ev EXCEPT ![c] = AnyConfig]
  /\ clean' = [clean EXCEPT ![c] = NoContacts]
  /\ key' = [key EXCEPT ![c] = [kind |-> "none", value |-> NoValue]]
  /\ attempt' = [attempt EXCEPT ![c] = 0]
  /\ id' = [id EXCEPT ![c] = 0]
  /\ code' = [code EXCEPT ![c] = NoCode]

(* Fields the organizer has switched off are not looked at. *)
Cleaned(form, p) == [k \in Kinds |-> IF form[k] = "off" THEN NoValue ELSE p[k]]
Valid(form, p) == \A k \in Kinds : form[k] = "required" => p[k] # NoValue

(* Mutant: the username comes before the email. *)
DedupKeyByUsername(p, n) ==
  CASE p["tg"] # NoValue -> [kind |-> "tg", value |-> p["tg"]]
    [] p["tg"] = NoValue /\ p["email"] # NoValue -> [kind |-> "email", value |-> p["email"]]
    [] OTHER -> [kind |-> "random", value |-> n]

(* The event's identity is its first field in use, and the second chance is *)
(* the first contact given, both in the order email, username, phone: after *)
(* the checks the two are the first contact there is.  Without any contact  *)
(* the key is random, and is the same in every attempt.                     *)
DedupKey(p, n) ==
  CASE p["email"] # NoValue -> [kind |-> "email", value |-> p["email"]]
    [] p["email"] = NoValue /\ p["tg"] # NoValue -> [kind |-> "tg", value |-> p["tg"]]
    [] p["email"] = NoValue /\ p["tg"] = NoValue /\ p["phone"] # NoValue ->
         [kind |-> "phone", value |-> p["phone"]]
    [] OTHER -> [kind |-> "random", value |-> n]

(* A submission that passes the checks; one that does not changes nothing.  *)
Admit(c, p, cfg) ==
  LET q == Cleaned(cfg.form, p) IN
  /\ pc[c] = "idle"
  /\ cfg.open /\ Valid(cfg.form, p)
  /\ submissions < MaxSubmissions
  /\ submissions' = submissions + 1
  /\ pc' = [pc EXCEPT ![c] = "drawing"]
  /\ ev' = [ev EXCEPT ![c] = cfg]
  /\ clean' = [clean EXCEPT ![c] = q]
  /\ key' = [key EXCEPT ![c] = DedupKey(q, submissions')]
  /\ UNCHANGED <<served, rows, lastId, scans, attempt, id, code, passes>>

(* A ticket code and an id are drawn; the id is used up even by an update.  *)
Draw(c) ==
  /\ pc[c] = "drawing"
  /\ lastId' = lastId + 1
  /\ id' = [id EXCEPT ![c] = lastId']
  /\ \E x \in IF ev[c].tickets THEN Codes ELSE {NoCode} : code' = [code EXCEPT ![c] = x]
  /\ pc' = [pc EXCEPT ![c] = "writing"]
  /\ UNCHANGED <<served, rows, submissions, scans, ev, clean, key, attempt, passes>>

(* Mutant: a new ticket replaces the one that was given. *)
TicketRotated(c) == IF code[c] # NoCode THEN code[c] ELSE rows[key[c]].ticket

(* COALESCE(stored, drawn): a ticket is issued once. *)
Ticket(c) == IF rows[key[c]].ticket # NoCode THEN rows[key[c]].ticket ELSE code[c]

(* COALESCE(given, stored): a field that is left out is not erased. *)
Data(c) ==
  [k \in Kinds |-> IF clean[c][k] # NoValue THEN clean[c][k] ELSE rows[key[c]].data[k]]

(* The unique index on the event's tickets. *)
Clash(c) ==
  /\ Ticket(c) # NoCode
  /\ \E k \in AllKeys \ {key[c]} : Present(k) /\ rows[k].ticket = Ticket(c)

(* INSERT ... ON CONFLICT (dedup_key) DO UPDATE ... RETURNING: an insertion *)
(* that meets another of the same key waits for it, then updates its row.   *)
Upsert(c) ==
  LET k == key[c]
      rowId == IF Present(k) THEN rows[k].id ELSE id[c]
  IN
  /\ pc[c] = "writing"
  /\ ~Clash(c)
  /\ rows' = [rows EXCEPT ![k] =
       [id |-> rowId, data |-> Data(c), ticket |-> Ticket(c), arrived |-> rows[k].arrived]]
  /\ id' = [id EXCEPT ![c] = rowId]
  /\ code' = [code EXCEPT ![c] = Ticket(c)]
  /\ pc' = [pc EXCEPT ![c] = "counting"]
  /\ UNCHANGED <<served, lastId, submissions, scans, ev, clean, key, attempt, passes>>

(* Mutant: a collision is always tried again. *)
MayRetryForever(c) == TRUE

MayRetry(c) == attempt[c] + 1 < MaxAttempts

(* Mutant: the code is drawn outside a loop that has no bound. *)
CollideSame(c) ==
  /\ pc[c] = "writing"
  /\ Clash(c)
  /\ UNCHANGED vars

(* Another visitor has the code that was drawn. *)
Collide(c) ==
  /\ pc[c] = "writing"
  /\ Clash(c)
  /\ \/ /\ MayRetry(c)
        /\ attempt' = [attempt EXCEPT ![c] = IF @ < MaxAttempts THEN @ + 1 ELSE @]
        /\ pc' = [pc EXCEPT ![c] = "drawing"]
        /\ UNCHANGED <<ev, clean, key, id, code>>
     \/ ~MayRetry(c) /\ Finish(c)
  /\ UNCHANGED <<served, rows, lastId, submissions, scans, passes>>

(* Rows of the event up to this one; 0 when they cannot be counted, which   *)
(* must not fail a registration that is there.                              *)
Places(c) == {0, Cardinality({k \in AllKeys : Present(k) /\ rows[k].id <= id[c]})}

(* The count and the answer. *)
Count(c) ==
  /\ pc[c] = "counting"
  /\ \E place \in Places(c) :
       passes' = passes \union
         {[key |-> key[c], id |-> id[c], ticket |-> code[c], place |-> place]}
  /\ Finish(c)
  /\ UNCHANGED <<served, rows, lastId, submissions, scans>>

(* The database fails, or the request's time is up; what it has written     *)
(* stays written.                                                           *)
Fail(c) ==
  /\ pc[c] # "idle"
  /\ Finish(c)
  /\ UNCHANGED <<served, rows, lastId, submissions, scans, passes>>

-----------------------------------------------------------------------------
(* Mutant: a second scan overwrites the first. *)
ArrivalLatest(k) == scans + 1

(* COALESCE(checked_in_at, NOW()). *)
Arrival(k) == IF rows[k].arrived > 0 THEN rows[k].arrived ELSE scans + 1

(* A ticket is scanned at the door with the organizer's key. *)
CheckIn(k) ==
  /\ Present(k) /\ rows[k].ticket # NoCode
  /\ scans < MaxScans
  /\ scans' = scans + 1
  /\ rows' = [rows EXCEPT ![k].arrived = Arrival(k)]
  /\ UNCHANGED <<served, lastId, submissions, pc, local, passes>>

-----------------------------------------------------------------------------
Proceed(c) == Draw(c) \/ Upsert(c) \/ Collide(c) \/ Count(c)

Next ==
  \/ \E cfg \in Configs : UpsertEvent(cfg)
  \/ \E c \in Requests :
       \/ \E p \in Payloads, cfg \in served : Admit(c, p, cfg)
       \/ Proceed(c) \/ Fail(c)
  \/ \E k \in AllKeys : CheckIn(k)

Spec == Init /\ [][Next]_vars

(* A request whose statements the database executes goes on to its answer.  *)
FairSpec == Spec /\ \A c \in Requests : WF_vars(Proceed(c))

-----------------------------------------------------------------------------
(* The variables keep their ranges. *)
Keys == AllKeys \union {[kind |-> "none", value |-> NoValue]}
Tickets == Codes \union {NoCode}
Rows == [id : Nat, data : Contacts, ticket : Tickets, arrived : Nat]

TypeOK ==
  /\ served \subseteq Configs
  /\ rows \in [AllKeys -> Rows]
  /\ lastId \in Nat /\ submissions \in 0..MaxSubmissions /\ scans \in Nat
  /\ pc \in [Requests -> {"idle", "drawing", "writing", "counting"}]
  /\ ev \in [Requests -> Configs]
  /\ clean \in [Requests -> Contacts]
  /\ key \in [Requests -> Keys]
  /\ attempt \in [Requests -> 0..MaxAttempts - 1]
  /\ id \in [Requests -> Nat]
  /\ code \in [Requests -> Tickets]
  /\ passes \subseteq [key : Keys, id : Nat, ticket : Tickets, place : Nat]

(* "The ticket code is issued once and never rotates" (repository.go:115-116), *)
(* "no two holders share one" (validate.go:298-300): every code anyone was    *)
(* ever shown still opens the registration it was shown for, and no other,    *)
(* though the configuration, the tickets' mode and the other contacts of that *)
(* registration have changed since.                                           *)
ShownTicketsOpen ==
  \A p \in passes : p.ticket # NoCode =>
    {k \in AllKeys : Present(k) /\ rows[k].ticket = p.ticket} = {p.key}

(* A registration keeps what it has: a repeated submission erases no contact *)
(* that was given (repository.go:159-163), and a repeated scan does not move *)
(* the arrival (repository.go:253-255).                                      *)
NothingIsErased ==
  [][\A k \in AllKeys : Present(k) =>
       /\ rows'[k].id = rows[k].id
       /\ \A i \in Kinds : rows[k].data[i] # NoValue => rows'[k].data[i] # NoValue
       /\ rows[k].arrived > 0 => rows'[k].arrived = rows[k].arrived]_vars

(* "A person can change their Telegram username, and a second signup would   *)
(* land as a second row" (models.go:90-93): while every configuration        *)
(* demands the email, an email is on the door list once.                     *)
Twice(kind) ==
  \E j, k \in AllKeys :
    /\ j # k /\ Present(j) /\ Present(k)
    /\ rows[j].data[kind] # NoValue /\ rows[j].data[kind] = rows[k].data[kind]

OneRowPerEmail ==
  (\A cfg \in Configs : cfg.form["email"] = "required") => ~Twice("email")

(* A request is answered: collisions are not retried for ever. *)
EveryRequestIsAnswered == \A c \in Requests : pc[c] # "idle" ~> pc[c] = "idle"
==============================================================================
