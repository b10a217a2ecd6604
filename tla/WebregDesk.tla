------------------------------ MODULE WebregDesk ------------------------------
(***************************************************************************)
(* The organizers' side of the web registration (webreg/handler.go,        *)
(* webreg/repository.go): configurations of events, the keys of their      *)
(* lists, and the cache of configurations each process of the backend      *)
(* keeps in front of the table.                                            *)
(*                                                                         *)
(* A read fills the cache in three steps that anything may come between:   *)
(* the lookup, the SELECT and the store.  An edit drops the entry of its   *)
(* own process only, after the UPDATE.  The signups themselves are in      *)
(* WebRegistration: here one adds to the number the page shows.            *)
(***************************************************************************)
EXTENDS Naturals, Sequences, FiniteSets

CONSTANTS
  Replicas,   \* processes of the backend
  Clients,    \* requests that may be open at once
  Slugs,
  Owners,     \* cabinets of organizers, the value of X-Owner-Slug
  Admin,      \* X-Owner-Scope: all; also the owner of what an admin creates
  Keys,       \* manage keys
  Blank,      \* no manage key
  TTL,        \* eventCacheTTL
  MaxRequest, \* the router's timeout: no request's context outlives it
  CacheSize,  \* entries beyond which a store starts the cache afresh
  MaxAsks,    \* bound: requests and restarts of a behaviour
  MaxTicks    \* bound: the clock

ASSUME DeskAssumption ==
  /\ Admin \notin Owners /\ Blank \notin Keys
  /\ TTL \in Nat \ {0} /\ MaxRequest \in Nat /\ CacheSize \in Nat
  /\ MaxAsks \in Nat /\ MaxTicks \in Nat

VARIABLES
  now,      \* the clock
  events,   \* the row of each slug
  ended,    \* history: when each revision of a row gave way to the next
  cache,    \* the entries of each process
  req,      \* the requests in progress
  saved,    \* history: the revision of the last write a process has finished
  asks      \* requests and restarts so far

vars == <<now, events, ended, cache, req, saved, asks>>

Scopes == Owners \union {Admin}
Absent == [owner |-> Admin, key |-> Blank, open |-> FALSE, exists |-> FALSE]
Rows == [owner : Scopes, key : Keys \union {Blank}, open : BOOLEAN, exists : BOOLEAN]

(* The revision of a row: how many times what its page shows has changed. *)
Rev(s) == Len(ended[s])

(* An entry holds what the page shows, and when it expires.  "late" is      *)
(* history: the entry was dropped between the SELECT and the store.          *)
NoEntry == [held |-> FALSE, rev |-> 0, open |-> FALSE, exp |-> 0, late |-> FALSE]
Entries == [held : BOOLEAN, rev : Nat, open : BOOLEAN, exp : Nat, late : BOOLEAN]

Ops == {"page", "register", "upsert", "rotate", "manage", "checkin", "admin"}
Stages == {"lookup", "select", "store", "decide", "insert", "write",
           "ticket", "drop", "assert", "open", "rows"}
Idle == [stage |-> "idle"]
Requests == [op : Ops, at : Replicas, slug : Slugs, scope : Scopes, key : Keys \union {Blank},
             flag : BOOLEAN, since : Nat, stage : Stages, rev : Nat, open : BOOLEAN, late : BOOLEAN]

Init ==
  /\ now = 0
  /\ events \in [Slugs -> {Absent} \union
       {[owner |-> o, key |-> k, open |-> TRUE, exists |-> TRUE] : o \in Scopes, k \in Keys}]
  /\ ended = [s \in Slugs |-> <<>>]
  /\ cache = [x \in Replicas |-> [s \in Slugs |-> NoEntry]]
  /\ req = [c \in Clients |-> Idle]
  /\ saved = [x \in Replicas |-> [s \in Slugs |-> 0]]
  /\ asks = 0

-----------------------------------------------------------------------------
(* The ends of requests.                                                    *)

At(c, stage) == req[c].stage = stage
Go(c, stage) == req' = [req EXCEPT ![c].stage = stage]
Answer(c) == req' = [req EXCEPT ![c] = Idle]

(* A statement fails or runs out of its request's time: an error, and the   *)
(* rest of the handler is not run.                                          *)
Fail(c) ==
  /\ req[c].stage \notin {"idle", "lookup", "store", "drop"}
  /\ Answer(c)
  /\ UNCHANGED <<now, events, ended, cache, saved, asks>>

(* Time passes while requests wait for the database or for their bodies.    *)
(* The context of a request ends MaxRequest after it began, and steps in     *)
(* memory take no time on this clock.                                       *)
Tick ==
  /\ now < MaxTicks
  /\ \A c \in Clients : ~At(c, "idle") =>
       req[c].stage \notin {"lookup", "store", "drop"} /\ now < req[c].since + MaxRequest
  /\ now' = now + 1
  /\ UNCHANGED <<events, ended, cache, req, saved, asks>>

(* A process is started anew, with an empty cache; its requests are lost. *)
Restart(x) ==
  /\ asks < MaxAsks /\ asks' = asks + 1
  /\ \E s \in Slugs : cache[x][s].held
  /\ cache' = [cache EXCEPT ![x] = [s \in Slugs |-> NoEntry]]
  /\ req' = [c \in Clients |-> IF ~At(c, "idle") /\ req[c].at = x THEN Idle ELSE req[c]]
  /\ UNCHANGED <<now, events, ended, saved>>

-----------------------------------------------------------------------------
(* Requests arrive.                                                         *)

FirstStage == [page |-> "lookup", register |-> "lookup", upsert |-> "write", rotate |-> "write",
               manage |-> "open", checkin |-> "write", admin |-> "assert"]

Ask(c, op, x, s, scope, key, flag) ==
  /\ At(c, "idle") /\ asks < MaxAsks
  /\ asks' = asks + 1
  /\ req' = [req EXCEPT ![c] = 
       [op |-> op, at |-> x, slug |-> s, scope |-> scope, key |-> key, flag |-> flag,
        since |-> now, stage |-> FirstStage[op], rev |-> 0, open |-> FALSE, late |-> FALSE]]
  /\ UNCHANGED <<now, events, ended, cache, saved>>

(* Visitors' requests carry neither scope nor key; the organizer's list and *)
(* the door carry a key; the admin surface carries a scope, and an edit a    *)
(* key that may be left out and the flags, open when they are left out.      *)
AskSomething(c) ==
  \E x \in Replicas, s \in Slugs :
    \/ \E op \in {"page", "register"} : Ask(c, op, x, s, Admin, Blank, FALSE)
    \/ \E op \in {"manage", "checkin"}, k \in Keys : Ask(c, op, x, s, Admin, k, FALSE)
    \/ \E o \in Scopes : Ask(c, "admin", x, s, o, Blank, FALSE)
    \/ \E o \in Scopes, k \in Keys : Ask(c, "rotate", x, s, o, k, FALSE)
    \/ \E o \in Scopes, k \in Keys \union {Blank}, open \in BOOLEAN :
         Ask(c, "upsert", x, s, o, k, open)

-----------------------------------------------------------------------------
(* The cache: Handler.event and Handler.invalidate.                         *)

(* Mutant: the expiry is not looked at. *)
FreshAlways(x, s) == cache[x][s].held

Fresh(x, s) == cache[x][s].held /\ now < cache[x][s].exp

Entry(c) == cache[req[c].at][req[c].slug]

Lookup(c) ==
  /\ At(c, "lookup")
  /\ IF ~Fresh(req[c].at, req[c].slug) THEN Go(c, "select")
     ELSE IF req[c].op = "page" THEN Answer(c)
     ELSE req' = [req EXCEPT ![c].stage = "decide", ![c].rev = Entry(c).rev, ![c].open = Entry(c).open]
  /\ UNCHANGED <<now, events, ended, cache, saved, asks>>

(* Repository.GetEvent: the row and the number of its registrations in one  *)
(* statement; an unknown slug is answered and not cached.                   *)
GetEvent(c) ==
  /\ At(c, "select")
  /\ IF events[req[c].slug].exists
     THEN req' = [req EXCEPT ![c].stage = "store", ![c].rev = Rev(req[c].slug),
                             ![c].open = events[req[c].slug].open]
     ELSE Answer(c)
  /\ UNCHANGED <<now, events, ended, cache, saved, asks>>

Stored(x) == {s \in Slugs : cache[x][s].held}
Kept(x) == IF Cardinality(Stored(x)) > CacheSize THEN [s \in Slugs |-> NoEntry] ELSE cache[x]

Store(c) ==
  /\ At(c, "store")
  /\ cache' = [cache EXCEPT ![req[c].at] = [Kept(req[c].at) EXCEPT ![req[c].slug] =
       [held |-> TRUE, rev |-> req[c].rev, open |-> req[c].open, exp |-> now + TTL,
        late |-> req[c].late]]]
  /\ IF req[c].op = "page" THEN Answer(c) ELSE Go(c, "decide")
  /\ UNCHANGED <<now, events, ended, saved, asks>>

(* Mutant: the handler forgets to drop the entry. *)
InvalidatedNever(x, s) == cache

Invalidated(x, s) == [cache EXCEPT ![x][s] = NoEntry]

(* The end of a write: the entry is dropped, and fills of this process that *)
(* read before it are marked late.                                          *)
Drop(c) ==
  LET x == req[c].at  s == req[c].slug IN
  /\ At(c, "drop")
  /\ cache' = Invalidated(x, s)
  /\ saved' = [saved EXCEPT ![x][s] = IF req[c].rev > @ THEN req[c].rev ELSE @]
  /\ req' = [d \in Clients |->
       IF d = c THEN Idle
       ELSE IF At(d, "store") /\ req[d].at = x /\ req[d].slug = s THEN [req[d] EXCEPT !.late = TRUE]
       ELSE req[d]]
  /\ UNCHANGED <<now, events, ended, asks>>

-----------------------------------------------------------------------------
(* The handlers that write.                                                 *)

(* Handler.Register decides on the configuration it was handed. *)
Decide(c) ==
  /\ At(c, "decide")
  /\ \/ req[c].open /\ Go(c, "insert")
     \/ Answer(c)               \* registration_closed, or the form is not valid
  /\ UNCHANGED <<now, events, ended, cache, saved, asks>>

(* The row has changed what its page shows. *)
Revised(s) == ended' = [ended EXCEPT ![s] = Append(@, now)]

(* The statement has committed; its answer may still be lost, and then the  *)
(* handler reports an error and drops nothing.                              *)
Written(c, rev) ==
  \/ req' = [req EXCEPT ![c].stage = "drop", ![c].rev = rev]
  \/ Answer(c)

(* Repository.Register: one more registration, or one refreshed. *)
Register(c) ==
  /\ At(c, "insert")
  /\ \/ Revised(req[c].slug) /\ Written(c, Rev(req[c].slug) + 1)
     \/ UNCHANGED ended /\ Written(c, Rev(req[c].slug))
  /\ UNCHANGED <<now, events, cache, saved, asks>>

(* The owner filter of the admin surface. *)
Owned(s, scope) == events[s].exists /\ (scope = Admin \/ events[s].owner = scope)

(* Mutant: the event goes to whoever has written it last. *)
UpdatedTakesOver(s, r) ==
  [owner |-> r.scope, key |-> IF r.key = Blank THEN events[s].key ELSE r.key,
   open |-> r.flag, exists |-> TRUE]

(* DO UPDATE: everything but the owner, and the key only when one is sent. *)
Updated(s, r) ==
  [events[s] EXCEPT !.key = IF r.key = Blank THEN @ ELSE r.key, !.open = r.flag]

(* Mutant: two of the twenty-one parameters are swapped. *)
CreatedSwapped(r) == [owner |-> r.key, key |-> r.scope, open |-> r.flag, exists |-> TRUE]

Created(r) == [owner |-> r.scope, key |-> r.key, open |-> r.flag, exists |-> TRUE]

(* Repository.UpsertEvent: one statement inserts, updates what is the        *)
(* caller's, or touches no row, which is answered with slug_taken.           *)
UpsertEvent(c) ==
  LET s == req[c].slug IN
  /\ At(c, "write") /\ req[c].op = "upsert"
  /\ IF events[s].exists /\ ~Owned(s, req[c].scope)
     THEN Answer(c) /\ UNCHANGED <<events, ended>>
     ELSE /\ events' = [events EXCEPT ![s] =
               IF events[s].exists THEN Updated(s, req[c]) ELSE Created(req[c])]
          /\ Revised(s) /\ Written(c, Rev(s) + 1)
  /\ UNCHANGED <<now, cache, saved, asks>>

(* Handler.RotateManageKey: the key is no part of the page. *)
SetManageKey(c) ==
  LET s == req[c].slug IN
  /\ At(c, "write") /\ req[c].op = "rotate"
  /\ events' = IF Owned(s, req[c].scope) THEN [events EXCEPT ![s].key = req[c].key] ELSE events
  /\ Answer(c)
  /\ UNCHANGED <<now, ended, cache, saved, asks>>

KeyOpens(s, key) == events[s].exists /\ events[s].key = key

(* Repository.CheckIn: the UPDATE, under the key, of a ticket that exists or *)
(* does not; it commits by itself ...                                       *)
CheckIn(c) ==
  LET s == req[c].slug IN
  /\ At(c, "write") /\ req[c].op = "checkin"
  /\ \/ KeyOpens(s, req[c].key) /\ Go(c, "ticket")
     \/ Answer(c)
  /\ UNCHANGED <<now, events, ended, cache, saved, asks>>

(* ... and then the ticket is read: when that fails the guest is checked in, *)
(* the door is shown an error, and no entry is dropped.                      *)
GetTicket(c) ==
  /\ At(c, "ticket")
  /\ Written(c, 0)
  /\ UNCHANGED <<now, events, ended, cache, saved, asks>>

-----------------------------------------------------------------------------
(* The lists.                                                               *)

(* AdminList and GetEventConfig ask first whose event it is, and then read  *)
(* it without asking again.                                                 *)
AssertOwner(c) ==
  /\ At(c, "assert")
  /\ IF req[c].scope = Admin \/ Owned(req[c].slug, req[c].scope) THEN Go(c, "open") ELSE Answer(c)
  /\ UNCHANGED <<now, events, ended, cache, saved, asks>>

(* manageList: the event, under the key when the organizer's link asks ... *)
OpenList(c) ==
  LET s == req[c].slug IN
  /\ At(c, "open")
  /\ IF events[s].exists /\ (req[c].op = "admin" \/ KeyOpens(s, req[c].key))
     THEN Go(c, "rows") ELSE Answer(c)
  /\ UNCHANGED <<now, events, ended, cache, saved, asks>>

(* ... and then its registrations. *)
GiveList(c) ==
  /\ At(c, "rows")
  /\ Answer(c)
  /\ UNCHANGED <<now, events, ended, cache, saved, asks>>

Next ==
  \/ Tick
  \/ \E x \in Replicas : Restart(x)
  \/ \E c \in Clients :
       \/ AskSomething(c) \/ Fail(c)
       \/ Lookup(c) \/ GetEvent(c) \/ Store(c) \/ Drop(c)
       \/ Decide(c) \/ Register(c) \/ UpsertEvent(c) \/ SetManageKey(c)
       \/ CheckIn(c) \/ GetTicket(c)
       \/ AssertOwner(c) \/ OpenList(c) \/ GiveList(c)

Spec == Init /\ [][Next]_vars

-----------------------------------------------------------------------------
(* The variables keep their ranges, and nothing is ahead of the table: an   *)
(* entry or a request holds a revision the row has had.                     *)
TypeOK ==
  /\ now \in Nat /\ asks \in Nat
  /\ events \in [Slugs -> Rows]
  /\ ended \in [Slugs -> Seq(Nat)]
  /\ cache \in [Replicas -> [Slugs -> Entries]]
  /\ req \in [Clients -> Requests \union {Idle}]
  /\ saved \in [Replicas -> [Slugs -> Nat]]
  /\ \A x \in Replicas, s \in Slugs : cache[x][s].rev <= Rev(s) /\ saved[x][s] <= Rev(s)
  /\ \A c \in Clients : ~At(c, "idle") => req[c].rev <= Rev(req[c].slug)

(* The revision is the row's, or was until fewer ticks ago than allowed. *)
Within(s, rev, ticks) == rev = Rev(s) \/ now < ended[s][rev + 1] + ticks

(* "The counter is at most this stale" (handler.go:23-27), with the part     *)
(* the comment leaves out: an entry may be filled by a read that began       *)
(* before the edit, in any process, so what a page shows or a signup is      *)
(* decided on is the event's configuration of at most the entry's lifetime   *)
(* and a request ago, and what is inserted on it one more request.           *)
ServedConfigsAreRecent ==
  /\ \A x \in Replicas, s \in Slugs : Fresh(x, s) => Within(s, cache[x][s].rev, TTL + MaxRequest)
  /\ \A c \in Clients :
       At(c, "decide") \/ At(c, "insert") =>
         Within(req[c].slug, req[c].rev, TTL + 2 * MaxRequest)

(* An edit or a signup shows at once where it was made: after its answer its *)
(* process holds no older page, unless a read that was under way when the    *)
(* entry was dropped has brought one back (handler.go:139-141, 441, 482-486). *)
EditsShow ==
  \A x \in Replicas, s \in Slugs :
    cache[x][s].held /\ ~cache[x][s].late => cache[x][s].rev >= saved[x][s]

(* The slug is one for the whole platform, and the owner is asked about      *)
(* once: whatever others do meanwhile, the event an organizer was let into,  *)
(* or has just saved, is still theirs when the answer is put together        *)
(* (repository.go:290-302, 397-404).                                         *)
OwnersKeepTheirEvents ==
  \A c \in Clients :
    req[c].stage \in {"open", "rows", "drop"} /\ req[c].scope \in Owners =>
      events[req[c].slug].exists /\ events[req[c].slug].owner = req[c].scope
=============================================================================
