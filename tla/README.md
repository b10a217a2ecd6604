# Formal model of the afisha backend

TLA+ modules that model the concurrent and failure-prone parts of the afisha
backend (`src/backend`, Go over PostgreSQL and redis), the TLC configurations
that check them on small instances, and TLAPS proofs of what matters most for
every value of the constants. Every action is a translation of the code;
`PROJECT.json` names, for every definition, the lines it stands for.

## 1. Inventory of the system

One Go process (possibly several replicas) serves HTTP over a PostgreSQL
database that it shares with the network's application (`core-api`). All state
that outlives a request is in the database; pages and cards of the board are
also in redis, and each process keeps a cache of web registration
configurations, the rate limiter's buckets, the ticker of the notification
sender and the ticker of the reminders.

| Component | State | Operations | Hard behaviour | What makes it correct |
|---|---|---|---|---|
| Board signup (`internal/events`) | `events`, `event_registrations`, `profiles` | `RegisterPublic`: lock the event, count, upsert the profile, insert or revive, queue messages | concurrent requests for the last seat or of one person; lost answers; a failed lookup inside the transaction | one registration per person, messages stored with it, no failure of its own making, true answers, capacity |
| Notification outbox (`events/notify.go`) | `registration_notify_outbox`, the batch of a drain | enqueue in a transaction; drain every 10 s: select, deliver, mark or postpone | crash between sending and marking, several replicas, a channel's outage, dead addresses | nothing lost, duplicates only after faults, pauses kept, channels independent |
| Join requests (`internal/join`) | `join_requests`, an advisory lock per username hash | `Create`, `SetStatus` | double taps, hash collisions, NOW() older than the wait for the lock | one request per window, stored with its message |
| Web registration (`internal/webreg`) | `webreg_registrations` | `Register`, `CheckIn` | ticket collisions, repeated submissions, rows older than the keys | a ticket opens one registration for ever, nothing erased, one row per identity |
| Web registration desk (`internal/webreg`) | `webreg_events`, a map with a lifetime of 15 s in each process | `UpsertEvent` with its owner filter, `RotateManageKey`, the lists, the cached read | a reader that stores what it read before an edit; a second replica that never hears of it; two organizers and one slug | staleness bounded, an edit shows where it was made, owners keep their events |
| Reminders (`events/mail.go`) | `reminder_mail_at`, the list of a sweep | every minute: read the due, mark and queue each in its own transaction | candidates read before they are processed, several replicas, cancellations and moves in between, restarts | one reminder per mark, only to those due, nobody passed over |
| Board filters, feed merge, facets (`events/filter.go`, `merge.go`, the `afisha.go` of each store) | none | conditions and orders in SQL for three stores, classification in Go, merge, counters | one rule written twice, in SQL and in Go; pages cut out of separately sorted lists; midnight | a page is its part of the whole board, a counter counts what it opens |
| Board caches (`events/cache.go`, `events/handler.go`) | redis: pages for a minute, cards for five | `List`, `Facets`, `GetByID`; the drop after a signup | a store failing half way, a reader that stores after a drop, a key that spans midnight | gaps are not kept, bands are today's, newcomers are counted |
| Featured events (`internal/admin`) | `afisha_featured` | feature, unfeature | pins that change between the statements of a reader | part of the board's pages |
| Curation (`internal/tgevents`) | flags of `afisha_tg_events`, `afisha_curation_log` | `AdminSetFlags`, `AutomaticDecisions`, `UpsertBulk`, `UpsertSources` | people and machines deciding about one card at a time; batches that lock many rows | people's rulings stand, the journal tells the truth, retries are silent |
| Rate limit (`pkg/middleware`) | token buckets by address | take, refill, sweep | a sweep that forgets a bucket before it has refilled | no more than the burst per refill time |
| Migrations (`pkg/db/migrate.go`) | `schema_migrations` | apply what is missing | two replicas starting together | each migration applied once |

Stateless parts (validation, rendering, calendar files, configuration) and the
frontend are listed in `PROJECT.json` with the reason they are left out.

How they interact:

```
 guest ──RegisterPublic──┬──────── drop card ───▶ redis: pages, cards
 reminder sweep ─────────┤                           ▲
 join form ──Create──────┤   List, Facets, GetByID ──┘
                         ▼      over main, webreg, tg
        registration_notify_outbox                ▲
          │ (same transaction)                    │
          ▼                        curator / reviewer / import / revocation
        drain, one per replica     organizer ── publish, withdraw, pin
          ├── telegram
          ├── mail relay          organizer ──UpsertEvent──▶ drop own entry
          └── application's                                     │
              notifications       visitor ──▶ config cache of a process
                                        └──▶ Register ──▶ ticket ──▶ CheckIn
```

`RegisterPublic`, `Create` and the reminder sweep write the outbox in their own
transactions: `BoardSignup`, `JoinRequests` and `Reminders` end with the
message queued (`outbox`, `messages`, `letters`), and `NotifyOutbox` starts
where a row is committed (`Enqueue`). `Reminders` takes a signup as its effect
at COMMIT, `Board` as a counter that has moved and a card that is to be dropped
(`BoardSignup` implements `GuestList`, where a signup is one step), and
`WebRegistration` takes any configuration the event has had, where `WebregDesk`
says how old it can be.

The hazards, each at its line and with the properties that answer for it, are
in `PROJECT.json`.

## 2. Modules

| Module | What it is |
|---|---|
| `DeliveryPromise` | abstract: what the queue promises of each message |
| `NotifyOutbox` | the queue and its senders; implements `DeliveryPromise` with one replica |
| `GuestList` | abstract: a signup as one step |
| `BoardSignup` | `RegisterPublic` down to its statements; implements `GuestList` |
| `JoinRequests` | the join form and the moderators |
| `WebRegistration` | registration by link, tickets, the door |
| `WebregDesk` | configurations, keys, lists and the cache in front of them |
| `Reminders` | the sweeps that remind |
| `Curation` | who decides what is shown of the collected events |
| `BoardQueries` | what the board answers, as operators: conditions, bands, orders, cards, merge, counters |
| `Board` | the handlers that read the board, statement by statement, and the caches; extends `BoardQueries` |
| `<Module>Proofs` | theorems about the module |
| `MC<Module>` | values of the constants for TLC |

Definitions whose comment starts with "Mutant" are plausible bugs: each is a
changed version of the definition that follows it, and exists to show that the
property it is listed with in `PROJECT.json` would notice.

### NotifyOutbox

Time is the ten-second tick. A row is `absent`, `queued` (committed, `sent_at`
NULL) or `sent`; `attempts` and `wait` are its columns `attempts` (as far as
the pause depends on it) and `next_attempt_at`. A sender is `idle`, `reading`
(its `SELECT ... FOR UPDATE SKIP LOCKED` is executing), `sending` or
`recording` the outcome of a delivery; `batch` and `stalled` are the locals of
`drain`. `Deliver` is the call of a channel, whose outcomes are those of
`deliver`, `deliverMail` and `appnotify`: sent, dropped because the event has
begun, failed, or sent with its answer lost. `MarkSent`, `MarkFails` and
`Postpone` are the three ways a delivery is recorded; `Crash` and `SelectFails`
are faults, bounded by `MaxFaults`. `copies` and `faults` are history: copies
that went out and faults that made a sender forget one. The statement runs by
`pool.Query`, outside a transaction, so its row locks exist only while it is
`reading`.

### BoardSignup

One transaction per connection, one action per statement that can wait or
fail. `Begin` takes the snapshot of the first statement and, with it, the count
of registrations; `LockEvent` or `Refuse` is the moment that statement gets the
event's row. This split is what READ COMMITTED does: a statement that waited
reads the locked row afresh and nothing else. The organizer's details, which
are joined without a lock, are therefore those of the snapshot (`known`).

`upsertPublicProfile` is `FindProfile` (by the device id, a hash of the
contact), `InsertProfile`, which waits for whoever is writing the same key and
fails on a unique index when there is a profile with the contact, and
`RecoverProfile`, the second lookup after the rollback to the savepoint. A
failed statement leaves the transaction `aborted` until that rollback;
everything it does afterwards fails, its COMMIT included. `device` says which
contact a profile was inserted with: none for an account of the application,
which is only ever found through its email, phone or telegram. `Messages` is
whom a signup writes to: the organizers' chat, the guest with an address, and
each of the event's `Targets`, its owner and the admins, or none of them when
their lookup fails under its own savepoint.

`Commit` may answer "error" although the database has committed. Cancellations
and the organizer's edits are external. Of the details only what refuses a
signup changes in the model; whether an event waits for approval (`Manual`) and
who its targets are stay as they are.

`GuestList` is what a caller may rely on: a request is asked, takes effect in
one step or not at all, and is answered in that step. `List` maps its places to
the committed rows, its messages to the committed outbox and its answers to
`reply`; the statements in between are stutters and COMMIT is the step, whether
or not its answer arrives. Only the question "is there a seat" is decided by the
list as it was when the request was made, because that is what the code does
(section 6): the abstract request carries `full` from then on.

### JoinRequests

`stamp` is the transaction's `NOW()`; `Recent` is the window's query, made
under the advisory lock from a snapshot of that moment, against a `NOW()` that
is older. `KeyOf` is `hashtext`: usernames may share a key. `nextId` is a
sequence and is not rolled back.

### WebRegistration

One event. A request is admitted under any configuration the event has had
(`served`), which over-approximates the cache of `WebregDesk`; it gets its
deduplication key, draws a code, and is written by one upsert that keeps what
is stored where nothing is given (`Data`), keeps a ticket once issued
(`Ticket`) and fails on the unique index of tickets (`Clash`). `passes` is
history: every answer a visitor was given. `Legacy` is a row as migration 004
left it.

### WebregDesk

A slug's row is its owner, its manage key and whether it is open; the sequence
`ended` (history) is longer by one each time the row changes what its page
shows, and says when. A read through the cache is three steps, `Lookup`,
`GetEvent` and `Store`, with anything in between; an edit is the statement
(`UpsertEvent`, `Register`, `CheckIn`), whose answer may be lost, and then
`Drop`, which forgets the entry of its own process only. A check-in reads the
ticket in between (`GetTicket`), and when that fails nothing is dropped. `Store` starts the map
afresh when it has outgrown `CacheSize`. The lists are three steps as well:
`AssertOwner`, `OpenList`, `GiveList`. The clock does not pass the moment a
request's context ends (`MaxRequest`, the router's timeout), and steps that are
only in memory take no time. `late` marks an entry whose reader had read before
the drop and stored after it; `saved` is the newest revision a process has
finished writing.

### Reminders

A sweep reads at most `Limit` due rows (`Read`) and takes them one by one
(`Take`): the UPDATE waits for the row, asks again about the mark and about
nothing else (`Mark`), and its COMMIT publishes mark and letter together, or
publishes them and loses the answer, which ends the sweep. Meanwhile guests
cancel and sign up again (the row keeps its mark), organizers approve, move,
hide and publish, and other processes sweep. `lapsed` is history: rows that
were due at some moment of a sweep and stopped being so.

### Curation

A card is its flags with the reason and the owner of a takedown. A curator's
patch is one statement and waits for the row; automatic batches, imports and
revocations are transactions that take one row after the other (`Take`), write
privately (`draft`) and publish at `Commit`. `order` is the order in which a
transaction meets its cards: by id for automatic batches, anything for the
others. A curator's entry in the journal is of the row its UPDATE returns; an
automatic batch puts the entry together from the row it read and the decision
(`Recorded`), apart from the row it writes (`Decided`), and inserts it with the
next id of the sequence (`Insert`), which is spent even when the transaction is
rolled back. `journal` keeps of each card the entry with the largest id.
`down` and `revoked` are history: what curators have taken down and not
put back, and what a revocation put out. Listing a card counts as putting it
back, as it does in the journal's action names.

### BoardQueries

Time is minutes of Moscow time, so that days, the weekend and the two bands can
be computed as the code does. A row has the columns a filter looks at and
belongs to one of three stores, of which the collected one has dates. The
conditions of the WHERE (`Base`, `CityCond`, `CategoryCond`, `WhenCond`,
`FreeCond`, `KindCond`) are one operator each, and so are the ORDER BY of each
store, the card made of a row, the classification Go repeats (`Classify`), the
order and cut of the merge (`MergePage`) and the counters with one dimension
left out (`CountFacets`). `ORDER BY ... LIMIT n` is any set of first n rows
(`Firsts`), since rows that tie come in any order.

### Board

`List` is a lookup in redis, three statements of the main store and two of each
further store, the answer and its storing; `Facets` counts store by store and
is never kept; `GetByID` is a lookup, one statement and the storing. "Today" is
decided when the request arrives (`at`). Any statement may fail, and what the
code makes of it is `FailMain`, `FailPage`, `FailCount` and `FailFacets`. A
signup commits and then drops the card (`RegisterPublic`, `InvalidateEvent`),
which redis may refuse; curators pin and unpin, organizers publish and
withdraw; minutes pass, over midnight too. `ghost` is history: the tables an
answer is of, and whether they moved while it was put together. The reference
the answers are held against (`Answers`, `Reference`) is written without the
SQL: days as sets, the band as `Classify` has it.

## 3. Runs

| Run | Shows | Bounds |
|---|---|---|
| `outbox_one_replica` | nothing lost, duplicates explained, refinement of `DeliveryPromise` | 3 rows of two channels (one undeliverable, one letter), batches of 2, longest pause 2, one fault |
| `outbox_channels_independent` | liveness: a deliverable row goes out once its channel stays up | the same rows, batch of 2, longest pause 2, the dead row first, no faults |
| `outbox_row_in_two_replicas` | **violated**: a row is put out by two replicas | 2 rows, 2 senders |
| `signup_seats` | one registration each, messages with it, no request failed by its own statements, every request one step of `GuestList`, bounded overbooking | 2 connections, 3 people (an account, a guest with 2 contacts, a guest), 2 push targets, 1 seat, 1 cancellation |
| `signup_two_events` | every request is answered when two events share a profile | 2 events, 1 person with 2 contacts |
| `signup_oversold` | **violated**: two guests on one seat | 2 connections, 1 seat |
| `join_window` | one request per window, true answers, every request answered | 2 connections, 2 colliding usernames, window 2, time 3, 2 insertions |
| `webreg_default_form` | a shown ticket opens its registration for ever and no other, one row per email, nothing erased, every request answered | 2 requests, 2 submissions, 2 codes, 2 draws, 2 scans, a row from before migration 004 |
| `desk_edits` | what is served is recent, edits show where they were made, owners keep their events | 2 replicas, 2 requests, 1 slug, 2 owners and the admin, lifetime 1, request 1, 3 asks, 3 ticks |
| `reminders_sweeps` | one reminder per mark, only to those due, and everyone due | 2 replicas, 2 guests (one waits for approval), one row a sweep, 3 ticks, 4 changes, 1 fault |
| `curation_shown` | rulings stand, the journal is true, retries write nothing, batches never block each other | 2 cards, 2 transactions, 2 patches; states with the same order of journal ids are one (`VIEW`) |
| `board_pages` | pages are their part of the whole board, bands are today's, gaps are not kept, counters count what they open, newcomers are counted | 1 reader, 2 requests, 1 change, 12 rows in 2 boards, 5 questions, 2 windows, Saturday 23:59, steps of 1 and 6 minutes |

Why these bounds are enough: every hazard of the transactions needs at most two
concurrent ones and one more step of the environment; two connections, two
senders, two sweeps or two batches therefore exhibit it. Three people and one
seat make the overbooking bound tight (two registrations) and refuse the third.
Two codes and two draws make collisions both recoverable and final. In the
outbox the batch of two with three rows makes LIMIT bite, and a longest pause of
two is the least that lets a row of the channel of a dead row through. The
liveness run is at the edge of what `ChannelsAreIndependent` promises
(`WithinReach`): one older dead row of the last row's own channel, two older
rows that keep failing, for a longest pause and a batch of two. One more of
either and the row starves: TLC finds it with two dead rows of its channel, and
with two failing rows before it and a batch of one. The fault-free liveness run stands for behaviours with finitely
many faults too: after its last fault a sender is idle or in a drain and the
rows are queued, sent or waiting, which are states fault-free behaviours reach
as well.

On the desk three requests are one that fills the cache, one that edits and one
that is served; with a lifetime and a request of one tick the oldest configuration
allowed is two ticks old when it is inserted on, and three ticks leave room for
an older one. A
cache size of zero makes every second store start afresh. In the reminders a
limit of one leaves a due row for the next sweep, four changes are a signup for
each guest, an approval and a cancellation or a move, and the fault is a lost
answer or a crash between mark and commit. On the board one reader is enough
for the caches because what other readers do to it is what its own first
request does to its second; one change, minute or failed statement falls
between any two of its statements. The rows are chosen so that every condition
of a filter tells two of them apart: a party past midnight, an exhibition and a
weekend under way, an open end, an event of another city, an unlisted and a
hidden one, one that ends before it begins, pins in the wrong order; two minutes to midnight of a Saturday make
"today", "tomorrow" and "weekend" change. `PagesAreHonest` leaves out questions
for which two rows of a store tie in the code's ORDER BY and not in the merge
(section 6); no two of the chosen rows do. It leaves out weekends of boards with
an event whose last day is before its first, for which the statement and its
comment differ (section 6). In curation the ids of the journal
only matter by their order, so `VIEW UpToIds` replaces them by it, and
`MaxEntries` is never reached: the set of states is finite without it. What the
bounds leave open is closed by the proofs for the safety properties listed in section 5.

Bounds in guards: `MaxFaults`, `MaxCancels`, `MaxTime`, `MaxForms`,
`MaxSubmissions`, `MaxScans`, `MaxPatches`, `MaxEntries`, `MaxAsks`, `MaxEvents`, `MaxTicks`
and `MaxChanges`. `attempts` is counted up to the longest pause because the
code only uses `LEAST(attempts + 1, 30)`; in `Collide` the counter of draws
stops at its limit, which changes nothing for the code's own test of it.
Deadlock is not checked where these bounds are all that stops the system
(`board_pages`, `desk_edits`, `reminders_sweeps`).

## 4. Fairness

* `NotifyOutbox!FairSpec`: time passes and a drain ends before the next tick
  (`PunctualTick`, weak fairness: twenty deliveries with their timeouts are
  short against the pauses they are measured by), and a running sender takes
  its steps (strong fairness, because a row lock of another replica's
  statement disables the step for a moment and the database queues waiters).
  Nothing is assumed of signups, channels or faults.
* `BoardSignup!FairSpec` and `JoinRequests!FairSpec`: strong fairness of each
  transaction's steps: PostgreSQL serves the waiters of a row or an advisory
  lock in turn. No request has to be made, none has to fail.
* `WebRegistration!FairSpec`: weak fairness: a request never waits for
  another's lock longer than one statement.
* `Reminders!FairSpec`: weak fairness of each process's sweep: its ticker fires
  for as long as it runs, and a statement that can go on does. Time need not
  pass, and nobody has to change anything; faults are finitely many.
* `Board`, `WebregDesk` and `Curation` have no liveness property: their
  requests wait for nothing but single statements, and that a batch of
  curation ends is the database's deadlock detection, not this code.

## 5. What is proved

Every theorem is checked by TLAPS (SMT, Zenon and LS4) from the named
assumptions on the constants (`OutboxAssumption`, `SignupAssumption`,
`JoinAssumption`, `WebAssumption`, `DeskAssumption`, `RemindersAssumption`,
`CurationAssumption`, `QueriesAssumption`, `BoardAssumption`), which TLC
evaluates in every run. Each module has its typing theorem; beyond it:

* `NotifyOutboxProofs`
  * `NothingLost`: for any number of replicas, rows and faults, a row is marked
    sent only if a copy went out or its event has begun. The invariant adds
    that a sender holding the answer "ok" for a row has either put it out or
    dropped it for that reason.
  * `NoUnexplainedDuplicate`: a replica puts out at most one copy more than it
    has faults for that row. The invariant has to count differently in each
    phase: as many copies as faults while the row is queued and nothing is
    held, one more while "ok" is held or the row is sent.
  * `SingleReplicaRespectsPauses` and `SingleReplicaKeepsPromise`: with one
    replica a batch holds only queued, due rows, and every step of the queue is
    a step of `DeliveryPromise` or leaves it unchanged.
* `BoardSignupProofs`
  * `OneRegistration`: at most one row for a person and an event, for any
    connections, events and contacts. The invariant ties the plan "insert" to
    the absence of the row while the event's lock is held.
  * `OversellIsBounded`: the capacity is exceeded by at most the number of
    connections less one. The invariant `SeatInv` relates the live
    registrations of an event to the counts the open transactions hold: the
    registrations exceed any open count by at most the transactions that have
    committed since, and there is a connection less for each of them.
  * `StoredTogether` and `RepliesTellTheTruth`: signups, registrations and
    messages are counted together at every COMMIT (one to the organizers' chat,
    a letter at most, and pushes to each target or to none), and who is told
    "created" or "already" has a live registration at that moment. The invariant
    knows what an open transaction has decided to queue, and that an open
    transaction has not answered yet.
  * `SignupsRecover`: no signup fails by a statement of its own. A transaction
    is never left aborted, and who has come to the second lookup finds the
    profile whose key made the insertion fail, because profiles stay.
  * `SignupKeepsTheList`: `BoardSignup` implements `GuestList`, for any
    connections, events and contacts. The step that needs an argument is the
    COMMIT of a registration, which reads nothing again. The person has no place
    then, because the event's row has been held since the registration was
    looked for and everyone else may only give a place up (`StillOut`); there
    was a seat, because a transaction past the check has counted one
    (`SeatInv`); and the organizer's message is queued (`ToldOrganizer`). It is
    what lets `Board` and `Reminders` take a signup as one step.
  * `SignupsDoNotDeadlock`: who waits for an event's row waits for a transaction
    that has it and waits for a profile at most, and who waits for a profile
    waits for one that waits for nothing. It is the safety side of
    `EveryRequestIsAnswered`, for any number of connections; the invariant says
    which transactions can be the holder of a lock.
* `JoinRequestsProofs`
  * `NoRepeat`: two requests of one username are a whole window apart, for any
    window, connections and collisions. The invariant says what the holder of a
    key has seen: until it commits there is no request of its username within
    the window of its `NOW()`, and nobody else can add one.
  * `AnswersTellTheTruth`: who is told that a form is there has one within the
    window, with its message.
* `WebRegistrationProofs`
  * `NothingErased`, and `ShownTickets`: every ticket ever shown still opens
    the registration it was shown for and no other. The invariant adds that a
    request about to answer holds the ticket of its row; that tickets differ is
    what the unique index gives (the lemma `UniqueTickets`).
  * `EmailsAreSingle`: while the form demands the email, an email is on the list
    once. A row's email is fixed by its key, and the key of every request that
    could be admitted is the email's.
* `WebregDeskProofs`
  * `ConfigsStayRecent`: what is served, decided on or inserted on is the
    configuration of at most a lifetime and one or two requests ago, for any
    lifetime, replicas and requests. The invariant gives each request and each
    entry an instant at which its revision was still the row's: the arrival of
    the request that read it, and from then on the expiry counted backwards.
  * `OwnEditsShow`: a process holds no page older than the last edit it has
    answered, unless a read overtaken by the edit has stored it.
  * `OwnersKeep`: an event a caller was let into or has just saved is the
    caller's until the answer, because no statement changes an owner.
* `RemindersProofs`
  * `OneReminderPerMark`: letters equal marks, for any processes. The invariant
    says that who holds a row's lock before COMMIT has seen it unmarked.
  * `OnlyTheDueAreReminded`: a reminder goes to a guest who is due it or was at
    some moment of the sweep; the invariant says the same of every row on a
    list.
* `CurationProofs`
  * `CuratorsPrevail`: what a curator has taken down stays down until a curator
    puts it back. The property alone is not inductive: the owner column and the
    unpublished drafts matter, so the invariant says that every version of a
    row, committed or drafted under its lock, carries the ruling in force.
  * `SortedBatchesDoNotDeadlock`: all an automatic batch holds comes before all
    it has still to process, so two batches cannot wait for each other.
  * `RetriesWriteNothing`: a drafted row differs from the stored one until it
    is committed, because it is written under the lock it was compared under.
  * `JournalTellsTheTruth`: the entry of a card with the largest id is the
    card. What is recorded and what is written are put together apart and agree
    (`RecordsWhatIsWritten`). The invariant `EntryInv` says that a transaction
    has inserted an entry for a card only while it has its row, and with a
    larger id than the journal has for it: ids are drawn under the lock that
    orders the writers. The rest is about the drafts the journal will not
    record: an import has drafted only cards that are not there, and a
    revocation only hides the row as it still is.
* `BoardProofs`
  * `BandsAgree`: for an event that is on the board, the condition in SQL and
    the classification in Go name the same band, for every start, end, store
    and moment. The two are written differently (an interval against a
    difference of days) and nothing but this keeps them together.
  * `MergeSorts`: the merged cards are in order, each once.
  * `GapsAreNotServedAgain`, `AnswersAreInTodaysBands`, `CardsCountNewcomers`:
    from one invariant, `BoardInv`, about tables, readers and both caches: what
    a reader holds fits its question, and an entry was stored whole for a
    question of its key. The key carries the day, so an entry found under
    today's key was classified by today's midnight.
  * `PagesAreCutFromTheWhole` and `CountersCountTheList`: a page without gaps is
    its window of the whole board with the whole's total, and a counter is the
    number of events it opens, whether the answer was put together from five
    statements or found in redis. The argument has two halves.

    About the operators, for any tables: `DaysAgree` (the ends of an event's
    interval say which days it has), `BandsAgree` and through them
    `MatchingIsReference` (a store's WHERE selects the reference's rows of that
    store); `FirstPartOfSorted` (what has n cards before it among those that are
    kept may be left out without changing the first n places of the merge),
    `LeftOut` (a row its store did not give has n rows of the store before it,
    in the order of the merge) and from both `FirstsMakeThePage` (offset + limit
    rows of each store make the page); `EveryStore`, `CountersMatch` and
    `FacetsOfOneMore` (counting store by store is counting the board).

    About the handlers: neither property is inductive, because both compare a
    finished answer with tables. `HonestInv` says what an unfinished one has:
    for as long as the tables have not moved under a reader, the cards it has
    gathered are the first rows of the stores it has visited, its total is their
    number and its counters are theirs; a statement that failed is in `degraded`
    and frees the answer from the promise. An entry of the cache is as honest as
    the answer it was stored from, and `CacheKey` tells questions apart that
    have different answers on one day.

    `PagesAreHonest` holds where `Comparable` does: no rows tie in a store's
    ORDER BY and not in the merge, and for a weekend every event has its days in
    order. The first attempt at `DaysAgree` did not have the second condition
    and failed on a collected event that ends before it begins; section 6 has
    what came of it.

Only model-checked: liveness (fairness and ENABLED are beyond the prover), and
that several replicas do not keep `DeliveryPromise` (section 6). Every other
property of a passing run is stated by a theorem. What a recursive definition
computes for all inputs would need induction over data, which the prover cannot
instantiate; no module that is proved about uses RECURSIVE. The stores are
three, named by the code, and sums over them are proved store by store
(`EveryStore`), not by induction.

## 6. Where the code and its words disagree

With a run:

1. `SKIP LOCKED` does not protect against a second replica: the statement is
   not in a transaction (`events/notify.go:177-185`). Run
   `outbox_row_in_two_replicas`.
2. Seats can be oversold: the count comes from a snapshot older than the lock
   (`events/repository.go:303-316, 341`). Run `signup_oversold`; the proof
   bounds the damage.

Met while modelling and proving, without a run of their own:

* "An event is in day D if its INTERVAL covers D: date <= D <= COALESCE(date_end,
  date)" (`events/filter.go:432-433`), but the statement compares the ends of
  two intervals (`events/filter.go:456-457`). A collected event with `date_end`
  before `date` covers no day and is listed for the weekend between them
  (`WeekendListsUpsideDown`); the import parses each date alone
  (`tgevents/models.go:110-117`) and the table does not relate them. `DaysAgree`
  shows that no other event is listed out of its days.
* Channels are not independent under a backlog. A row that cannot be delivered
  is never given up; it comes back after at most thirty ticks, takes one of the
  places of `LIMIT 20` and silences its channel for the drain
  (`events/notify.go:184, 214-221, 234`). Thirty older dead rows of its own
  channel, or forty-nine older rows that keep failing, can starve a row that
  could be delivered for ever. `ChannelsAreIndependent` is about the rows that
  have fewer before them (`WithinReach`).
* The journal's index is by `created_at` (`018_curation.sql:60-64`), whose
  default is the start of the transaction. A batch that began before a curator's
  patch and took the card after it has the later entry by id and the earlier one
  by `created_at`, so "the newest entry" read by the index may not be what the
  card is. `JournalIsTrue` is about the order of ids.
* A card that was read before a signup and is stored after the signup's drop
  misses the newcomer for its five minutes (`events/handler.go:384`).
  `NewcomersAreCounted` exempts these entries and says what the drop does for
  the others.
* Rows backfilled by migration 004 have keys the application never builds
  (`pkg/db/migrations/004_webreg_forms.sql:17-18, 56`): the person they are
  about gets a second row on the next submission. The run `webreg_default_form` has such a row, and
  `OneRowPerEmail` holds because it has no email.
* A card put out with its revoked source comes back by an automatic decision,
  though the code says only a human may bring it back
  (`tgevents/sources.go:185-188`, `tgevents/automatic.go:58`); the model's
  revocation and reviewer do the same.
* A patch with `listed: true` gives up the ownership of a card that stays hidden
  (`tgevents/repository.go:211`), so the reviewer may show it.
* The page a registration is listed on is ordered by `starts_at` alone
  (`webreg/afisha.go:72`), although the comment above asks for the key of the
  merge, which goes on with the identifier: of two registrations that begin
  together, either may be the one cut off by the window. `PagesAreHonest` holds
  where the orders agree (`OrdersAgree`).
* "An empty answer only when all are silent" (`events/handler.go:175`): the list
  fails as well when the main store fails and the others have answered with no
  events (`events/handler.go:207`). `AnswerList` has the code's condition.
* `docs/webreg.md:139-140` promises an edit within fifteen seconds. An entry
  filled by a read from before the edit, or one in another process, shows the
  old one for a lifetime and a request (`ServedConfigsAreRecent`,
  `ConfigsStayRecent`).
* A PUT is of the whole document: of two editors the later one undoes the
  earlier one, and flags left out of the body open the registration again.
* Under the default form the web registration is idempotent by email and not by
  username, as `docs/webreg.md:186` still says.
* Two visitors whose insertions overlap may be given the same place in the list
  (`webreg/repository.go:195`).
* The holder of the last seat who repeats a signup is told that the event is
  sold out, because the capacity is looked at before the registration
  (`events/repository.go:341`, `402`).
* `joinPerHour` is called a ceiling of five forms an hour from one address
  (`cmd/server/main.go:28-32`). The bucket starts full and refills at five an
  hour, which lets almost ten through in the first hour, and the sweep forgets a
  bucket after ten idle minutes (`pkg/middleware/ratelimit.go:118-132`), long
  before it is full again.

## 7. What is not modelled, and the plan

Not modelled, and why:

* Rate limit: one mutex guards the map and each call is one step under it.
  What is left is arithmetic on tokens; its disagreement with its name is above.
* Migrations: each file and its record are one transaction and the record is a
  primary key; of two replicas that start together the second fails, exits and
  is started again.
* The waitlist of the web registration (one idempotent INSERT), the submit log
  and the sources' reads: one statement each, nothing else relies on them.
* Validation of forms and texts: stateless normalisation; the models take its
  verdict as a choice.
* Mail, HTML and calendar rendering: stateless formatting.
* Configuration and wiring, the frontend, scripts: no state another part
  relies on. The pool's ten connections are the `Clients` of the models.

The order of the work was `NotifyOutbox` with `DeliveryPromise`, `BoardSignup`,
`JoinRequests`, `WebRegistration`, `Curation`, `BoardQueries` and `Board`,
`WebregDesk`, `Reminders`. What the plan has left, most important first:

1. `Reminders` composed with `NotifyOutbox`, so that "due" ends with a letter
   put out rather than queued.
2. An atomic register that `WebregDesk` approximates within the bound of
   `ServedConfigsAreRecent`.
3. `RateLimit`: buckets, refill and sweep, composed with `JoinRequests`.
4. `Migrations`: two replicas starting on one database.
5. The waitlist, beside the registrations of `WebRegistration`.
