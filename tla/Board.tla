-------------------------------- MODULE Board --------------------------------
(***************************************************************************)
(* The handlers that read the board (internal/events/handler.go: List,     *)
(* Facets, GetByID) over the three stores, with the cache of pages and the *)
(* cache of cards in redis, while curators pin events, organizers publish  *)
(* and withdraw them, people sign up and midnight passes.                  *)
(*                                                                         *)
(* Every statement of a handler sees the tables of its own moment and may  *)
(* fail; a handler decides what "today" is once, when it is called.  What  *)
(* a question is about is in BoardQueries.                                 *)
(***************************************************************************)
EXTENDS BoardQueries

CONSTANTS
  Readers,     \* requests that may be in progress at once
  Rows,        \* rows the tables may hold
  Boards,      \* contents of the tables to begin with: rows and pins
  Questions,   \* filters asked
  Windows,     \* pages asked: limit and offset
  Positions,   \* positions a curator pins at
  Starts,      \* moments to begin at
  Strides,     \* minutes that may pass at once
  ListTTL,     \* minutes a page is kept (1)
  CardTTL,     \* minutes a card is kept (5)
  MaxAsks,     \* bound: requests
  MaxEvents    \* bound: changes of the tables, minutes, and statements that fail

Row == [store : Stores, id : Nat, city : Cities \union {"", "other"},
        category : FeedCategories \union DOMAIN LegacyCategories \union {"", "unknown"},
        free : BOOLEAN, start : Nat, end : Times, time : 0..LastMinute \union {NoTime},
        visibility : {"public", "unlisted", "private"}]
Ids == {r.id : r \in Rows}

ASSUME BoardAssumption ==
  /\ Rows \subseteq Row /\ IsFiniteSet(Rows)
  /\ \A q, r \in Rows : q.id = r.id => q = r
  /\ \A r \in Rows : Dates(r) => r.start % DAY = 0 /\ (r.end # NoTime => r.end % DAY = 0)
  /\ \A b \in Boards :
       /\ b.rows \subseteq Rows /\ DOMAIN b.pins \subseteq Ids
       /\ \A i \in DOMAIN b.pins : b.pins[i] \in Positions
  /\ Questions \subseteq Filter
  /\ Windows \subseteq [limit : Nat \ {0}, offset : Nat]
  /\ Positions \subseteq Nat /\ Starts \subseteq Nat /\ Strides \subseteq Nat
  /\ ListTTL \in Nat /\ CardTTL \in Nat

VARIABLES
  now, board,  \* the clock and the three tables
  pins,        \* afisha_featured: positions by event
  visitors,    \* registrations of each event
  pages,       \* redis: pages of the list
  cards,       \* redis: cards of events
  dropping,    \* signups that are committed and have not dropped the card yet
  pc, src,     \* progress of each reader, and the store it is at
  question, got, reply, \* what it asks, what it has read, what it is answered
  ghost,       \* of each reader: the tables its answer is of, and whether they moved
  spent        \* how much of the two bounds is used up

tables == <<board, pins, visitors>>
local == <<pc, src, question, got, reply, ghost>>
vars == <<now, tables, pages, cards, dropping, local, spent>>

Nothing == [cards |-> {}, featured |-> {}, total |-> 0, extra |-> 0, page |-> 0,
            degraded |-> {}, facets |-> NewFacets, visitors |-> 0]
NoReply == [ok |-> FALSE, cached |-> FALSE, cards |-> <<>>, featured |-> {}, total |-> 0,
            degraded |-> {}, facets |-> NewFacets, visitors |-> 0]
(* The tables as they are now, for a request made at a moment. *)
Tables(at) == [rows |-> board, pins |-> pins, moved |-> FALSE, at |-> at]
NoTables == [rows |-> {}, pins |-> <<>>, moved |-> FALSE, at |-> 0]
NoFilter == [city |-> DefaultCity, category |-> "", when |-> "", kind |-> "", free |-> FALSE]
NoQuestion == [op |-> "none", filter |-> NoFilter, limit |-> 1, offset |-> 0, id |-> 0, at |-> 0]

Init ==
  /\ now \in Starts
  /\ \E b \in Boards : board = b.rows /\ pins = b.pins
  /\ visitors = [i \in Ids |-> 0] /\ dropping = [i \in Ids |-> 0]
  /\ pages = {} /\ cards = {}
  /\ pc = [r \in Readers |-> "done"] /\ src = [r \in Readers |-> "main"]
  /\ question = [r \in Readers |-> NoQuestion]
  /\ got = [r \in Readers |-> Nothing]
  /\ reply = [r \in Readers |-> NoReply]
  /\ ghost = [r \in Readers |-> NoTables]
  /\ spent = [asks |-> 0, events |-> 0]

-----------------------------------------------------------------------------
(* Asking.                                                                  *)

(* Mutant: the key does not carry the day. *)
CacheKeyUndated(q) == <<q.limit, q.offset, q.filter>>

(* Every condition is in the key of a page, and the day, which "today" and  *)
(* the bands depend on.                                                     *)
CacheKey(q) ==
  <<mskToday(q.at), q.limit, q.offset, q.filter,
    IF q.filter.when = "" THEN <<>> ELSE whenRange(q.filter.when, q.at)>>

eventCacheKey(id, at) == <<mskToday(at), id>>

(* The moment of a request is fixed here.  A page of a cache is looked for; *)
(* facets are never cached.                                                 *)
Ask(r, q) ==
  /\ pc[r] = "done" /\ spent.asks < MaxAsks
  /\ spent' = [spent EXCEPT !.asks = @ + 1]
  /\ question' = [question EXCEPT ![r] = q]
  /\ pc' = [pc EXCEPT ![r] = IF q.op = "facets" THEN "facets" ELSE "lookup"]
  /\ src' = [src EXCEPT ![r] = "main"]
  /\ got' = [got EXCEPT ![r] = Nothing]
  /\ reply' = [reply EXCEPT ![r] = NoReply]
  /\ ghost' = [ghost EXCEPT ![r] = Tables(q.at)]
  /\ UNCHANGED <<now, tables, pages, cards, dropping>>

AskList(r) ==
  \E f \in Questions, w \in Windows :
    Ask(r, [op |-> "list", filter |-> f, limit |-> w.limit, offset |-> w.offset,
            id |-> 0, at |-> now])
AskFacets(r) ==
  \E f \in Questions :
    Ask(r, [op |-> "facets", filter |-> f, limit |-> 1, offset |-> 0, id |-> 0, at |-> now])
GetByID(r) ==
  \E i \in {q.id : q \in {p \in board : p.store = "main"}} :
    Ask(r, [NoQuestion EXCEPT !.op = "card", !.id = i, !.at = now])

(* A page or a card out of redis. *)
GetList(r) ==
  /\ pc[r] = "lookup" /\ question[r].op = "list"
  /\ \E e \in pages :
       /\ e.key = CacheKey(question[r])
       /\ reply' = [reply EXCEPT ![r] = [e.reply EXCEPT !.cached = TRUE]]
       /\ ghost' = [ghost EXCEPT ![r] = e.ghost]
  /\ pc' = [pc EXCEPT ![r] = "done"]
  /\ UNCHANGED <<now, tables, pages, cards, dropping, src, question, got, spent>>

GetEvent(r) ==
  /\ pc[r] = "lookup" /\ question[r].op = "card"
  /\ \E e \in cards :
       /\ e.key = eventCacheKey(question[r].id, question[r].at)
       /\ reply' = [reply EXCEPT ![r] = [e.reply EXCEPT !.cached = TRUE]]
       /\ ghost' = [ghost EXCEPT ![r] = e.ghost]
  /\ pc' = [pc EXCEPT ![r] = "done"]
  /\ UNCHANGED <<now, tables, pages, cards, dropping, src, question, got, spent>>

(* Nothing there, or redis does not answer. *)
Miss(r) ==
  /\ pc[r] = "lookup"
  /\ pc' = [pc EXCEPT ![r] = IF question[r].op = "list" THEN "pins" ELSE "card"]
  /\ ghost' = [ghost EXCEPT ![r] = Tables(question[r].at)]
  /\ UNCHANGED <<now, tables, pages, cards, dropping, src, question, got, reply, spent>>
-----------------------------------------------------------------------------
(* List: pins, rows and number of the main store, then a page and a number  *)
(* of each further store.  Every store is asked for its first offset+limit. *)

(* Mutant: every store is asked for the page alone. *)
WindowOfLimit(r) == question[r].limit

Window(r) == question[r].offset + question[r].limit

(* The next statement: "answer" after the last store. *)
NextStore(r) ==
  /\ src' = [src EXCEPT ![r] = IF @ = "main" THEN "webreg" ELSE "tg"]
  /\ pc' = [pc EXCEPT ![r] = IF src[r] = "tg" THEN "answer"
                             ELSE IF question[r].op = "list" THEN "page" ELSE "facets"]

ReadPins(r) ==
  /\ pc[r] = "pins"
  /\ \E top \in Pinned(pins, board, question[r].filter, question[r].at) :
       got' = [got EXCEPT ![r].featured = Cards(pins, top, question[r].at)]
  /\ pc' = [pc EXCEPT ![r] = "page"]
  /\ UNCHANGED <<now, tables, pages, cards, dropping, src, question, reply, ghost, spent>>

ReadPage(r) ==
  /\ pc[r] = "page"
  /\ \E top \in Upcoming(pins, board, src[r], question[r].filter, question[r].at, Window(r)) :
       got' = [got EXCEPT
         ![r].cards = @ \union Cards(pins, top, question[r].at),
         ![r].page = Cardinality(top),
         ![r].extra = IF src[r] = "main" THEN @ ELSE @ + Cardinality(top)]
  /\ pc' = [pc EXCEPT ![r] = "count"]
  /\ UNCHANGED <<now, tables, pages, cards, dropping, src, question, reply, ghost, spent>>

ReadCount(r) ==
  /\ pc[r] = "count"
  /\ got' = [got EXCEPT ![r].total =
       @ + Cardinality(Matching(board, src[r], question[r].filter, question[r].at))]
  /\ NextStore(r)
  /\ UNCHANGED <<now, tables, pages, cards, dropping, question, reply, ghost, spent>>

(* Something that disturbs the readers: each is counted. *)
Event ==
  /\ spent.events < MaxEvents
  /\ spent' = [spent EXCEPT !.events = @ + 1]

(* The main store answers with all three or with nothing. *)
FailMain(r) ==
  /\ pc[r] \in {"pins", "page", "count"} /\ src[r] = "main"
  /\ Event
  /\ got' = [got EXCEPT ![r] = [Nothing EXCEPT !.degraded = {<<"main", "page">>}]]
  /\ NextStore(r)
  /\ UNCHANGED <<now, tables, pages, cards, dropping, question, reply, ghost>>

FailPage(r) ==
  /\ pc[r] = "page" /\ src[r] # "main"
  /\ Event
  /\ got' = [got EXCEPT ![r].degraded = @ \union {<<src[r], "page">>}]
  /\ NextStore(r)
  /\ UNCHANGED <<now, tables, pages, cards, dropping, question, reply, ghost>>

(* What is seen stands for the number that could not be had. *)
FailCount(r) ==
  /\ pc[r] = "count" /\ src[r] # "main"
  /\ Event
  /\ got' = [got EXCEPT ![r].degraded = @ \union {<<src[r], "count">>},
                        ![r].total = @ + got[r].page]
  /\ NextStore(r)
  /\ UNCHANGED <<now, tables, pages, cards, dropping, question, reply, ghost>>

Listed(r) ==
  LET q == question[r] g == got[r] IN
  [NoReply EXCEPT !.ok = TRUE,
     !.cards = MergePage(g.cards, q.limit, q.offset, q.filter.kind = "running"),
     !.featured = IF IsEmpty(q.filter) THEN g.featured ELSE {},
     !.total = g.total, !.degraded = g.degraded]

(* The entries under other keys: a new entry replaces the one under its own. *)
Others(entries, key) == {e \in entries : e.key # key}

(* Mutant: a page with a gap is kept like any other. *)
WorthKeepingAny(r) == TRUE

WorthKeeping(r) == got[r].degraded = {}

AnswerList(r) ==
  LET key == CacheKey(question[r])
      silent == <<"main", "page">> \in got[r].degraded /\ got[r].extra = 0
  IN
  /\ pc[r] = "answer" /\ question[r].op = "list"
  /\ reply' = [reply EXCEPT ![r] =
       IF silent THEN [NoReply EXCEPT !.degraded = got[r].degraded] ELSE Listed(r)]
  /\ pages' = IF silent \/ ~WorthKeeping(r) THEN pages
              ELSE Others(pages, key) \union
                   {[key |-> key, at |-> now, reply |-> Listed(r), ghost |-> ghost[r]]}
  /\ pc' = [pc EXCEPT ![r] = "done"]
  /\ got' = [got EXCEPT ![r] = Nothing]
  /\ UNCHANGED <<now, tables, cards, dropping, src, question, ghost, spent>>

-----------------------------------------------------------------------------
(* Facets: the three counting statements of a store are one step.           *)

ReadFacets(r) ==
  /\ pc[r] = "facets"
  /\ got' = [got EXCEPT ![r].facets =
       Merge(@, CountFacets(board, src[r], question[r].filter, question[r].at))]
  /\ NextStore(r)
  /\ UNCHANGED <<now, tables, pages, cards, dropping, question, reply, ghost, spent>>

FailFacets(r) ==
  /\ pc[r] = "facets"
  /\ Event
  /\ got' = [got EXCEPT ![r].degraded = @ \union {<<src[r], "facets">>}]
  /\ NextStore(r)
  /\ UNCHANGED <<now, tables, pages, cards, dropping, question, reply, ghost>>

AnswerFacets(r) ==
  /\ pc[r] = "answer" /\ question[r].op = "facets"
  /\ reply' = [reply EXCEPT ![r] =
       [NoReply EXCEPT !.ok = Cardinality(got[r].degraded) < Cardinality(Stores),
                       !.degraded = got[r].degraded, !.facets = got[r].facets]]
  /\ pc' = [pc EXCEPT ![r] = "done"]
  /\ got' = [got EXCEPT ![r] = Nothing]
  /\ UNCHANGED <<now, tables, pages, cards, dropping, src, question, ghost, spent>>

-----------------------------------------------------------------------------
(* GetByID: the card of a row of the main store, by its link too.           *)

Linked(i) == {r \in board : r.store = "main" /\ r.id = i /\ r.visibility \in {"public", "unlisted"}}

ReadCard(r) ==
  /\ pc[r] = "card"
  /\ \E row \in Linked(question[r].id) :
       got' = [got EXCEPT ![r].cards = {Card(pins, row, question[r].at)},
                          ![r].visitors = visitors[row.id]]
  /\ ghost' = [ghost EXCEPT ![r] = Tables(question[r].at)]
  /\ pc' = [pc EXCEPT ![r] = "answer"]
  /\ UNCHANGED <<now, tables, pages, cards, dropping, src, question, reply, spent>>

(* Not found, or the statement fails. *)
NoCard(r) ==
  /\ pc[r] = "card"
  /\ \/ Linked(question[r].id) = {} /\ UNCHANGED spent
     \/ Event
  /\ pc' = [pc EXCEPT ![r] = "done"]
  /\ UNCHANGED <<now, tables, pages, cards, dropping, src, question, got, reply, ghost>>

AnswerCard(r) ==
  LET key == eventCacheKey(question[r].id, question[r].at)
      answer == [NoReply EXCEPT !.ok = TRUE, !.cards = <<CHOOSE c \in got[r].cards : TRUE>>,
                                !.visitors = got[r].visitors]
  IN
  /\ pc[r] = "answer" /\ question[r].op = "card"
  /\ reply' = [reply EXCEPT ![r] = answer]
  /\ cards' = Others(cards, key) \union
              {[key |-> key, at |-> now, reply |-> answer, ghost |-> ghost[r]]}
  /\ pc' = [pc EXCEPT ![r] = "done"]
  /\ got' = [got EXCEPT ![r] = Nothing]
  /\ UNCHANGED <<now, tables, pages, dropping, src, question, ghost, spent>>

-----------------------------------------------------------------------------
(* A signup commits, then drops the card of its event (RegisterPublic); a   *)
(* card read in between is stale, and one stored later stays.               *)

Moved == [r \in Readers |-> [ghost[r] EXCEPT !.moved = @ \/ pc[r] # "done"]]

Edit ==
  /\ Event
  /\ ghost' = Moved
  /\ UNCHANGED <<now, pages, cards, pc, src, question, got, reply>>

RegisterPublic(i) ==
  /\ i \in {r.id : r \in {q \in board : q.store = "main"}}
  /\ Edit
  /\ visitors' = [visitors EXCEPT ![i] = @ + 1]
  /\ dropping' = [dropping EXCEPT ![i] = @ + 1]
  /\ UNCHANGED <<board, pins>>

(* Mutant: the day is left out of the key that is dropped. *)
droppedKeyUndated(i) == <<0, i>>

droppedKey(i) == eventCacheKey(i, now)

(* Redis may refuse, and nobody looks whether it did. *)
InvalidateEvent(i) ==
  LET key == droppedKey(i) IN
  /\ dropping[i] > 0
  /\ dropping' = [dropping EXCEPT ![i] = @ - 1]
  /\ \/ cards' = Others(cards, key)
     \/ cards' = {IF e.key = key THEN [e EXCEPT !.ghost.moved = TRUE] ELSE e : e \in cards}
  /\ UNCHANGED <<now, tables, pages, local, spent>>

-----------------------------------------------------------------------------
(* The tables change: a curator pins and unpins (internal/admin), an        *)
(* organizer publishes or withdraws an event of any store.                  *)

Feature(i, pos) ==
  /\ i \in {r.id : r \in {q \in board : q.store = "main"}}
  /\ Edit
  /\ pins' = [j \in DOMAIN pins \union {i} |-> IF j = i THEN pos ELSE pins[j]]
  /\ UNCHANGED <<board, visitors, dropping>>

Unfeature(i) ==
  /\ i \in DOMAIN pins
  /\ Edit
  /\ pins' = [j \in DOMAIN pins \ {i} |-> pins[j]]
  /\ UNCHANGED <<board, visitors, dropping>>

Publish(row) ==
  /\ row \in Rows \ board
  /\ Edit
  /\ board' = board \union {row}
  /\ UNCHANGED <<pins, visitors, dropping>>

Withdraw(row) ==
  /\ row \in board
  /\ Edit
  /\ board' = board \ {row}
  /\ UNCHANGED <<pins, visitors, dropping>>

(* Minutes pass; redis lets entries go when their time is up.            *)
Tick ==
  /\ Event
  /\ \E m \in Strides : now' = now + m
  /\ pages' = {e \in pages : now' - e.at <= ListTTL}
  /\ cards' = {e \in cards : now' - e.at <= CardTTL}
  /\ UNCHANGED <<tables, dropping, local>>

Handle(r) ==
  \/ AskList(r) \/ AskFacets(r) \/ GetByID(r)
  \/ GetList(r) \/ GetEvent(r) \/ Miss(r)
  \/ ReadPins(r) \/ ReadPage(r) \/ ReadCount(r)
  \/ FailMain(r) \/ FailPage(r) \/ FailCount(r) \/ AnswerList(r)
  \/ ReadFacets(r) \/ FailFacets(r) \/ AnswerFacets(r)
  \/ ReadCard(r) \/ NoCard(r) \/ AnswerCard(r)

Next ==
  \/ \E r \in Readers : Handle(r)
  \/ \E i \in Ids : RegisterPublic(i) \/ InvalidateEvent(i) \/ Unfeature(i)
  \/ \E i \in Ids, pos \in Positions : Feature(i, pos)
  \/ \E row \in Rows : Publish(row) \/ Withdraw(row)
  \/ Tick

Spec == Init /\ [][Next]_vars

-----------------------------------------------------------------------------
(* What the answers should be, without the conditions of the SQL.           *)

(* The days an event takes, and the days a code asks for. *)
Day(t) == t \div DAY
EventDays(r) == Day(r.start)..Day(End(r))
AskedDays(code, at) ==
  LET saturday == CHOOSE d \in Day(at) - 1..Day(at) + 5 : d % 7 = 5 IN
  CASE code = "today"    -> {Day(at)}
    [] code = "tomorrow" -> {Day(at) + 1}
    [] code = "weekend"  -> {saturday, saturday + 1}

Answers(r, f, at) ==
  /\ Base(r, at)
  /\ (IF r.store = "webreg" \/ r.city = "" THEN DefaultCity ELSE r.city) = f.city
  /\ f.category # "" => r.store # "webreg" /\ CategoryExpr(r) = f.category
  /\ f.free => r.store = "webreg" \/ r.free
  /\ f.when # "" => EventDays(r) \intersect AskedDays(f.when, at) # {}
  /\ f.kind # "" => Classify(r, at) = f.kind

Reference(tabs, f, at) == {r \in tabs.rows : Answers(r, f, at)}

(* Every store sorts by the key of the merge: the merge says so ("по ТОМУ    *)
(* ЖЕ ключу").                                                               *)
OrdersAgree(tabs, f, at) ==
  LET byEnd == f.kind = "running" IN
  \A a, b \in Reference(tabs, f, at) :
    a.store = b.store /\ Before(Card(tabs.pins, a, at), Card(tabs.pins, b, at), byEnd) =>
      Less(OrderBy(tabs.pins, a, byEnd, at), OrderBy(tabs.pins, b, byEnd, at))

(* An event's days are in order.  Nothing sees to it for a collected event:  *)
(* an import looks at each date of a card alone (tgevents/models.go:110-117),*)
(* and a last day before the first is of no day, but of a weekend between.   *)
Upright(r) == Day(r.start) <= Day(End(r))

(* The tables a page can be compared on: orders that agree, days in order.   *)
Comparable(tabs, f) ==
  /\ OrdersAgree(tabs, f, tabs.at)
  /\ f.when = "weekend" => \A r \in tabs.rows : Upright(r)

Whole(r) == pc[r] = "done" /\ reply[r].ok /\ reply[r].degraded = {} /\ ~ghost[r].moved

Fits(r) ==
  LET q == question[r] t == ghost[r]
      all == Reference(t, q.filter, t.at)
  IN
  /\ reply[r].cards = MergePage(Cards(t.pins, all, t.at), q.limit, q.offset,
                                q.filter.kind = "running")
  /\ reply[r].total = Cardinality(all)

-----------------------------------------------------------------------------
(* The variables keep their ranges; a page is no longer than was asked.     *)
TypeOK ==
  /\ now \in Nat /\ board \subseteq Rows
  /\ DOMAIN pins \subseteq Ids /\ \A i \in DOMAIN pins : pins[i] \in Positions
  /\ visitors \in [Ids -> Nat] /\ dropping \in [Ids -> Nat]
  /\ pc \in [Readers -> {"done", "lookup", "pins", "page", "count", "facets", "card", "answer"}]
  /\ src \in [Readers -> Stores]
  /\ \A r \in Readers :
       /\ question[r].op \in {"none", "list", "facets", "card"}
       /\ question[r].filter \in Filter /\ question[r].at \in Nat
       /\ Len(reply[r].cards) <= question[r].limit

(* A page that names no store as degraded is exactly its part of the whole   *)
(* board in the order of the merge, and its total is the whole: no event is  *)
(* missed or shown twice by someone who goes through the pages, and a page   *)
(* from the cache is the page that was asked for (merge.go:31-35,            *)
(* filter.go:213-219).                                                       *)
PagesAreHonest ==
  \A r \in Readers :
    Whole(r) /\ question[r].op = "list" /\ Comparable(ghost[r], question[r].filter) => Fits(r)

(* A band that is asked for has only events that belong to it on the day of  *)
(* the request, from a cache filled before midnight too (filter.go:220-227), *)
(* and a card says the band it has that day (cache.go:51-56).                *)
BandsAreTodays ==
  \A r \in Readers :
    pc[r] = "done" /\ reply[r].ok /\ question[r].op \in {"list", "card"} =>
      \A i \in DOMAIN reply[r].cards :
        LET c == reply[r].cards[i] IN
        /\ \A row \in Rows : row.id = c.id => c.kind = Classify(row, question[r].at)
        /\ question[r].filter.kind # "" => c.kind = question[r].filter.kind

(* A page with a gap is not handed out again (handler.go:238-242). *)
HiccupsAreNotFrozen ==
  \A r \in Readers : pc[r] = "done" /\ reply[r].cached => reply[r].degraded = {}

(* The number at a section, a day, a band, a city or "free" is the number of *)
(* events that opening it lists (handler.go:252-256).                        *)
ListTotal(tabs, f, at) == Cardinality(UNION {Matching(tabs.rows, s, f, at) : s \in Stores})

FacetsKeepTheirWord ==
  \A r \in Readers :
    Whole(r) /\ question[r].op = "facets" =>
      LET f == question[r].filter
          n == reply[r].facets
          Opens(g) == ListTotal(ghost[r], g, question[r].at)
      IN
      /\ n.total = Opens(f)
      /\ n.free = Opens([f EXCEPT !.free = TRUE])
      /\ \A code \in WhenCodes : n.when[code] = Opens([f EXCEPT !.when = code])
      /\ \A code \in KindCodes : n.kind[code] = Opens([f EXCEPT !.kind = code])
      /\ \A code \in FeedCategories : n.categories[code] = Opens([f EXCEPT !.category = code])
      /\ \A slug \in Cities : n.cities[slug] = Opens([f EXCEPT !.city = slug])

(* A signup is in the number of visitors on today's card as soon as it is    *)
(* answered (cache.go:58-61), unless the card was read before it and         *)
(* stored after it, or redis refused.                                        *)
NewcomersAreCounted ==
  \A e \in cards, i \in Ids :
    e.key = eventCacheKey(i, now) /\ dropping[i] = 0 /\ ~e.ghost.moved =>
      e.reply.visitors = visitors[i]
=============================================================================
