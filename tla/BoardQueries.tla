---------------------------- MODULE BoardQueries ----------------------------
(***************************************************************************)
(* What the public board answers to a question, as a function of the       *)
(* tables: the conditions and orders the three stores put into SQL         *)
(* (internal/events/filter.go and the Afisha queries of each store), the   *)
(* cards made of rows, the bands they are classified into, the merge of    *)
(* the stores' pages and the facet counters.                               *)
(*                                                                         *)
(* Time is counted in minutes of Moscow time from a midnight before a      *)
(* Monday.  A row keeps the columns the filter looks at; a row of the      *)
(* collected events ("tg") has dates, midnights here, and a time of day.   *)
(* Identifiers of the three stores have different forms and one order.     *)
(***************************************************************************)
EXTENDS Integers, Sequences, FiniteSets

CONSTANTS
  FeedCategories,   \* codes of the feed's dictionary
  LegacyCategories, \* older values of the organizer's cabinet and their codes
  Cities,           \* slugs of the board's cities
  DefaultCity,
  OpenEndedFrom,    \* an end at or after this date means there is none
  OpenEndedKey,     \* later than any event
  MaxPins           \* pinned events shown at most (10 in the code)

DAY == 1440
MultidayMinSpan == 1200
LastMinute == 1439
NoTime == -1
Times == Nat \union {NoTime}

Stores == {"main", "webreg", "tg"}
WhenCodes == {"today", "tomorrow", "weekend"}
KindCodes == {"timed", "running"}

ASSUME QueriesAssumption ==
  /\ "" \notin FeedCategories /\ "" \notin Cities
  /\ DefaultCity \in Cities
  /\ \A c \in DOMAIN LegacyCategories : c # "" /\ LegacyCategories[c] \in FeedCategories
  /\ OpenEndedFrom \in Nat /\ OpenEndedKey \in Nat
  /\ MaxPins \in Nat \ {0}

(* A question of the board.  The empty string is a condition not given; a   *)
(* city is always there (ParseFilter puts the default one).                 *)
Filter == [city : Cities, category : FeedCategories \union {""},
           when : WhenCodes \union {""}, kind : KindCodes \union {""}, free : BOOLEAN]

(* A section is chosen; the city and the band are views of the same board.  *)
IsEmpty(f) == f.category = "" /\ f.when = "" /\ ~f.free

-----------------------------------------------------------------------------
(* Days.                                                                    *)

mskToday(t) == t - (t % DAY)
Weekday(t) == (t \div DAY) % 7       \* 0 is Monday

(* The nearest Saturday; on Sunday the one before. *)
Saturday(now) == mskToday(now) + (5 - Weekday(now)) * DAY

whenRange(code, now) ==
  CASE code = "today"    -> [from |-> mskToday(now), to |-> mskToday(now) + DAY]
    [] code = "tomorrow" -> [from |-> mskToday(now) + DAY, to |-> mskToday(now) + 2 * DAY]
    [] code = "weekend"  -> [from |-> Saturday(now), to |-> Saturday(now) + 2 * DAY]

-----------------------------------------------------------------------------
(* Conditions of a store's WHERE.                                           *)

HasCity(r) == r.store # "webreg"
HasCategory(r) == r.store # "webreg"
Dates(r) == r.store = "tg"
End(r) == IF r.end = NoTime THEN r.start ELSE r.end

NotEnded(r, at) ==
  \/ r.end # NoTime /\ r.end > at
  \/ r.end = NoTime /\ r.start >= mskToday(at)

(* Shown on the board and not over. *)
Base(r, at) ==
  /\ r.visibility = "public"
  /\ IF Dates(r) THEN End(r) >= mskToday(at) ELSE NotEnded(r, at)

(* A card without a city belongs to the default one. *)
CityExpr(r) == IF HasCity(r) /\ r.city # "" THEN r.city ELSE DefaultCity
CityCond(f, r) == CityExpr(r) = f.city

CategoryExpr(r) ==
  IF r.category \in DOMAIN LegacyCategories THEN LegacyCategories[r.category] ELSE r.category
CategoryCond(f, r) == f.category = "" \/ (HasCategory(r) /\ CategoryExpr(r) = f.category)

FreeExpr(r) == r.store = "webreg" \/ r.free
FreeCond(f, r) == f.free => FreeExpr(r)

(* The event's interval meets the days of the code. *)
WhenCond(r, code, now) ==
  code = "" \/ LET w == whenRange(code, now) IN
    /\ IF Dates(r) THEN r.start <= w.to - DAY ELSE r.start < w.to
    /\ End(r) >= w.from

(* Begun before today and not ended before it. *)
Running(r, now) ==
  /\ r.start < mskToday(now) /\ End(r) >= mskToday(now)
  /\ Dates(r) \/ End(r) - r.start >= MultidayMinSpan

(* The two bands are each other's negation. *)
KindCond(r, kind, now) == kind = "" \/ (Running(r, now) <=> kind = "running")

(* Mutant: the band is left out of the counter's condition. *)
WhereAnyKind(f, r, now) ==
  /\ CityCond(f, r) /\ CategoryCond(f, r)
  /\ WhenCond(r, f.when, now) /\ FreeCond(f, r)

Where(f, r, now) ==
  /\ CityCond(f, r) /\ CategoryCond(f, r)
  /\ WhenCond(r, f.when, now) /\ FreeCond(f, r)
  /\ KindCond(r, f.kind, now)

Matching(rows, s, f, at) == {r \in rows : r.store = s /\ Base(r, at) /\ Where(f, r, at)}

-----------------------------------------------------------------------------
(* Cards.                                                                   *)

(* A collected programme that is under way is shown as today's. *)
Shifted(r, now) ==
  Dates(r) /\ r.end # NoTime /\ r.start < mskToday(now) /\ r.end >= mskToday(now)
EffDate(r, now) == IF Shifted(r, now) THEN mskToday(now) ELSE r.start
EffTime(r, now) == IF Shifted(r, now) \/ r.time = NoTime THEN 0 ELSE r.time

Several(r) == r.end # NoTime /\ r.end # r.start
OpenEnded(r) == Dates(r) /\ Several(r) /\ r.end >= OpenEndedFrom

CardStart(r, now) == IF Dates(r) THEN EffDate(r, now) + EffTime(r, now) ELSE r.start
CardEnd(r) ==
  IF ~Dates(r) THEN r.end
  ELSE IF Several(r) /\ ~OpenEnded(r) THEN r.end + LastMinute ELSE NoTime

ActualStart(r, now) == IF Shifted(r, now) THEN r.start ELSE CardStart(r, now)

(* The end that Classify reckons with: far away when there is none. *)
ClassifiedEnd(r, now) ==
  IF OpenEnded(r) THEN mskToday(now) + 36500 * DAY
  ELSE IF CardEnd(r) # NoTime THEN CardEnd(r) ELSE ActualStart(r, now)

Multiday(r, now) ==
  \/ OpenEnded(r)
  \/ /\ mskToday(ClassifiedEnd(r, now)) > mskToday(ActualStart(r, now))
     /\ ClassifiedEnd(r, now) - ActualStart(r, now) >= MultidayMinSpan

Classify(r, now) ==
  IF /\ Multiday(r, now)
     /\ ActualStart(r, now) < mskToday(now) /\ ClassifiedEnd(r, now) >= mskToday(now)
  THEN "running" ELSE "timed"

IsFeatured(pins, r) == r.store = "main" /\ r.id \in DOMAIN pins

(* The card of a row as it is sent at a moment. *)
Card(pins, r, now) ==
  [id |-> r.id, start |-> CardStart(r, now), end |-> CardEnd(r), openEnded |-> OpenEnded(r),
   kind |-> Classify(r, now), featured |-> IsFeatured(pins, r),
   position |-> IF IsFeatured(pins, r) THEN pins[r.id] ELSE 0]

Cards(pins, rows, now) == {Card(pins, r, now) : r \in rows}

-----------------------------------------------------------------------------
(* Orders.                                                                  *)

(* One key comes before another: the first difference decides. *)
Less(x, y) ==
  \E i \in DOMAIN x :
    i \in DOMAIN y /\ x[i] < y[i] /\ \A j \in 1..i - 1 : x[j] = y[j]

MergeKey(c, byEnd) ==
  IF ~byEnd THEN c.start
  ELSE IF c.openEnded THEN OpenEndedKey
  ELSE IF c.end # NoTime THEN c.end ELSE c.start

(* The order of the merge: pins, the key, the identifier. *)
CardKey(c, byEnd) ==
  <<IF c.featured THEN 0 ELSE 1, c.position, MergeKey(c, byEnd), c.id>>
Before(c, d, byEnd) == Less(CardKey(c, byEnd), CardKey(d, byEnd))

(* The ORDER BY of each store. *)
boardOrder(pins, r, byEnd) ==
  <<IF IsFeatured(pins, r) THEN 0 ELSE 1, IF IsFeatured(pins, r) THEN pins[r.id] ELSE 0,
    IF byEnd THEN End(r) ELSE r.start, r.id>>
afishaOrder(r, byEnd) == IF byEnd THEN <<End(r), r.id>> ELSE <<r.start>>
orderCard(r, byEnd, now) ==
  IF byEnd THEN <<End(r), r.id>> ELSE <<EffDate(r, now), EffTime(r, now), r.id>>

OrderBy(pins, r, byEnd, now) ==
  CASE r.store = "main"   -> boardOrder(pins, r, byEnd)
    [] r.store = "webreg" -> afishaOrder(r, byEnd)
    [] r.store = "tg"     -> orderCard(r, byEnd, now)

(* ORDER BY ... LIMIT n: any first n rows under the order. *)
Firsts(rows, n, Lt(_, _)) ==
  {top \in SUBSET rows :
     /\ Cardinality(top) = IF Cardinality(rows) < n THEN Cardinality(rows) ELSE n
     /\ \A r \in top, q \in rows \ top : ~Lt(q, r)}

Upcoming(pins, rows, s, f, at, n) ==
  LET byEnd == f.kind = "running" IN
  Firsts(Matching(rows, s, f, at), n,
         LAMBDA q, r : Less(OrderBy(pins, q, byEnd, at), OrderBy(pins, r, byEnd, at)))

(* Pins are of the city's board, whatever the band, and not of a section. *)
Pinned(pins, rows, f, at) ==
  IF ~IsEmpty(f) THEN {{}}
  ELSE Firsts({r \in Matching(rows, "main", [f EXCEPT !.kind = ""], at) : IsFeatured(pins, r)},
              MaxPins,
              LAMBDA q, r : Less(<<pins[q.id], q.start>>, <<pins[r.id], r.start>>))

-----------------------------------------------------------------------------
(* The merge: cards in order, and the window cut out of them.               *)

Sorted(cards, byEnd) ==
  [i \in 1..Cardinality(cards) |->
     CHOOSE c \in cards : Cardinality({d \in cards : Before(d, c, byEnd)}) = i - 1]

(* Mutant: the page is not cut off at its end. *)
MergePageToEnd(cards, limit, offset, byEnd) ==
  SubSeq(Sorted(cards, byEnd), offset + 1, Cardinality(cards))

MergePage(cards, limit, offset, byEnd) ==
  LET merged == Sorted(cards, byEnd)
      size == Cardinality(cards)
  IN  SubSeq(merged, offset + 1, IF offset + limit < size THEN offset + limit ELSE size)

-----------------------------------------------------------------------------
(* Facets: each dimension is counted under the other conditions.            *)

Count(rows) == Cardinality(rows)

CountFacets(rows, s, f, at) ==
  LET base == {r \in rows : r.store = s /\ Base(r, at)}
      city == {r \in base : CityCond(f, r)}
      Cat(r) == CategoryCond(f, r)
      When(r) == WhenCond(r, f.when, at)
      Free(r) == FreeCond(f, r)
      Kind(r) == KindCond(r, f.kind, at)
  IN
  [when |-> [code \in WhenCodes |->
      Count({r \in city : Cat(r) /\ Free(r) /\ Kind(r) /\ WhenCond(r, code, at)})],
   kind |-> [code \in KindCodes |->
      Count({r \in city : Cat(r) /\ Free(r) /\ When(r) /\ KindCond(r, code, at)})],
   free |-> Count({r \in city : Cat(r) /\ When(r) /\ Kind(r) /\ FreeExpr(r)}),
   total |-> Count({r \in city : Cat(r) /\ When(r) /\ Kind(r) /\ Free(r)}),
   categories |-> [code \in FeedCategories |->
      Count({r \in city : HasCategory(r) /\ When(r) /\ Free(r) /\ Kind(r)
                          /\ CategoryExpr(r) = code})],
   cities |-> [slug \in Cities |->
      Count({r \in base : Cat(r) /\ When(r) /\ Free(r) /\ Kind(r) /\ CityExpr(r) = slug})]]

NewFacets ==
  [when |-> [code \in WhenCodes |-> 0], kind |-> [code \in KindCodes |-> 0],
   free |-> 0, total |-> 0,
   categories |-> [code \in FeedCategories |-> 0], cities |-> [slug \in Cities |-> 0]]

Merge(a, b) ==
  [when |-> [code \in WhenCodes |-> a.when[code] + b.when[code]],
   kind |-> [code \in KindCodes |-> a.kind[code] + b.kind[code]],
   free |-> a.free + b.free, total |-> a.total + b.total,
   categories |-> [code \in FeedCategories |-> a.categories[code] + b.categories[code]],
   cities |-> [slug \in Cities |-> a.cities[slug] + b.cities[slug]]]
=============================================================================
