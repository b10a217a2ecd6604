--------------------------- MODULE WebregDeskProofs ---------------------------
(* Theorems about WebregDesk, for any number of processes, requests, slugs  *)
(* and organizers, and any lifetime of an entry.                            *)
EXTENDS WebregDesk, SequenceTheorems, TLAPS

-----------------------------------------------------------------------------
(* What a step does to the request that takes it.                           *)

(* A request and its continuation differ in stage, revision and flag only. *)
Continues(q, c) ==
  /\ q \in Requests
  /\ q.op = req[c].op /\ q.at = req[c].at /\ q.slug = req[c].slug /\ q.scope = req[c].scope
  /\ q.key = req[c].key /\ q.flag = req[c].flag /\ q.since = req[c].since
  /\ q.late = req[c].late

LEMMA InProgress ==
  ASSUME TypeOK, NEW c \in Clients, ~At(c, "idle")
  PROVE  req[c] \in Requests
BY DEF TypeOK, At, Idle

LEMMA GoIs ==
  ASSUME TypeOK, NEW c \in Clients, ~At(c, "idle"), NEW st \in Stages, Go(c, st)
  PROVE  \E q : /\ req' = [req EXCEPT ![c] = q] /\ Continues(q, c)
                /\ q.stage = st /\ q.rev = req[c].rev
<1>1. req[c] \in Requests
  BY InProgress
<1>2. DEFINE q == [req[c] EXCEPT !.stage = st]
<1>3. Continues(q, c) /\ q.stage = st /\ q.rev = req[c].rev
  BY <1>1 DEF Requests, Continues
<1>4. req' = [req EXCEPT ![c] = q]
  BY DEF Go
<1> QED
  BY <1>3, <1>4

LEMMA WrittenIs ==
  ASSUME TypeOK, NEW c \in Clients, ~At(c, "idle"), NEW rev \in Nat, Written(c, rev)
  PROVE  \E q : /\ req' = [req EXCEPT ![c] = q]
                /\ \/ q = Idle
                   \/ Continues(q, c) /\ q.stage = "drop" /\ q.rev = rev
<1>1. CASE Answer(c)
  BY <1>1 DEF Answer
<1>2. CASE req' = [req EXCEPT ![c].stage = "drop", ![c].rev = rev]
  <2>1. req[c] \in Requests
    BY InProgress
  <2>2. DEFINE q == [req[c] EXCEPT !.stage = "drop", !.rev = rev]
  <2>3. Continues(q, c) /\ q.stage = "drop" /\ q.rev = rev
    BY <2>1 DEF Requests, Continues, Stages
  <2>4. req' = [req EXCEPT ![c] = q]
    BY <1>2 DEF TypeOK
  <2> QED
    BY <2>3, <2>4
<1> QED
  BY <1>1, <1>2 DEF Written

(* A new request. *)
LEMMA AskIs ==
  ASSUME TypeOK, NEW c \in Clients, AskSomething(c)
  PROVE  /\ UNCHANGED <<now, events, ended, cache, saved>> /\ asks' \in Nat
         /\ \E q \in Requests :
              /\ req' = [req EXCEPT ![c] = q]
              /\ q.since = now /\ q.rev = 0 /\ q.late = FALSE /\ q.stage = FirstStage[q.op]
              /\ q.op \in {"admin", "rotate", "upsert"} \/ q.scope = Admin
<1>1. PICK op \in Ops, x \in Replicas, s \in Slugs, scope \in Scopes,
           key \in Keys \union {Blank}, flag \in BOOLEAN :
        /\ Ask(c, op, x, s, scope, key, flag)
        /\ op \in {"admin", "rotate", "upsert"} \/ scope = Admin
  BY DEF AskSomething, Ops, Scopes
<1>2. DEFINE q == [op |-> op, at |-> x, slug |-> s, scope |-> scope, key |-> key, flag |-> flag,
                   since |-> now, stage |-> FirstStage[op], rev |-> 0, open |-> FALSE,
                   late |-> FALSE]
<1>3. FirstStage[op] \in Stages
  BY DEF FirstStage, Ops, Stages
<1>4. q \in Requests
  BY <1>3 DEF Requests, TypeOK
<1>5. req' = [req EXCEPT ![c] = q] /\ UNCHANGED <<now, events, ended, cache, saved>>
  BY <1>1 DEF Ask
<1>6. asks' \in Nat
  BY <1>1 DEF Ask, TypeOK
<1>7. /\ q.since = now /\ q.rev = 0 /\ q.late = FALSE /\ q.stage = FirstStage[q.op]
      /\ q.op \in {"admin", "rotate", "upsert"} \/ q.scope = Admin
  BY <1>1
<1> HIDE DEF q
<1> QED
  BY <1>4, <1>5, <1>6, <1>7

-----------------------------------------------------------------------------
(* The history of a row grows by the instant of each revision.              *)

Grown ==
  \A s \in Slugs : \/ ended'[s] = ended[s]
                   \/ ended'[s] = Append(ended[s], now) /\ now' = now

LEMMA RevisedGrows ==
  ASSUME TypeOK, NEW s \in Slugs, Revised(s), now' = now
  PROVE  /\ Grown /\ ended' \in [Slugs -> Seq(Nat)]
         /\ Len(ended'[s]) = Rev(s) + 1 /\ \A t \in Slugs : Len(ended[t]) <= Len(ended'[t])
<1>1. /\ ended \in [Slugs -> Seq(Nat)] /\ now \in Nat
      /\ ended' = [ended EXCEPT ![s] = Append(ended[s], now)]
  BY DEF TypeOK, Revised
<1>2. Append(ended[s], now) \in Seq(Nat) /\ Len(Append(ended[s], now)) = Len(ended[s]) + 1
  BY <1>1
<1>3. \A t \in Slugs : ended'[t] = IF t = s THEN Append(ended[s], now) ELSE ended[t]
  BY <1>1
<1>4. \A t \in Slugs : Len(ended[t]) \in Nat
  BY <1>1
<1> QED
  BY <1>1, <1>2, <1>3, <1>4 DEF Grown, Rev

LEMMA RevIsNat ==
  ASSUME TypeOK, NEW s \in Slugs
  PROVE  Rev(s) \in Nat
BY DEF TypeOK, Rev

(* One request changes, and no revision is ahead of its row. *)
LEMMA OneMoves ==
  ASSUME TypeOK, NEW c \in Clients, NEW q \in Requests \union {Idle},
         req' = [req EXCEPT ![c] = q], ended' \in [Slugs -> Seq(Nat)],
         \A s \in Slugs : Len(ended[s]) <= Len(ended'[s]),
         q = Idle \/ q.rev <= Len(ended'[q.slug])
  PROVE  /\ req' \in [Clients -> Requests \union {Idle}]
         /\ \A d \in Clients : ~At(d, "idle")' => req'[d].rev <= Len(ended'[req'[d].slug])
<1>1. req \in [Clients -> Requests \union {Idle}] /\ ended \in [Slugs -> Seq(Nat)]
  BY DEF TypeOK
<1>2. req' \in [Clients -> Requests \union {Idle}]
  BY <1>1
<1>3. ASSUME NEW d \in Clients, ~At(d, "idle")'
      PROVE  req'[d].rev <= Len(ended'[req'[d].slug])
  <2>0. req'[d].stage # "idle"
    BY <1>3 DEF At
  <2>1. CASE d = c
    <3>1. req'[d] = q
      BY <1>1, <2>1
    <3>2. q # Idle
      BY <2>0, <3>1 DEF Idle
    <3> QED
      BY <3>1, <3>2
  <2>2. CASE d # c
    <3>1. req'[d] = req[d] /\ ~At(d, "idle")
      BY <1>1, <2>0, <2>2 DEF At
    <3>2. req[d] \in Requests /\ req[d].rev <= Len(ended[req[d].slug])
      BY <3>1, InProgress DEF TypeOK, Rev
    <3>3. req[d].rev \in Nat /\ req[d].slug \in Slugs
      BY <3>2 DEF Requests
    <3>4. Len(ended[req[d].slug]) \in Nat /\ Len(ended'[req[d].slug]) \in Nat
      BY <1>1, <3>3
    <3>5. Len(ended[req[d].slug]) <= Len(ended'[req[d].slug])
      BY <3>3
    <3> QED
      BY <3>1, <3>2, <3>3, <3>4, <3>5
  <2> QED
    BY <2>1, <2>2
<1> QED
  BY <1>2, <1>3

-----------------------------------------------------------------------------
(* A step of a request is one of these: it fills or drops an entry, writes  *)
(* the row, or changes nothing but itself.                                  *)

(* What is left of the cache when an entry is stored is what was in it. *)
LEMMA KeptIs ==
  ASSUME TypeOK, NEW x \in Replicas
  PROVE  Kept(x) \in [Slugs -> Entries]
         /\ \A s \in Slugs : Kept(x)[s] = cache[x][s] \/ Kept(x)[s] = NoEntry
<1>1. NoEntry \in Entries
  BY DEF NoEntry, Entries
<1> QED
  BY <1>1 DEF Kept, TypeOK

(* The part of TypeOK about everything but the requests. *)
Ranges ==
  /\ now \in Nat /\ asks \in Nat
  /\ events \in [Slugs -> Rows]
  /\ ended \in [Slugs -> Seq(Nat)]
  /\ cache \in [Replicas -> [Slugs -> Entries]]
  /\ saved \in [Replicas -> [Slugs -> Nat]]
  /\ \A x \in Replicas, s \in Slugs : cache[x][s].rev <= Len(ended[s]) /\ saved[x][s] <= Len(ended[s])

LEMMA TypeParts ==
  TypeOK <=> /\ Ranges
             /\ req \in [Clients -> Requests \union {Idle}]
             /\ \A c \in Clients : ~At(c, "idle") => req[c].rev <= Len(ended[req[c].slug])
BY DEF TypeOK, Ranges, Rev

(* Longer histories keep what the cache holds behind them. *)
LEMMA RangesGrow ==
  ASSUME TypeOK, UNCHANGED <<cache, saved, now, asks>>, events' \in [Slugs -> Rows],
         ended' \in [Slugs -> Seq(Nat)], \A s \in Slugs : Len(ended[s]) <= Len(ended'[s])
  PROVE  Ranges'
<1>1. ASSUME NEW x \in Replicas, NEW s \in Slugs
      PROVE  cache'[x][s].rev <= Len(ended'[s]) /\ saved'[x][s] <= Len(ended'[s])
  <2>1. cache[x][s].rev <= Len(ended[s]) /\ saved[x][s] <= Len(ended[s])
    BY DEF TypeOK, Rev
  <2>2. cache[x][s].rev \in Nat /\ saved[x][s] \in Nat
    BY DEF TypeOK, Entries
  <2>3. Len(ended[s]) \in Nat /\ Len(ended'[s]) \in Nat
    BY DEF TypeOK
  <2> QED
    BY <2>1, <2>2, <2>3
<1> QED
  BY <1>1 DEF TypeOK, Ranges

(* One request goes on or ends, and nothing else happens to the types. *)
LEMMA OneStep ==
  ASSUME TypeOK, NEW c \in Clients, NEW q, req' = [req EXCEPT ![c] = q],
         q = Idle \/ Continues(q, c) \/ q \in Requests,
         q = Idle \/ q.rev <= Len(ended'[q.slug]), Ranges',
         \A s \in Slugs : Len(ended[s]) <= Len(ended'[s])
  PROVE  TypeOK'
<1>1. q \in Requests \union {Idle}
  BY DEF Continues
<1>2. ended' \in [Slugs -> Seq(Nat)]
  BY DEF Ranges
<1>3. /\ req' \in [Clients -> Requests \union {Idle}]
      /\ \A d \in Clients : ~At(d, "idle")' => req'[d].rev <= Len(ended'[req'[d].slug])
  BY <1>1, <1>2, OneMoves
<1> QED
  BY <1>3 DEF Ranges, TypeOK, Rev

LEMMA Same ==
  ASSUME TypeOK
  PROVE  /\ UNCHANGED ended => \A s \in Slugs : Len(ended[s]) <= Len(ended'[s])
         /\ \A s \in Slugs : Len(ended[s]) \in Nat
         /\ UNCHANGED <<now, events, ended, cache, saved, asks>> => Ranges'
         /\ \A c \in Clients : ~At(c, "idle") =>
              req[c].rev <= Len(ended[req[c].slug]) /\ req[c].rev \in Nat /\ req[c].slug \in Slugs
              /\ req[c].at \in Replicas
<1>1. \A s \in Slugs : Len(ended[s]) \in Nat
  BY DEF TypeOK
<1>2. UNCHANGED <<now, events, ended, cache, saved, asks>> => Ranges'
  BY DEF TypeOK, Ranges, Rev
<1>3. ASSUME NEW c \in Clients, ~At(c, "idle")
      PROVE  req[c].rev <= Len(ended[req[c].slug]) /\ req[c].rev \in Nat /\ req[c].slug \in Slugs
             /\ req[c].at \in Replicas
  BY <1>3, InProgress DEF TypeOK, Rev, Requests
<1> QED
  BY <1>1, <1>2, <1>3

(* Steps that only move a request on, or end it. *)
LEMMA MovesOn ==
  ASSUME TypeOK, NEW c \in Clients, ~At(c, "idle"),
         UNCHANGED <<now, events, ended, cache, saved, asks>>,
         Answer(c) \/ \E st \in Stages : Go(c, st)
  PROVE  TypeOK'
<1>1. CASE Answer(c)
  BY <1>1, Same, OneStep DEF Answer
<1>2. ASSUME NEW st \in Stages, Go(c, st)
      PROVE  TypeOK'
  <2>1. PICK q : /\ req' = [req EXCEPT ![c] = q] /\ Continues(q, c) /\ q.rev = req[c].rev
    BY <1>2, GoIs
  <2>2. q.slug = req[c].slug
    BY <2>1 DEF Continues
  <2>3. q.rev <= Len(ended'[q.slug])
    BY <2>1, <2>2, Same
  <2> QED
    BY <2>1, <2>3, Same, OneStep
<1> QED
  BY <1>1, <1>2

(* The cases of Lookup, GetEvent and the writes. *)
LEMMA LookupIs ==
  ASSUME TypeOK, NEW c \in Clients, Lookup(c)
  PROVE  /\ UNCHANGED <<now, events, ended, cache, saved, asks>> /\ ~At(c, "idle")
         /\ \/ Answer(c) \/ Go(c, "select")
            \/ /\ Fresh(req[c].at, req[c].slug)
               /\ \E q : /\ req' = [req EXCEPT ![c] = q] /\ Continues(q, c)
                         /\ q.stage = "decide" /\ q.rev = Entry(c).rev
<1>1. ~At(c, "idle")
  BY DEF Lookup, At
<1>2. req[c] \in Requests
  BY <1>1, InProgress
<1>3. Entry(c) \in Entries
  BY <1>2 DEF Entry, Requests, TypeOK
<1>4. ASSUME req' = [req EXCEPT ![c].stage = "decide", ![c].rev = Entry(c).rev, ![c].open = Entry(c).open]
      PROVE  \E q : /\ req' = [req EXCEPT ![c] = q] /\ Continues(q, c)
                    /\ q.stage = "decide" /\ q.rev = Entry(c).rev
  <2>1. DEFINE q == [req[c] EXCEPT !.stage = "decide", !.rev = Entry(c).rev, !.open = Entry(c).open]
  <2>2. Entry(c).rev \in Nat /\ Entry(c).open \in BOOLEAN /\ "decide" \in Stages
    BY <1>3 DEF Entries, Stages
  <2>3. Continues(q, c) /\ q.stage = "decide" /\ q.rev = Entry(c).rev
    BY <1>2, <2>2 DEF Requests, Continues
  <2>4. req' = [req EXCEPT ![c] = q]
    <3>1. req \in [Clients -> Requests \union {Idle}]
      BY DEF TypeOK
    <3> QED
      BY <1>4, <3>1
  <2> QED
    BY <2>3, <2>4
<1> QED
  BY <1>1, <1>4 DEF Lookup

LEMMA GetEventIs ==
  ASSUME TypeOK, NEW c \in Clients, GetEvent(c)
  PROVE  /\ UNCHANGED <<now, events, ended, cache, saved, asks>> /\ ~At(c, "idle")
         /\ \/ Answer(c)
            \/ \E q : /\ req' = [req EXCEPT ![c] = q] /\ Continues(q, c)
                      /\ q.stage = "store" /\ q.rev = Rev(req[c].slug)
<1>1. ~At(c, "idle")
  BY DEF GetEvent, At
<1>2. req[c] \in Requests
  BY <1>1, InProgress
<1>3. events[req[c].slug] \in Rows /\ Rev(req[c].slug) \in Nat
  BY <1>2, RevIsNat DEF Requests, TypeOK
<1>4. ASSUME req' = [req EXCEPT ![c].stage = "store", ![c].rev = Rev(req[c].slug),
                                ![c].open = events[req[c].slug].open]
      PROVE  \E q : /\ req' = [req EXCEPT ![c] = q] /\ Continues(q, c)
                    /\ q.stage = "store" /\ q.rev = Rev(req[c].slug)
  <2>1. DEFINE q == [req[c] EXCEPT !.stage = "store", !.rev = Rev(req[c].slug),
                                   !.open = events[req[c].slug].open]
  <2>2. events[req[c].slug].open \in BOOLEAN /\ "store" \in Stages
    BY <1>3 DEF Rows, Stages
  <2>3. Continues(q, c) /\ q.stage = "store" /\ q.rev = Rev(req[c].slug)
    BY <1>2, <1>3, <2>2 DEF Requests, Continues
  <2>4. req' = [req EXCEPT ![c] = q]
    <3>1. req \in [Clients -> Requests \union {Idle}]
      BY DEF TypeOK
    <3> QED
      BY <1>4, <3>1
  <2> QED
    BY <2>3, <2>4
<1> QED
  BY <1>1, <1>4 DEF GetEvent

(* A statement that writes leaves its request with the revision it made, or *)
(* ends it.                                                                 *)
Leaves(c) ==
  /\ Grown /\ ended' \in [Slugs -> Seq(Nat)]
  /\ \A s \in Slugs : Len(ended[s]) <= Len(ended'[s])
  /\ \E q : /\ req' = [req EXCEPT ![c] = q]
            /\ (q = Idle \/ (Continues(q, c) /\ q.stage = "drop" /\ q.rev <= Len(ended'[q.slug])))

LEMMA WritesAre ==
  ASSUME TypeOK, NEW c \in Clients,
         Register(c) \/ UpsertEvent(c) \/ SetManageKey(c) \/ GetTicket(c)
  PROVE  /\ UNCHANGED <<now, cache, saved, asks>> /\ ~At(c, "idle")
         /\ Leaves(c)
<1>1. ~At(c, "idle") /\ UNCHANGED <<now, cache, saved, asks>>
  BY DEF Register, UpsertEvent, SetManageKey, GetTicket, At
<1>2. /\ req[c].slug \in Slugs
      /\ Rev(req[c].slug) \in Nat
  BY <1>1, Same, RevIsNat
<1>3. ASSUME Revised(req[c].slug), Written(c, Rev(req[c].slug) + 1)
      PROVE  Leaves(c)
  <2>1. PICK q : /\ req' = [req EXCEPT ![c] = q]
                 /\ (q = Idle \/ (Continues(q, c) /\ q.stage = "drop" /\ q.rev = Rev(req[c].slug) + 1))
    <3>1. DEFINE rev == Rev(req[c].slug) + 1
    <3>2. rev \in Nat /\ Written(c, rev)
      BY <1>2, <1>3
    <3> HIDE DEF rev
    <3>3. \E q : /\ req' = [req EXCEPT ![c] = q]
                /\ (q = Idle \/ (Continues(q, c) /\ q.stage = "drop" /\ q.rev = rev))
      BY <1>1, <3>2, WrittenIs
    <3> QED
      BY <3>3 DEF rev
  <2>2. /\ Grown /\ ended' \in [Slugs -> Seq(Nat)]
        /\ \A s \in Slugs : Len(ended[s]) <= Len(ended'[s])
        /\ Len(ended'[req[c].slug]) = Rev(req[c].slug) + 1
    <3>1. DEFINE t == req[c].slug
    <3>2. t \in Slugs /\ Revised(t)
      BY <1>2, <1>3
    <3> HIDE DEF t
    <3>3. /\ Grown /\ ended' \in [Slugs -> Seq(Nat)]
          /\ \A s \in Slugs : Len(ended[s]) <= Len(ended'[s])
          /\ Len(ended'[t]) = Rev(t) + 1
      BY <1>1, <3>2, RevisedGrows
    <3> QED
      BY <3>3 DEF t
  <2>3. q # Idle => q.slug = req[c].slug
    BY <2>1 DEF Continues
  <2>4. q = Idle \/ (Continues(q, c) /\ q.stage = "drop" /\ q.rev <= Len(ended'[q.slug]))
    BY <1>2, <2>1, <2>2, <2>3
  <2> QED
    BY <2>1, <2>2, <2>4 DEF Leaves
<1>4. ASSUME UNCHANGED ended, NEW rev \in Nat, rev <= Rev(req[c].slug), Written(c, rev) \/ Answer(c)
      PROVE  Leaves(c)
  <2>1. PICK q : /\ req' = [req EXCEPT ![c] = q]
                 /\ (q = Idle \/ (Continues(q, c) /\ q.stage = "drop" /\ q.rev = rev))
    <3>1. CASE Written(c, rev)
      BY <1>1, <1>4, <3>1, WrittenIs
    <3>2. CASE Answer(c)
      BY <3>2 DEF Answer
    <3> QED
      BY <1>4, <3>1, <3>2
  <2>2. q # Idle => q.slug = req[c].slug
    BY <2>1 DEF Continues
  <2>3. Grown /\ ended' \in [Slugs -> Seq(Nat)]
    BY <1>4 DEF Grown, TypeOK
  <2> QED
    <3>1. \A s \in Slugs : Len(ended[s]) <= Len(ended'[s])
      BY <1>4, Same
    <3>2. q # Idle => q.rev <= Len(ended'[q.slug])
      BY <1>4, <2>1, <2>2 DEF Rev
    <3> QED
      BY <2>1, <2>3, <3>1, <3>2 DEF Leaves
<1>5. CASE Register(c)
  BY <1>2, <1>3, <1>4, <1>1, <1>5 DEF Register
<1>6. CASE UpsertEvent(c)
  <2>1. \/ Answer(c) /\ UNCHANGED ended
        \/ Revised(req[c].slug) /\ Written(c, Rev(req[c].slug) + 1)
    BY <1>6 DEF UpsertEvent
  <2> QED
    BY <1>1, <1>2, <1>3, <1>4, <2>1
<1>7. CASE SetManageKey(c)
  <2>1. Answer(c) /\ UNCHANGED ended
    BY <1>7 DEF SetManageKey
  <2> QED
    BY <1>1, <1>2, <1>4, <2>1
<1>8. CASE GetTicket(c)
  <2>1. (Written(c, 0) \/ Answer(c)) /\ UNCHANGED ended /\ 0 <= Rev(req[c].slug)
    BY <1>2, <1>8 DEF GetTicket
  <2> QED
    BY <1>1, <1>4, <2>1
<1> QED
  BY <1>1, <1>5, <1>6, <1>7, <1>8

(* A store puts the entry of its request into what is kept. *)
LEMMA StoreIs ==
  ASSUME TypeOK, NEW c \in Clients, Store(c)
  PROVE  /\ ~At(c, "idle") /\ UNCHANGED <<now, events, ended, saved, asks>>
         /\ Answer(c) \/ Go(c, "decide")
         /\ cache' \in [Replicas -> [Slugs -> Entries]]
         /\ \A x \in Replicas, s \in Slugs :
              \/ cache'[x][s] = cache[x][s] \/ cache'[x][s] = NoEntry
              \/ /\ x = req[c].at /\ s = req[c].slug
                 /\ cache'[x][s].rev = req[c].rev /\ cache'[x][s].exp = now + TTL
                 /\ cache'[x][s].late = req[c].late
<1>1. ~At(c, "idle")
  BY DEF Store, At
<1>2. DEFINE x == req[c].at
             s == req[c].slug
             e == [held |-> TRUE, rev |-> req[c].rev, open |-> req[c].open, exp |-> now + TTL,
                   late |-> req[c].late]
<1>3. x \in Replicas /\ s \in Slugs /\ e \in Entries
  <2>1. req[c] \in Requests
    BY <1>1, InProgress
  <2>2. now + TTL \in Nat
    BY DeskAssumption DEF TypeOK
  <2> QED
    BY <2>1, <2>2 DEF Requests, Entries
<1>4. e.rev = req[c].rev /\ e.exp = now + TTL /\ e.late = req[c].late
  OBVIOUS
<1>5. Kept(x) \in [Slugs -> Entries] /\ \A t \in Slugs : Kept(x)[t] = cache[x][t] \/ Kept(x)[t] = NoEntry
  BY <1>3, KeptIs
<1>6. cache' = [cache EXCEPT ![x] = [Kept(x) EXCEPT ![s] = e]]
  BY DEF Store
<1>7. /\ UNCHANGED <<now, events, ended, saved, asks>>
      /\ Answer(c) \/ Go(c, "decide")
  BY DEF Store
<1>8. cache \in [Replicas -> [Slugs -> Entries]]
  BY DEF TypeOK
<1> HIDE DEF e, x, s
<1>9. DEFINE k == [Kept(x) EXCEPT ![s] = e]
<1>10. k \in [Slugs -> Entries] /\ \A t \in Slugs : k[t] = IF t = s THEN e ELSE Kept(x)[t]
  BY <1>3, <1>5
<1> HIDE DEF k
<1>11. cache' = [cache EXCEPT ![x] = k]
  BY <1>6 DEF k
<1>12. /\ cache' \in [Replicas -> [Slugs -> Entries]]
       /\ \A y \in Replicas : cache'[y] = IF y = x THEN k ELSE cache[y]
  BY <1>3, <1>8, <1>10, <1>11
<1>13. ASSUME NEW y \in Replicas, NEW t \in Slugs
       PROVE  \/ cache'[y][t] = cache[y][t] \/ cache'[y][t] = NoEntry
              \/ y = x /\ t = s /\ cache'[y][t] = e
  <2>1. CASE y # x
    BY <1>12, <2>1
  <2>2. CASE y = x /\ t = s
    BY <1>3, <1>10, <1>12, <2>2
  <2>3. CASE y = x /\ t # s
    BY <1>5, <1>10, <1>12, <2>3
  <2> QED
    BY <2>1, <2>2, <2>3
<1> QED
  BY <1>1, <1>4, <1>7, <1>12, <1>13 DEF x, s

(* A drop empties one entry, raises one number and marks the late reads.    *)
LEMMA DropIs ==
  ASSUME TypeOK, NEW c \in Clients, Drop(c)
  PROVE  /\ At(c, "drop") /\ UNCHANGED <<now, events, ended, asks>>
         /\ cache' \in [Replicas -> [Slugs -> Entries]]
         /\ \A x \in Replicas, s \in Slugs :
              cache'[x][s] = IF x = req[c].at /\ s = req[c].slug THEN NoEntry ELSE cache[x][s]
         /\ saved' \in [Replicas -> [Slugs -> Nat]]
         /\ \A x \in Replicas, s \in Slugs :
              \/ saved'[x][s] = saved[x][s]
              \/ x = req[c].at /\ s = req[c].slug /\ saved'[x][s] = req[c].rev
         /\ req'[c] = Idle
         /\ \A d \in Clients \ {c} : \/ req'[d] = req[d]
                                     \/ /\ At(d, "store") /\ req[d] \in Requests
                                        /\ req'[d] = [req[d] EXCEPT !.late = TRUE]
         /\ \A d \in Clients \ {c} :
              At(d, "store") /\ req[d].at = req[c].at /\ req[d].slug = req[c].slug =>
                req'[d] = [req[d] EXCEPT !.late = TRUE]
         /\ req' \in [Clients -> Requests \union {Idle}]
<1>1. At(c, "drop") /\ ~At(c, "idle")
  BY DEF Drop, At
<1>2. DEFINE x == req[c].at
             s == req[c].slug
<1>3. x \in Replicas /\ s \in Slugs /\ req[c].rev \in Nat
  BY <1>1, InProgress DEF Requests
<1>4. NoEntry \in Entries
  BY DEF NoEntry, Entries
<1>5. cache' = [cache EXCEPT ![x][s] = NoEntry]
  BY DEF Drop, Invalidated
<1>6. saved' = [saved EXCEPT ![x][s] = IF req[c].rev > saved[x][s] THEN req[c].rev ELSE saved[x][s]]
  BY <1>3 DEF Drop, TypeOK
<1>7. req' = [d \in Clients |->
       IF d = c THEN Idle
       ELSE IF At(d, "store") /\ req[d].at = x /\ req[d].slug = s THEN [req[d] EXCEPT !.late = TRUE]
       ELSE req[d]]
  BY DEF Drop
<1>8. \A d \in Clients : At(d, "store") => req[d] \in Requests /\ [req[d] EXCEPT !.late = TRUE] \in Requests
  <2> SUFFICES ASSUME NEW d \in Clients, At(d, "store")
               PROVE  req[d] \in Requests /\ [req[d] EXCEPT !.late = TRUE] \in Requests
    OBVIOUS
  <2>1. req[d] \in Requests
    BY InProgress DEF At
  <2> QED
    BY <2>1 DEF Requests
<1>9. cache \in [Replicas -> [Slugs -> Entries]] /\ saved \in [Replicas -> [Slugs -> Nat]]
      /\ req \in [Clients -> Requests \union {Idle}]
  BY DEF TypeOK
<1>10. UNCHANGED <<now, events, ended, asks>>
  BY DEF Drop
<1> HIDE DEF x, s
<1>11. /\ cache' \in [Replicas -> [Slugs -> Entries]]
       /\ \A y \in Replicas, t \in Slugs : cache'[y][t] = IF y = x /\ t = s THEN NoEntry ELSE cache[y][t]
  BY <1>3, <1>4, <1>5, <1>9
<1>12. /\ saved' \in [Replicas -> [Slugs -> Nat]]
       /\ \A y \in Replicas, t \in Slugs : \/ saved'[y][t] = saved[y][t]
                                           \/ y = x /\ t = s /\ saved'[y][t] = req[c].rev
  BY <1>3, <1>6, <1>9
<1>13. /\ req'[c] = Idle /\ req' \in [Clients -> Requests \union {Idle}]
       /\ \A d \in Clients \ {c} : \/ req'[d] = req[d]
                                   \/ /\ At(d, "store") /\ req[d] \in Requests
                                      /\ req'[d] = [req[d] EXCEPT !.late = TRUE]
       /\ \A d \in Clients \ {c} :
              At(d, "store") /\ req[d].at = x /\ req[d].slug = s =>
                req'[d] = [req[d] EXCEPT !.late = TRUE]
  BY <1>7, <1>8, <1>9
<1> QED
  BY <1>1, <1>10, <1>11, <1>12, <1>13 DEF x, s

-----------------------------------------------------------------------------
(* The variables keep their ranges in every behaviour, and no entry and no  *)
(* request is ahead of the table.                                           *)
LEMMA TypeStep == TypeOK /\ [Next]_vars => TypeOK'
<1> SUFFICES ASSUME TypeOK, [Next]_vars
             PROVE  TypeOK'
  OBVIOUS
<1>1. CASE Tick
  BY <1>1 DEF Tick, TypeOK, Rev, At
<1>2. ASSUME NEW x \in Replicas, Restart(x)
      PROVE  TypeOK'
  <2>1. NoEntry \in Entries /\ NoEntry.rev = 0
    BY DEF NoEntry, Entries
  <2>2. UNCHANGED <<now, events, ended, saved>> /\ asks' \in Nat
    BY <1>2 DEF Restart, TypeOK
  <2>3. /\ cache' \in [Replicas -> [Slugs -> Entries]]
        /\ \A y \in Replicas, s \in Slugs : cache'[y][s] = cache[y][s] \/ cache'[y][s] = NoEntry
    BY <1>2, <2>1 DEF Restart, TypeOK
  <2>4. Ranges'
    <3> SUFFICES ASSUME NEW y \in Replicas, NEW s \in Slugs
                 PROVE  cache'[y][s].rev <= Len(ended[s]) /\ saved[y][s] <= Len(ended[s])
      BY <2>2, <2>3 DEF Ranges, TypeOK
    <3>1. cache[y][s].rev <= Len(ended[s]) /\ saved[y][s] <= Len(ended[s]) /\ Len(ended[s]) \in Nat
      BY DEF TypeOK, Rev
    <3> QED
      BY <2>1, <2>3, <3>1
  <2>5. \A c \in Clients : req'[c] = req[c] \/ req'[c] = Idle
    BY <1>2 DEF Restart
  <2>6. req' \in [Clients -> Requests \union {Idle}]
    BY <1>2 DEF Restart, TypeOK
  <2>7. ASSUME NEW c \in Clients, ~At(c, "idle")'
        PROVE  req'[c].rev <= Len(ended'[req'[c].slug])
    <3>1. req'[c] = req[c] /\ ~At(c, "idle")
      BY <2>5, <2>7 DEF At, Idle
    <3> QED
      BY <2>2, <3>1, Same
  <2> QED
    BY <2>4, <2>6, <2>7 DEF Ranges, TypeOK, Rev
<1>3. ASSUME NEW c \in Clients, AskSomething(c)
      PROVE  TypeOK'
  <2>1. PICK q \in Requests : req' = [req EXCEPT ![c] = q] /\ q.rev = 0
    BY <1>3, AskIs
  <2>2. UNCHANGED <<now, events, ended, cache, saved>> /\ asks' \in Nat
    BY <1>3, AskIs
  <2>3. Ranges'
    BY <2>2 DEF Ranges, TypeOK, Rev
  <2>4. q.slug \in Slugs
    BY DEF Requests
  <2>5. q.rev <= Len(ended'[q.slug])
    BY <2>1, <2>2, <2>4, Same
  <2> QED
    BY <2>1, <2>2, <2>3, <2>5, Same, OneStep
<1>4. ASSUME NEW c \in Clients, Fail(c) \/ Decide(c) \/ AssertOwner(c) \/ OpenList(c) \/ GiveList(c) \/ CheckIn(c)
      PROVE  TypeOK'
  <2>1. /\ ~At(c, "idle") /\ UNCHANGED <<now, events, ended, cache, saved, asks>>
        /\ Answer(c) \/ Go(c, "insert") \/ Go(c, "open") \/ Go(c, "rows") \/ Go(c, "ticket")
    BY <1>4 DEF Fail, Decide, AssertOwner, OpenList, GiveList, CheckIn, At
  <2>2. {"insert", "open", "rows", "ticket"} \subseteq Stages
    BY DEF Stages
  <2> QED
    BY <2>1, <2>2, MovesOn
<1>5. ASSUME NEW c \in Clients, Lookup(c)
      PROVE  TypeOK'
  <2>1. ~At(c, "idle") /\ UNCHANGED <<now, events, ended, cache, saved, asks>>
    BY <1>5, LookupIs
  <2>2. CASE Answer(c) \/ Go(c, "select")
    BY <2>1, <2>2, MovesOn DEF Stages
  <2>3. ASSUME NEW q, req' = [req EXCEPT ![c] = q], Continues(q, c), q.rev = Entry(c).rev
        PROVE  TypeOK'
    <3>1. q.slug = req[c].slug /\ req[c].slug \in Slugs /\ req[c].at \in Replicas
      BY <2>1, <2>3, Same DEF Continues
    <3>2. q.rev <= Len(ended'[q.slug])
      BY <2>1, <2>3, <3>1 DEF Entry, TypeOK, Rev
    <3> QED
      BY <2>1, <2>3, <3>2, Same, OneStep
  <2> QED
    BY <1>5, <2>2, <2>3, LookupIs
<1>6. ASSUME NEW c \in Clients, GetEvent(c)
      PROVE  TypeOK'
  <2>1. ~At(c, "idle") /\ UNCHANGED <<now, events, ended, cache, saved, asks>>
    BY <1>6, GetEventIs
  <2>2. CASE Answer(c)
    BY <2>1, <2>2, MovesOn
  <2>3. ASSUME NEW q, req' = [req EXCEPT ![c] = q], Continues(q, c), q.rev = Rev(req[c].slug)
        PROVE  TypeOK'
    <3>1. q.slug = req[c].slug /\ req[c].slug \in Slugs
      BY <2>1, <2>3, Same DEF Continues
    <3>2. q.rev <= Len(ended'[q.slug])
      BY <2>1, <2>3, <3>1, Same DEF Rev
    <3> QED
      BY <2>1, <2>3, <3>2, Same, OneStep
  <2> QED
    BY <1>6, <2>2, <2>3, GetEventIs
<1>7. ASSUME NEW c \in Clients, Store(c)
      PROVE  TypeOK'
  <2>1. /\ ~At(c, "idle") /\ UNCHANGED <<now, events, ended, saved, asks>>
        /\ Answer(c) \/ Go(c, "decide")
    BY <1>7, StoreIs
  <2>2. Ranges'
    <3> SUFFICES ASSUME NEW x \in Replicas, NEW s \in Slugs
                 PROVE  cache'[x][s].rev <= Len(ended[s])
      BY <1>7, <2>1, StoreIs DEF Ranges, TypeOK, Rev
    <3>1. cache[x][s].rev <= Len(ended[s]) /\ Len(ended[s]) \in Nat
      BY DEF TypeOK, Rev
    <3>2. NoEntry.rev = 0
      BY DEF NoEntry
    <3> QED
      BY <1>7, <2>1, <3>1, <3>2, StoreIs, Same
  <2>3. CASE Answer(c)
    BY <2>1, <2>2, <2>3, Same, OneStep DEF Answer
  <2>4. CASE Go(c, "decide")
    <3>1. PICK q : req' = [req EXCEPT ![c] = q] /\ Continues(q, c) /\ q.rev = req[c].rev
      BY <2>1, <2>4, GoIs DEF Stages
    <3>2. q.slug = req[c].slug
      BY <3>1 DEF Continues
    <3>3. q.rev <= Len(ended'[q.slug])
      BY <2>1, <3>1, <3>2, Same
    <3> QED
      BY <2>1, <2>2, <3>1, <3>3, Same, OneStep
  <2> QED
    BY <2>1, <2>3, <2>4
<1>8. ASSUME NEW c \in Clients, Drop(c)
      PROVE  TypeOK'
  <2>1. UNCHANGED <<now, events, ended, asks>> /\ ~At(c, "idle")
    BY <1>8, DropIs DEF At
  <2>2. Ranges'
    <3> SUFFICES ASSUME NEW x \in Replicas, NEW s \in Slugs
                 PROVE  cache'[x][s].rev <= Len(ended[s]) /\ saved'[x][s] <= Len(ended[s])
      BY <1>8, <2>1, DropIs DEF Ranges, TypeOK, Rev
    <3>1. cache[x][s].rev <= Len(ended[s]) /\ saved[x][s] <= Len(ended[s]) /\ Len(ended[s]) \in Nat
      BY DEF TypeOK, Rev
    <3>2. NoEntry.rev = 0
      BY DEF NoEntry
    <3>3. req[c].rev <= Len(ended[req[c].slug])
      BY <2>1, Same
    <3> QED
      BY <1>8, <3>1, <3>2, <3>3, DropIs
  <2>3. ASSUME NEW d \in Clients, ~At(d, "idle")'
        PROVE  req'[d].rev <= Len(ended'[req'[d].slug])
    <3>1. d # c
      BY <1>8, <2>3, DropIs DEF At, Idle
    <3>2. CASE req'[d] = req[d]
      BY <2>1, <2>3, <3>2, Same DEF At
    <3>3. CASE At(d, "store") /\ req[d] \in Requests /\ req'[d] = [req[d] EXCEPT !.late = TRUE]
      <4>1. req'[d].rev = req[d].rev /\ req'[d].slug = req[d].slug
        BY <3>3 DEF Requests
      <4> QED
        BY <2>1, <3>3, <4>1, Same DEF At
    <3> QED
      BY <1>8, <3>1, <3>2, <3>3, DropIs
  <2> QED
    BY <1>8, <2>2, <2>3, DropIs DEF Ranges, TypeOK, Rev
<1>9. ASSUME NEW c \in Clients, Register(c) \/ UpsertEvent(c) \/ SetManageKey(c) \/ GetTicket(c)
      PROVE  TypeOK'
  <2>1. UNCHANGED <<now, cache, saved, asks>> /\ ~At(c, "idle") /\ Leaves(c)
    BY <1>9, WritesAre
  <2>2. req[c] \in Requests
    BY <2>1, InProgress
  <2>3. events' \in [Slugs -> Rows]
    <3>1. \A s \in Slugs : events[s] \in Rows
      BY DEF TypeOK
    <3>2. CASE Register(c) \/ GetTicket(c)
      BY <3>2 DEF Register, GetTicket, TypeOK
    <3>3. CASE UpsertEvent(c)
      <4>1. Created(req[c]) \in Rows /\ Updated(req[c].slug, req[c]) \in Rows
        BY <2>2, <3>1 DEF Created, Updated, Rows, Requests
      <4> QED
        BY <3>3, <4>1 DEF UpsertEvent, TypeOK
    <3>4. CASE SetManageKey(c)
      <4>1. [events[req[c].slug] EXCEPT !.key = req[c].key] \in Rows
        BY <2>2, <3>1 DEF Rows, Requests
      <4>2. \/ events' = events
            \/ events' = [events EXCEPT ![req[c].slug] = [events[req[c].slug] EXCEPT !.key = req[c].key]]
        BY <3>4 DEF SetManageKey
      <4> QED
        BY <4>1, <4>2 DEF TypeOK
    <3> QED
      BY <1>9, <3>2, <3>3, <3>4
  <2>4. Ranges'
    BY <2>1, <2>3, RangesGrow DEF Leaves
  <2> QED
    BY <2>1, <2>4, OneStep DEF Leaves
<1>10. CASE UNCHANGED vars
  BY <1>10 DEF vars, TypeOK, Rev, At
<1> QED
  BY <1>1, <1>2, <1>3, <1>4, <1>5, <1>6, <1>7, <1>8, <1>9, <1>10 DEF Next

(* The variables keep their ranges in every behaviour, and no entry or      *)
(* request holds a revision its row has not had.                            *)
THEOREM Typing == Spec => []TypeOK
<1>1. Init => TypeOK
  <2> SUFFICES ASSUME Init PROVE TypeOK
    OBVIOUS
  <2>1. events \in [Slugs -> Rows]
    <3>1. Absent \in Rows
      BY DEF Absent, Rows, Scopes
    <3>2. \A o \in Scopes, k \in Keys :
            [owner |-> o, key |-> k, open |-> TRUE, exists |-> TRUE] \in Rows
      BY DEF Rows
    <3>3. {Absent} \union {[owner |-> o, key |-> k, open |-> TRUE, exists |-> TRUE] :
                               o \in Scopes, k \in Keys} \subseteq Rows
      BY <3>1, <3>2
    <3> QED
      BY <3>3 DEF Init
  <2>2. /\ cache \in [Replicas -> [Slugs -> Entries]]
        /\ \A x \in Replicas, s \in Slugs : cache[x][s].rev = 0
    BY DEF Init, NoEntry, Entries
  <2>3. ended \in [Slugs -> Seq(Nat)] /\ \A s \in Slugs : Rev(s) = 0
    BY DEF Init, Rev
  <2>4. \A c \in Clients : At(c, "idle")
    BY DEF Init, At, Idle
  <2> QED
    BY <2>1, <2>2, <2>3, <2>4 DEF Init, TypeOK
<1> QED
  BY <1>1, TypeStep, PTL DEF Spec

-----------------------------------------------------------------------------
(* An edit shows in the process that made it.                               *)

(* A read that is about to be stored is as new as the last finished write   *)
(* of its process, unless it is known to be late.                           *)
ReadsAreNew ==
  \A c \in Clients : At(c, "store") /\ ~req[c].late => req[c].rev >= saved[req[c].at][req[c].slug]

ShowInv == EditsShow /\ ReadsAreNew

LEMMA IdleStage == Idle.stage = "idle" /\ Idle.stage # "store"
BY DEF Idle

LEMMA ShowStep == TypeOK /\ ShowInv /\ [Next]_vars => ShowInv'
<1> SUFFICES ASSUME TypeOK, EditsShow, ReadsAreNew, [Next]_vars
             PROVE  EditsShow' /\ ReadsAreNew'
  BY DEF ShowInv
<1>0. req \in [Clients -> Requests \union {Idle}]
  BY DEF TypeOK
(* A step of one request that is not reading, with the cache as it was.      *)
<1>1. ASSUME UNCHANGED <<cache, saved>>, NEW c \in Clients, NEW q,
             req' = [req EXCEPT ![c] = q], q.stage # "store"
      PROVE  EditsShow' /\ ReadsAreNew'
  <2>1. \A d \in Clients : At(d, "store")' => d # c /\ req'[d] = req[d] /\ At(d, "store")
    BY <1>0, <1>1 DEF At
  <2> QED
    BY <1>1, <2>1 DEF EditsShow, ReadsAreNew
<1>2. ASSUME UNCHANGED <<cache, saved>>, NEW c \in Clients, ~At(c, "idle"),
             Answer(c) \/ \E st \in Stages \ {"store"} : Go(c, st)
      PROVE  EditsShow' /\ ReadsAreNew'
  <2>1. CASE Answer(c)
    <3>1. req' = [req EXCEPT ![c] = Idle]
      BY <2>1 DEF Answer
    <3> QED
      BY <1>1, <1>2, <3>1, IdleStage
  <2>2. ASSUME NEW st \in Stages \ {"store"}, Go(c, st)
        PROVE  EditsShow' /\ ReadsAreNew'
    <3>1. PICK q : req' = [req EXCEPT ![c] = q] /\ q.stage = st
      BY <1>2, <2>2, GoIs
    <3> QED
      BY <1>1, <1>2, <3>1
  <2> QED
    BY <1>2, <2>1, <2>2
<1>3. CASE Tick \/ UNCHANGED vars
  BY <1>3 DEF Tick, vars, EditsShow, ReadsAreNew, At
<1>4. ASSUME NEW x \in Replicas, Restart(x)
      PROVE  EditsShow' /\ ReadsAreNew'
  <2>1. /\ UNCHANGED saved
        /\ \A y \in Replicas, s \in Slugs : cache'[y][s] = cache[y][s] \/ cache'[y][s] = NoEntry
        /\ \A c \in Clients : req'[c] = req[c] \/ req'[c] = Idle
    BY <1>4 DEF Restart, TypeOK
  <2> QED
    BY <2>1 DEF EditsShow, ReadsAreNew, NoEntry, At, Idle
<1>5. ASSUME NEW c \in Clients, AskSomething(c)
      PROVE  EditsShow' /\ ReadsAreNew'
  <2>1. PICK q \in Requests : req' = [req EXCEPT ![c] = q] /\ q.stage = FirstStage[q.op]
    BY <1>5, AskIs
  <2>2. q.stage # "store"
    BY <2>1 DEF Requests, Ops, FirstStage
  <2>3. UNCHANGED <<cache, saved>>
    BY <1>5, AskIs
  <2> QED
    BY <1>1, <2>1, <2>2, <2>3
<1>6. ASSUME NEW c \in Clients, Fail(c) \/ Decide(c) \/ AssertOwner(c) \/ OpenList(c) \/ GiveList(c) \/ CheckIn(c)
      PROVE  EditsShow' /\ ReadsAreNew'
  <2>1. /\ ~At(c, "idle") /\ UNCHANGED <<cache, saved>>
        /\ Answer(c) \/ Go(c, "insert") \/ Go(c, "open") \/ Go(c, "rows") \/ Go(c, "ticket")
    BY <1>6 DEF Fail, Decide, AssertOwner, OpenList, GiveList, CheckIn, At
  <2>2. {"insert", "open", "rows", "ticket"} \subseteq Stages \ {"store"}
    BY DEF Stages
  <2> QED
    BY <1>2, <2>1, <2>2
<1>7. ASSUME NEW c \in Clients, Lookup(c)
      PROVE  EditsShow' /\ ReadsAreNew'
  <2>1. ~At(c, "idle") /\ UNCHANGED <<cache, saved>> /\ "select" \in Stages \ {"store"}
    BY <1>7, LookupIs DEF Stages
  <2> QED
    BY <1>1, <1>2, <1>7, <2>1, LookupIs
<1>8. ASSUME NEW c \in Clients, GetEvent(c)
      PROVE  EditsShow' /\ ReadsAreNew'
  <2>1. ~At(c, "idle") /\ UNCHANGED <<ended, cache, saved>>
    BY <1>8, GetEventIs
  <2>2. ASSUME NEW q, req' = [req EXCEPT ![c] = q], Continues(q, c), q.rev = Rev(req[c].slug)
        PROVE  EditsShow' /\ ReadsAreNew'
    <3>1. q.slug \in Slugs /\ q.at \in Replicas /\ q.slug = req[c].slug
      BY <2>2 DEF Continues, Requests
    <3>2. Rev(q.slug) >= saved[q.at][q.slug]
      BY <3>1, RevIsNat DEF TypeOK
    <3>3. \A d \in Clients : d # c => req'[d] = req[d]
      BY <1>0, <2>2
    <3>4. req'[c] = q
      BY <1>0, <2>2
    <3>5. q.rev >= saved[q.at][q.slug]
      BY <2>2, <3>1, <3>2
    <3> QED
      BY <2>1, <3>3, <3>4, <3>5 DEF EditsShow, ReadsAreNew, At
  <2> QED
    BY <1>2, <1>8, <2>1, <2>2, GetEventIs
<1>9. ASSUME NEW c \in Clients, Store(c)
      PROVE  EditsShow' /\ ReadsAreNew'
  <2>1. /\ ~At(c, "idle") /\ UNCHANGED saved /\ "decide" \in Stages /\ At(c, "store")
        /\ Answer(c) \/ Go(c, "decide")
    BY <1>9, StoreIs DEF Stages, Store
  <2>2. \A d \in Clients : At(d, "store")' => req'[d] = req[d] /\ At(d, "store")
    <3>1. \E q : req' = [req EXCEPT ![c] = q] /\ q.stage # "store"
      <4>1. CASE Answer(c)
        BY <4>1, IdleStage DEF Answer
      <4>2. CASE Go(c, "decide")
        <5>1. PICK q : req' = [req EXCEPT ![c] = q] /\ q.stage = "decide"
          BY <2>1, <4>2, GoIs
        <5> QED
          BY <5>1
      <4> QED
        BY <2>1, <4>1, <4>2
    <3> QED
      BY <1>0, <3>1 DEF At
  <2>3. EditsShow'
    BY <1>9, <2>1, StoreIs DEF EditsShow, ReadsAreNew, NoEntry
  <2> QED
    BY <2>1, <2>2, <2>3 DEF ReadsAreNew
<1>10. ASSUME NEW c \in Clients, Drop(c)
       PROVE  EditsShow' /\ ReadsAreNew'
  <2>1. EditsShow'
    BY <1>10, DropIs DEF EditsShow, NoEntry
  <2>2. ASSUME NEW d \in Clients, At(d, "store")', ~req'[d].late
        PROVE  req'[d].rev >= saved'[req'[d].at][req'[d].slug]
    <3>1. d # c
      BY <1>10, <2>2, DropIs DEF At, Idle
    <3>2. ~(At(d, "store") /\ req[d] \in Requests /\ req'[d] = [req[d] EXCEPT !.late = TRUE])
      BY <2>2 DEF Requests
    <3>3. req'[d] = req[d] /\ At(d, "store")
      BY <1>10, <2>2, <3>1, <3>2, DropIs DEF At
    <3>4. ~(req[d].at = req[c].at /\ req[d].slug = req[c].slug)
      <4>1. req[d] \in Requests
        BY <3>3, InProgress DEF At
      <4> QED
        BY <1>10, <3>1, <3>2, <3>3, <4>1, DropIs
    <3>5. req[d].at \in Replicas /\ req[d].slug \in Slugs
      BY <3>3, Same DEF At
    <3>6. saved'[req[d].at][req[d].slug] = saved[req[d].at][req[d].slug]
      BY <1>10, <3>4, <3>5, DropIs
    <3> QED
      BY <2>2, <3>3, <3>6 DEF ReadsAreNew
  <2> QED
    BY <2>1, <2>2 DEF ReadsAreNew
<1>11. ASSUME NEW c \in Clients, Register(c) \/ UpsertEvent(c) \/ SetManageKey(c) \/ GetTicket(c)
       PROVE  EditsShow' /\ ReadsAreNew'
  <2>1. UNCHANGED <<cache, saved>> /\ Leaves(c)
    BY <1>11, WritesAre
  <2>2. PICK q : req' = [req EXCEPT ![c] = q] /\ (q = Idle \/ q.stage = "drop")
    BY <2>1 DEF Leaves
  <2>3. q.stage # "store"
    BY <2>2, IdleStage
  <2> QED
    BY <1>1, <2>1, <2>2, <2>3
<1> QED
  BY <1>3, <1>4, <1>5, <1>6, <1>7, <1>8, <1>9, <1>10, <1>11 DEF Next

(* After an edit or a signup its process holds no older page, unless a read  *)
(* that was under way has brought one back (handler.go:139-141, 482-486).   *)
THEOREM OwnEditsShow == Spec => []EditsShow
<1>1. Init => ShowInv
  BY DEF Init, ShowInv, EditsShow, ReadsAreNew, NoEntry, At, Idle
<1>2. ShowInv => EditsShow
  BY DEF ShowInv
<1> QED
  BY <1>1, <1>2, Typing, ShowStep, PTL DEF Spec

-----------------------------------------------------------------------------
(* Owners keep their events.                                                *)

StagesOf ==
  [page |-> {"lookup", "select", "store"},
   register |-> {"lookup", "select", "store", "decide", "insert", "drop"},
   upsert |-> {"write", "drop"}, rotate |-> {"write"}, manage |-> {"open", "rows"},
   checkin |-> {"write", "ticket", "drop"}, admin |-> {"assert", "open", "rows"}]

(* A request is at a stage of its handler, and only the admin surface's have *)
(* the scope of an owner.                                                   *)
Regular(q) ==
  /\ q.stage \in StagesOf[q.op]
  /\ q.op \in {"admin", "rotate", "upsert"} \/ q.scope = Admin

Theirs(q) ==
  q.stage \in {"open", "rows", "drop"} /\ q.scope \in Owners =>
    events[q.slug].exists /\ events[q.slug].owner = q.scope

OwnInv == \A c \in Clients : ~At(c, "idle") => Regular(req[c]) /\ Theirs(req[c])

(* No step takes an event from its owner. *)
EventsKept ==
  \A s \in Slugs : events[s].exists =>
    events'[s].exists /\ events'[s].owner = events[s].owner

LEMMA OwnOne ==
  ASSUME TypeOK, OwnInv, EventsKept, NEW c \in Clients, NEW q, req' = [req EXCEPT ![c] = q],
         q = Idle \/ (Regular(q) /\ Theirs(q)')
  PROVE  OwnInv'
<1> SUFFICES ASSUME NEW d \in Clients, ~At(d, "idle")'
             PROVE  Regular(req'[d]) /\ Theirs(req[d])'
  BY DEF OwnInv, Regular
<1>0. req \in [Clients -> Requests \union {Idle}]
  BY DEF TypeOK
<1>1. CASE d = c
  <2>1. req'[d] = q /\ q # Idle
    BY <1>0, <1>1, IdleStage DEF At
  <2> QED
    BY <2>1 DEF Theirs
<1>2. CASE d # c
  <2>1. req'[d] = req[d] /\ ~At(d, "idle")
    BY <1>0, <1>2 DEF At
  <2>2. Regular(req[d]) /\ Theirs(req[d]) /\ req[d].slug \in Slugs
    BY <2>1, Same DEF OwnInv
  <2> QED
    BY <2>1, <2>2 DEF Theirs, EventsKept
<1> QED
  BY <1>1, <1>2

LEMMA OwnGo ==
  ASSUME TypeOK, OwnInv, UNCHANGED events, NEW c \in Clients, ~At(c, "idle"),
         Answer(c) \/ \E st \in Stages :
           /\ Go(c, st) /\ st \in StagesOf[req[c].op]
           /\ st \in {"open", "rows"} =>
                At(c, "open") \/ req[c].scope = Admin \/ Owned(req[c].slug, req[c].scope)
           /\ st # "drop"
  PROVE  OwnInv'
<1>0. EventsKept
  BY DEF EventsKept
<1>1. CASE Answer(c)
  <2>1. req' = [req EXCEPT ![c] = Idle]
    BY <1>1 DEF Answer
  <2> QED
    BY <1>0, <2>1, OwnOne
<1>2. ASSUME NEW st \in Stages, Go(c, st), st \in StagesOf[req[c].op], st # "drop",
             st \in {"open", "rows"} =>
               At(c, "open") \/ req[c].scope = Admin \/ Owned(req[c].slug, req[c].scope)
      PROVE  OwnInv'
  <2>1. PICK q : req' = [req EXCEPT ![c] = q] /\ Continues(q, c) /\ q.stage = st
    BY <1>2, GoIs
  <2>2. Regular(req[c]) /\ Theirs(req[c])
    BY DEF OwnInv
  <2>3. q.op = req[c].op /\ q.scope = req[c].scope /\ q.slug = req[c].slug
    BY <2>1 DEF Continues
  <2>4. Regular(q)
    BY <1>2, <2>1, <2>2, <2>3 DEF Regular
  <2>5. Theirs(q)'
    <3> SUFFICES ASSUME st \in {"open", "rows"}, q.scope \in Owners
                 PROVE  events[q.slug].exists /\ events[q.slug].owner = q.scope
      BY <1>2, <2>1 DEF Theirs
    <3>1. req[c].scope # Admin
      BY <2>3, DeskAssumption
    <3>2. CASE At(c, "open")
      BY <2>2, <2>3, <3>2 DEF Theirs, At
    <3>3. CASE Owned(req[c].slug, req[c].scope)
      BY <2>3, <3>1, <3>3 DEF Owned
    <3> QED
      BY <1>2, <3>1, <3>2, <3>3
  <2> QED
    BY <1>0, <2>1, <2>4, <2>5, OwnOne
<1> QED
  BY <1>1, <1>2

LEMMA OwnStep == TypeOK /\ OwnInv /\ [Next]_vars => OwnInv'
<1> SUFFICES ASSUME TypeOK, OwnInv, [Next]_vars
             PROVE  OwnInv'
  OBVIOUS
<1>0. \A c \in Clients : ~At(c, "idle") => /\ req[c] \in Requests /\ req[c].op \in Ops
                                          /\ Regular(req[c]) /\ Theirs(req[c])
  BY InProgress DEF OwnInv, Requests
<1>1. CASE Tick \/ UNCHANGED vars
  BY <1>1 DEF Tick, vars, OwnInv, At, Theirs
<1>2. ASSUME NEW x \in Replicas, Restart(x)
      PROVE  OwnInv'
  <2>1. UNCHANGED events /\ \A c \in Clients : req'[c] = req[c] \/ req'[c] = Idle
    BY <1>2 DEF Restart
  <2> QED
    BY <2>1, IdleStage DEF OwnInv, At, Theirs
<1>3. ASSUME NEW c \in Clients, AskSomething(c)
      PROVE  OwnInv'
  <2>1. PICK q \in Requests :
          /\ req' = [req EXCEPT ![c] = q] /\ q.stage = FirstStage[q.op]
          /\ q.op \in {"admin", "rotate", "upsert"} \/ q.scope = Admin
    BY <1>3, AskIs
  <2>2. q.op \in Ops
    BY DEF Requests
  <2>3. Regular(q)
    BY <2>1, <2>2 DEF Regular, Ops, FirstStage, StagesOf
  <2>4. Theirs(q)'
    BY <2>1, <2>2, DeskAssumption DEF Theirs, Ops, FirstStage
  <2>5. EventsKept
    BY <1>3, AskIs DEF EventsKept
  <2> QED
    BY <2>1, <2>3, <2>4, <2>5, OwnOne
<1>4. ASSUME NEW c \in Clients,
             \/ Fail(c) \/ Decide(c) \/ AssertOwner(c) \/ OpenList(c) \/ GiveList(c) \/ CheckIn(c)
             \/ Lookup(c) \/ GetEvent(c) \/ Store(c)
      PROVE  OwnInv'
  <2>1. ~At(c, "idle") /\ UNCHANGED events
    BY <1>4 DEF Fail, Decide, AssertOwner, OpenList, GiveList, CheckIn, Lookup, GetEvent, Store, At
  <2>2. /\ req[c] \in Requests /\ req[c].op \in Ops
        /\ req[c].stage \in StagesOf[req[c].op]
        /\ req[c].op \in {"admin", "rotate", "upsert"} \/ req[c].scope = Admin
    BY <1>0, <2>1 DEF Regular
  <2>3. CASE Answer(c)
    BY <2>1, <2>3, OwnGo
  <2>4. CASE At(c, "decide") /\ Go(c, "insert")
    <3>1. "insert" \in StagesOf[req[c].op] /\ "insert" \in Stages
      BY <2>2, <2>4 DEF At, Ops, StagesOf, Stages
    <3> QED
      BY <2>1, <2>4, <3>1, OwnGo
  <2>5. CASE /\ At(c, "assert") /\ Go(c, "open")
             /\ req[c].scope = Admin \/ Owned(req[c].slug, req[c].scope)
    <3>1. "open" \in StagesOf[req[c].op] /\ "open" \in Stages
      BY <2>2, <2>5 DEF At, Ops, StagesOf, Stages
    <3> QED
      BY <2>1, <2>5, <3>1, OwnGo
  <2>6. CASE At(c, "open") /\ Go(c, "rows")
    <3>1. "rows" \in StagesOf[req[c].op] /\ "rows" \in Stages
      BY <2>2, <2>6 DEF At, Ops, StagesOf, Stages
    <3> QED
      BY <2>1, <2>6, <3>1, OwnGo
  <2>7. CASE At(c, "lookup") /\ Go(c, "select")
    <3>1. "select" \in StagesOf[req[c].op] /\ "select" \in Stages
      BY <2>2, <2>7 DEF At, Ops, StagesOf, Stages
    <3> QED
      BY <2>1, <2>7, <3>1, OwnGo
  <2>8. CASE At(c, "store") /\ req[c].op # "page" /\ Go(c, "decide")
    <3>1. "decide" \in StagesOf[req[c].op] /\ "decide" \in Stages
      BY <2>2, <2>8 DEF At, Ops, StagesOf, Stages
    <3> QED
      BY <2>1, <2>8, <3>1, OwnGo
  <2>13. CASE At(c, "write") /\ req[c].op = "checkin" /\ Go(c, "ticket")
    <3>1. "ticket" \in StagesOf[req[c].op] /\ "ticket" \in Stages
      BY <2>2, <2>13 DEF At, Ops, StagesOf, Stages
    <3> QED
      BY <2>1, <2>13, <3>1, OwnGo
  (* A configuration is out of the cache or the table. *)
  <2>9. ASSUME NEW q, req' = [req EXCEPT ![c] = q], Continues(q, c),
               \/ At(c, "lookup") /\ q.stage = "decide" /\ req[c].op # "page"
               \/ At(c, "select") /\ q.stage = "store"
        PROVE  OwnInv'
    <3>1. q.op = req[c].op /\ q.scope = req[c].scope
      BY <2>9 DEF Continues
    <3>2. Regular(q) /\ Theirs(q)' /\ EventsKept
      BY <2>1, <2>2, <2>9, <3>1 DEF Regular, Theirs, EventsKept, At, Ops, StagesOf
    <3> QED
      BY <2>9, <3>2, OwnOne
  <2>10. CASE Fail(c) \/ Decide(c) \/ AssertOwner(c) \/ OpenList(c) \/ GiveList(c) \/ CheckIn(c) \/ Store(c)
    BY <2>3, <2>4, <2>5, <2>6, <2>8, <2>10, <2>13
       DEF Fail, Decide, AssertOwner, OpenList, GiveList, CheckIn, Store
  <2>11. CASE Lookup(c)
    <3>1. At(c, "lookup") /\ (Answer(c) \/ Go(c, "select") \/ req[c].op # "page")
      BY <2>11 DEF Lookup
    <3> QED
      BY <2>3, <2>7, <2>9, <2>11, <3>1, LookupIs
  <2>12. CASE GetEvent(c)
    <3>1. At(c, "select")
      BY <2>12 DEF GetEvent
    <3> QED
      BY <2>3, <2>9, <2>12, <3>1, GetEventIs
  <2> QED
    BY <1>4, <2>10, <2>11, <2>12
<1>5. ASSUME NEW c \in Clients, Drop(c)
      PROVE  OwnInv'
  <2> SUFFICES ASSUME NEW d \in Clients, ~At(d, "idle")'
               PROVE  Regular(req'[d]) /\ Theirs(req[d])'
    BY DEF OwnInv, Regular
  <2>1. d # c /\ UNCHANGED events
    BY <1>5, DropIs, IdleStage DEF At
  <2>2. CASE req'[d] = req[d]
    BY <1>0, <2>1, <2>2 DEF At, Theirs
  <2>3. CASE At(d, "store") /\ req[d] \in Requests /\ req'[d] = [req[d] EXCEPT !.late = TRUE]
    <3>1. /\ req'[d].op = req[d].op /\ req'[d].stage = req[d].stage
          /\ req'[d].scope = req[d].scope /\ req[d].stage = "store"
      BY <2>3 DEF Requests, At
    <3>2. Regular(req[d])
      BY <1>0, <3>1 DEF At
    <3> QED
      BY <3>1, <3>2 DEF Regular, Theirs
  <2> QED
    BY <1>5, <2>1, <2>2, <2>3, DropIs
<1>6. ASSUME NEW c \in Clients, Register(c) \/ UpsertEvent(c) \/ SetManageKey(c) \/ GetTicket(c)
      PROVE  OwnInv'
  <2>1. ~At(c, "idle") /\ Leaves(c)
    BY <1>6, WritesAre
  <2>2. PICK q : req' = [req EXCEPT ![c] = q] /\ (q = Idle \/ (Continues(q, c) /\ q.stage = "drop"))
    BY <2>1 DEF Leaves
  <2>3. /\ req[c] \in Requests /\ req[c].op \in Ops /\ req[c].slug \in Slugs
        /\ req[c].stage \in StagesOf[req[c].op]
        /\ req[c].op \in {"admin", "rotate", "upsert"} \/ req[c].scope = Admin
    BY <1>0, <2>1, Same DEF Regular
  <2>4. \A s \in Slugs : events[s] \in Rows
    BY DEF TypeOK
  <2>5. EventsKept
    <3>1. CASE Register(c) \/ GetTicket(c)
      BY <3>1 DEF Register, GetTicket, EventsKept
    <3>2. CASE UpsertEvent(c)
      <4>1. LET u == Updated(req[c].slug, req[c]) IN
              events[req[c].slug].exists => u.exists /\ u.owner = events[req[c].slug].owner
        BY <2>3, <2>4 DEF Updated, Rows
      <4>2. \A s \in Slugs : \/ events'[s] = events[s]
                             \/ /\ s = req[c].slug
                                /\ events[s].exists => events'[s] = Updated(s, req[c])
        BY <3>2 DEF UpsertEvent, TypeOK
      <4> QED
        BY <4>1, <4>2 DEF EventsKept
    <3>3. CASE SetManageKey(c)
      <4>1. \A s \in Slugs : \/ events'[s] = events[s]
                             \/ events'[s] = [events[s] EXCEPT !.key = req[c].key]
        BY <3>3 DEF SetManageKey, TypeOK
      <4>2. \A s \in Slugs : LET r == [events[s] EXCEPT !.key = req[c].key] IN
              r.exists = events[s].exists /\ r.owner = events[s].owner
        BY <2>4 DEF Rows
      <4> QED
        BY <4>1, <4>2 DEF EventsKept
    <3> QED
      BY <1>6, <3>1, <3>2, <3>3
  <2>6. CASE q = Idle
    BY <2>2, <2>5, <2>6, OwnOne
  <2>7. CASE Continues(q, c) /\ q.stage = "drop"
    <3>1. q.op = req[c].op /\ q.scope = req[c].scope /\ q.slug = req[c].slug
      BY <2>7 DEF Continues
    <3>2. ~Answer(c)
      BY <2>2, <2>3, <2>7, IdleStage DEF Answer, TypeOK
    <3>3. req[c].op \in {"register", "checkin", "upsert"}
      BY <1>6, <2>3, <3>2 DEF Register, UpsertEvent, SetManageKey, GetTicket, At, Ops, StagesOf
    <3>4. Regular(q)
      BY <2>3, <2>7, <3>1, <3>3 DEF Regular, StagesOf
    <3>5. ASSUME q.scope \in Owners
          PROVE  events'[q.slug].exists /\ events'[q.slug].owner = q.scope
      <4>1. req[c].op = "upsert" /\ req[c].scope # Admin
        BY <2>3, <3>1, <3>3, <3>5, DeskAssumption
      <4>2. UpsertEvent(c)
        BY <1>6, <2>3, <4>1 DEF Register, SetManageKey, GetTicket, At, StagesOf
      <4>3. /\ events[q.slug].exists => events[q.slug].owner = q.scope
            /\ events' = [events EXCEPT ![q.slug] =
                 IF events[q.slug].exists THEN Updated(q.slug, req[c]) ELSE Created(req[c])]
        BY <3>1, <3>2, <4>1, <4>2 DEF UpsertEvent, Owned
      <4>4. q.slug \in Slugs /\ events \in [Slugs -> Rows]
        BY <2>3, <3>1 DEF TypeOK
      <4>5. events'[q.slug] =
              IF events[q.slug].exists THEN Updated(q.slug, req[c]) ELSE Created(req[c])
        BY <4>3, <4>4
      <4>6. CASE events[q.slug].exists
        BY <2>5, <4>3, <4>4, <4>6 DEF EventsKept
      <4>7. CASE ~events[q.slug].exists
        BY <3>1, <4>5, <4>7 DEF Created
      <4> QED
        BY <4>6, <4>7
    <3>6. Theirs(q)'
      BY <3>5 DEF Theirs
    <3> QED
      BY <2>2, <2>5, <3>4, <3>6, OwnOne
  <2> QED
    BY <2>2, <2>6, <2>7
<1> QED
  BY <1>1, <1>2, <1>3, <1>4, <1>5, <1>6 DEF Next

(* The event an organizer was let into, or has just saved, is still theirs   *)
(* when the answer is put together (repository.go:290-302, 397-404).        *)
THEOREM OwnersKeep == Spec => []OwnersKeepTheirEvents
<1>1. Init => OwnInv
  BY IdleStage DEF Init, OwnInv, At
<1>2. OwnInv => OwnersKeepTheirEvents
  BY DEF OwnInv, Theirs, OwnersKeepTheirEvents, At
<1> QED
  BY <1>1, <1>2, Typing, OwnStep, PTL DEF Spec

-----------------------------------------------------------------------------
(* Configurations that are served are recent.                               *)

(* The revision was the row's at an instant, or has been since. *)
Seen(s, rev, instant) == rev = Len(ended[s]) \/ instant <= ended[s][rev + 1]

(* A history that grows keeps what has been seen by now. *)
LEMMA SeenStays ==
  ASSUME TypeOK, Grown, NEW s \in Slugs, NEW rev \in Nat, rev <= Len(ended[s]),
         NEW instant \in Int, instant <= now, Seen(s, rev, instant)
  PROVE  rev = Len(ended'[s]) \/ instant <= ended'[s][rev + 1]
<1>1. ended[s] \in Seq(Nat) /\ now \in Nat /\ Len(ended[s]) \in Nat
  BY DEF TypeOK
<1>2. CASE ended'[s] = ended[s]
  BY <1>2 DEF Seen
<1>3. CASE ended'[s] = Append(ended[s], now)
  <2>1. CASE rev = Len(ended[s])
    BY <1>1, <1>3, <2>1
  <2>2. CASE rev # Len(ended[s])
    <3>1. rev + 1 \in 1..Len(ended[s])
      BY <1>1, <2>2
    <3>2. ended'[s][rev + 1] = ended[s][rev + 1]
      BY <1>1, <1>3, <3>1
    <3> QED
      BY <2>2, <3>2 DEF Seen
  <2> QED
    BY <2>1, <2>2
<1> QED
  BY <1>2, <1>3 DEF Grown

(* Requests end in time. *)
InTime(q) == q.since <= now /\ now <= q.since + MaxRequest

(* The instant a request knows its revision to be of. *)
Instant(q) == IF q.stage = "store" THEN q.since ELSE q.since - TTL - MaxRequest + 1

Informed(q) ==
  q.stage \in {"store", "decide", "insert"} => Seen(q.slug, q.rev, Instant(q))

EntryRecent(x, s) ==
  cache[x][s].held =>
    /\ cache[x][s].exp <= now + TTL
    /\ Seen(s, cache[x][s].rev, cache[x][s].exp - TTL - MaxRequest)

RecentInv ==
  /\ \A x \in Replicas, s \in Slugs : EntryRecent(x, s)
  /\ \A c \in Clients : ~At(c, "idle") => InTime(req[c]) /\ Informed(req[c])

LEMMA InstantPast ==
  ASSUME TypeOK, NEW q \in Requests, q.since <= now
  PROVE  Instant(q) \in Int /\ Instant(q) <= now
BY DeskAssumption DEF Instant, TypeOK, Requests

(* What requests and entries know does not become wrong as histories grow.  *)
LEMMA EntriesStay ==
  ASSUME TypeOK, RecentInv, Grown, now' \in Nat, now <= now',
         NEW x \in Replicas, NEW s \in Slugs,
         cache'[x][s] = cache[x][s] \/ cache'[x][s] = NoEntry
  PROVE  EntryRecent(x, s)'
<1>1. CASE cache'[x][s] = NoEntry
  BY <1>1 DEF EntryRecent, NoEntry
<1>2. CASE cache'[x][s] = cache[x][s] /\ cache[x][s].held
  <2>1. /\ cache[x][s].exp \in Nat /\ cache[x][s].rev \in Nat /\ now \in Nat
        /\ cache[x][s].rev <= Len(ended[s])
    BY DEF TypeOK, Entries, Rev
  <2>2. /\ cache[x][s].exp <= now + TTL
        /\ Seen(s, cache[x][s].rev, cache[x][s].exp - TTL - MaxRequest)
    BY <1>2 DEF RecentInv, EntryRecent
  <2>3. DEFINE n == cache[x][s].exp - TTL - MaxRequest
  <2>4. n \in Int /\ n <= now /\ Seen(s, cache[x][s].rev, n)
    BY <2>1, <2>2, DeskAssumption
  <2> HIDE DEF n
  <2>5. cache[x][s].rev = Len(ended'[s]) \/ n <= ended'[s][cache[x][s].rev + 1]
    BY <2>1, <2>4, SeenStays
  <2>6. cache[x][s].exp <= now' + TTL
    BY <2>1, <2>2, DeskAssumption
  <2> QED
    BY <1>2, <2>5, <2>6 DEF EntryRecent, Seen, n
<1> QED
  BY <1>1, <1>2 DEF EntryRecent

LEMMA RequestStays ==
  ASSUME TypeOK, RecentInv, Grown, now' \in Nat, NEW d \in Clients, ~At(d, "idle"),
         now' = now \/ (now' = now + 1 /\ now < req[d].since + MaxRequest),
         NEW q \in Requests, q.since = req[d].since, q.slug = req[d].slug,
         q.rev = req[d].rev, q.stage = req[d].stage
  PROVE  (InTime(q) /\ Informed(q))'
<1>1. /\ InTime(req[d]) /\ Informed(req[d]) /\ now \in Nat
      /\ q.slug \in Slugs /\ q.rev \in Nat /\ q.since \in Nat /\ q.rev <= Len(ended[q.slug])
  BY Same DEF RecentInv, TypeOK, Requests
<1>2. InTime(q)'
  BY <1>1, DeskAssumption DEF InTime
<1>3. Instant(q) = Instant(req[d])
  BY DEF Instant
<1>4. Instant(q) \in Int /\ Instant(q) <= now
  BY <1>1, InstantPast DEF InTime
<1>5. ASSUME q.stage \in {"store", "decide", "insert"}
      PROVE  q.rev = Len(ended'[q.slug]) \/ Instant(q) <= ended'[q.slug][q.rev + 1]
  <2>1. Seen(q.slug, q.rev, Instant(q))
    BY <1>1, <1>3, <1>5 DEF Informed
  <2> QED
    BY <1>1, <1>4, <2>1, SeenStays
<1>6. Informed(q)'
  BY <1>5 DEF Informed, Seen, Instant
<1> QED
  BY <1>2, <1>6

LEMMA RecentOne ==
  ASSUME TypeOK, RecentInv, Grown, UNCHANGED now, NEW c \in Clients, NEW q,
         req' = [req EXCEPT ![c] = q],
         q = Idle \/ (InTime(q) /\ Informed(q))',
         \A x \in Replicas, s \in Slugs : EntryRecent(x, s)'
  PROVE  RecentInv'
<1> SUFFICES ASSUME NEW d \in Clients, ~At(d, "idle")'
             PROVE  (InTime(req[d]) /\ Informed(req[d]))'
  BY DEF RecentInv
<1>0. req \in [Clients -> Requests \union {Idle}] /\ now' \in Nat
  BY DEF TypeOK
<1>1. CASE d = c
  <2>1. req'[d] = q /\ q # Idle
    BY <1>0, <1>1, IdleStage DEF At
  <2> QED
    BY <2>1 DEF InTime, Informed, Seen, Instant
<1>2. CASE d # c
  <2>1. req'[d] = req[d] /\ ~At(d, "idle")
    BY <1>0, <1>2 DEF At
  <2>2. req[d] \in Requests
    BY <2>1, InProgress
  <2>3. PICK r \in Requests : r = req[d]
    BY <2>2
  <2>4. (InTime(r) /\ Informed(r))'
    BY <1>0, <2>1, <2>3, RequestStays
  <2>5. req'[d] = r
    BY <2>1, <2>3
  <2> QED
    BY <2>4, <2>5 DEF InTime, Informed, Seen, Instant
<1> QED
  BY <1>1, <1>2

(* What is seen at an instant is seen at an earlier one. *)
LEMMA SeenEarlier ==
  ASSUME TypeOK, NEW s \in Slugs, NEW rev \in Nat, rev <= Len(ended[s]),
         NEW instant \in Int, NEW earlier \in Int, earlier <= instant, Seen(s, rev, instant)
  PROVE  Seen(s, rev, earlier)
<1>1. ended[s] \in Seq(Nat) /\ Len(ended[s]) \in Nat
  BY DEF TypeOK
<1>2. CASE rev # Len(ended[s])
  <2>1. rev + 1 \in 1..Len(ended[s])
    BY <1>1, <1>2
  <2>2. ended[s][rev + 1] \in Nat
    BY <1>1, <2>1
  <2> QED
    BY <1>2, <2>2 DEF Seen
<1> QED
  BY <1>2 DEF Seen

(* A request goes on in memory: only its stage, and what it has looked up,  *)
(* change.                                                                  *)
LEMMA RecentMove ==
  ASSUME TypeOK, RecentInv, UNCHANGED <<now, ended, cache>>, NEW c \in Clients, ~At(c, "idle"),
         NEW q, req' = [req EXCEPT ![c] = q],
         q = Idle \/ (Continues(q, c) /\ Informed(q))
  PROVE  RecentInv'
<1>1. Grown /\ now \in Nat
  BY DEF Grown, TypeOK
<1>2. \A x \in Replicas, s \in Slugs : EntryRecent(x, s)'
  BY DEF RecentInv, EntryRecent, Seen
<1>3. ASSUME Continues(q, c), Informed(q)
      PROVE  (InTime(q) /\ Informed(q))'
  <2>1. InTime(req[c]) /\ q.since = req[c].since
    BY <1>3 DEF RecentInv, Continues
  <2> QED
    BY <1>3, <2>1 DEF InTime, Informed, Seen, Instant
<1> QED
  BY <1>1, <1>2, <1>3, RecentOne

LEMMA RecentStep == TypeOK /\ TypeOK' /\ RecentInv /\ [Next]_vars => RecentInv'
<1> SUFFICES ASSUME TypeOK, TypeOK', RecentInv, [Next]_vars
             PROVE  RecentInv'
  OBVIOUS
<1>0. now \in Nat /\ now' \in Nat
  BY DEF TypeOK
<1>1. CASE Tick
  <2>1. now' = now + 1 /\ UNCHANGED <<ended, cache, req>> /\ Grown
    BY <1>1 DEF Tick, Grown
  <2>2. \A x \in Replicas, s \in Slugs : EntryRecent(x, s)'
    BY <1>0, <2>1, EntriesStay
  <2>3. ASSUME NEW d \in Clients, ~At(d, "idle")'
        PROVE  (InTime(req[d]) /\ Informed(req[d]))'
    <3>1. ~At(d, "idle") /\ now < req[d].since + MaxRequest
      BY <1>1, <2>1, <2>3 DEF Tick, At
    <3>2. PICK r \in Requests : r = req[d]
      BY <3>1, InProgress
    <3>3. (InTime(r) /\ Informed(r))'
      BY <1>0, <2>1, <3>1, <3>2, RequestStays
    <3> QED
      BY <2>1, <3>2, <3>3 DEF InTime, Informed, Seen, Instant
  <2> QED
    BY <2>2, <2>3 DEF RecentInv
<1>2. ASSUME NEW x \in Replicas, Restart(x)
      PROVE  RecentInv'
  <2>1. /\ UNCHANGED <<now, ended>> /\ Grown
        /\ \A y \in Replicas, s \in Slugs : cache'[y][s] = cache[y][s] \/ cache'[y][s] = NoEntry
        /\ \A c \in Clients : req'[c] = req[c] \/ req'[c] = Idle
    BY <1>2 DEF Restart, Grown, TypeOK
  <2>2. \A y \in Replicas, s \in Slugs : EntryRecent(y, s)'
    BY <1>0, <2>1, EntriesStay
  <2>3. ASSUME NEW d \in Clients, ~At(d, "idle")'
        PROVE  (InTime(req[d]) /\ Informed(req[d]))'
    <3>1. req'[d] = req[d] /\ ~At(d, "idle")
      BY <2>1, <2>3, IdleStage DEF At
    <3>2. InTime(req[d]) /\ Informed(req[d])
      BY <3>1 DEF RecentInv
    <3> QED
      BY <2>1, <3>1, <3>2 DEF InTime, Informed, Seen, Instant
  <2> QED
    BY <2>2, <2>3 DEF RecentInv
<1>3. ASSUME NEW c \in Clients, AskSomething(c)
      PROVE  RecentInv'
  <2>1. PICK q \in Requests :
          req' = [req EXCEPT ![c] = q] /\ q.since = now /\ q.stage = FirstStage[q.op]
    BY <1>3, AskIs
  <2>2. UNCHANGED <<now, events, ended, cache>> /\ Grown
    BY <1>3, AskIs DEF Grown
  <2>3. q.op \in Ops
    BY DEF Requests
  <2>4. q.stage \notin {"store", "decide", "insert"}
    BY <2>1, <2>3 DEF Ops, FirstStage
  <2>5. (InTime(q) /\ Informed(q))'
    BY <1>0, <2>1, <2>2, <2>4, DeskAssumption DEF InTime, Informed
  <2>6. \A x \in Replicas, s \in Slugs : EntryRecent(x, s)'
    BY <1>0, <2>2, EntriesStay
  <2> QED
    BY <2>1, <2>2, <2>5, <2>6, RecentOne
<1>4. ASSUME NEW c \in Clients, ~At(c, "idle"), UNCHANGED <<now, ended, cache>>,
             \/ Answer(c) \/ Go(c, "select") \/ Go(c, "open") \/ Go(c, "rows") \/ Go(c, "ticket")
             \/ At(c, "decide") /\ Go(c, "insert")
      PROVE  RecentInv'
  <2>1. CASE Answer(c)
    BY <1>4, <2>1, RecentMove DEF Answer
  <2>2. ASSUME NEW st \in {"select", "open", "rows", "ticket"}, Go(c, st)
        PROVE  RecentInv'
    <3>1. st \in Stages
      BY DEF Stages
    <3>2. PICK q : req' = [req EXCEPT ![c] = q] /\ Continues(q, c) /\ q.stage = st
      BY <1>4, <2>2, <3>1, GoIs
    <3>3. Informed(q)
      BY <3>2 DEF Informed
    <3> QED
      BY <1>4, <3>2, <3>3, RecentMove
  <2>3. CASE At(c, "decide") /\ Go(c, "insert")
    <3>1. PICK q : /\ req' = [req EXCEPT ![c] = q] /\ Continues(q, c)
                   /\ q.stage = "insert" /\ q.rev = req[c].rev
      BY <1>4, <2>3, GoIs DEF Stages
    <3>2. Informed(req[c]) /\ q.since = req[c].since /\ q.slug = req[c].slug
      BY <1>4, <3>1 DEF RecentInv, Continues
    <3>3. Informed(q)
      BY <2>3, <3>1, <3>2 DEF Informed, Instant, At
    <3> QED
      BY <1>4, <3>1, <3>3, RecentMove
  <2> QED
    BY <1>4, <2>1, <2>2, <2>3
<1>5. ASSUME NEW c \in Clients, Fail(c) \/ Decide(c) \/ AssertOwner(c) \/ OpenList(c) \/ GiveList(c) \/ CheckIn(c)
      PROVE  RecentInv'
  <2>1. /\ ~At(c, "idle") /\ UNCHANGED <<now, ended, cache>>
        /\ \/ Answer(c) \/ Go(c, "open") \/ Go(c, "rows") \/ Go(c, "ticket")
           \/ At(c, "decide") /\ Go(c, "insert")
    BY <1>5 DEF Fail, Decide, AssertOwner, OpenList, GiveList, CheckIn, At
  <2> QED
    BY <1>4, <2>1
<1>6. ASSUME NEW c \in Clients, Lookup(c)
      PROVE  RecentInv'
  <2>1. ~At(c, "idle") /\ UNCHANGED <<now, ended, cache>>
    BY <1>6, LookupIs
  <2>2. ASSUME NEW q, req' = [req EXCEPT ![c] = q], Continues(q, c), q.stage = "decide",
               q.rev = Entry(c).rev, Fresh(req[c].at, req[c].slug)
        PROVE  RecentInv'
    <3>1. /\ req[c].at \in Replicas /\ req[c].slug \in Slugs
          /\ q.slug = req[c].slug /\ q.since = req[c].since /\ q.since \in Nat
          /\ InTime(req[c])
      BY <2>1, <2>2, Same DEF Continues, RecentInv, Requests
    <3>2. DEFINE e == Entry(c)
    <3>3. /\ e.rev \in Nat /\ e.exp \in Nat /\ e.rev <= Len(ended[q.slug])
          /\ now < e.exp /\ Seen(q.slug, e.rev, e.exp - TTL - MaxRequest)
      BY <2>2, <3>1 DEF Entry, Entries, TypeOK, Fresh, RecentInv, EntryRecent, Rev
    <3> HIDE DEF e
    <3>4. DEFINE n == e.exp - TTL - MaxRequest
                 m == q.since - TTL - MaxRequest + 1
    <3>5. n \in Int /\ m \in Int /\ m <= n
      <4>1. q.since <= now /\ TTL \in Nat /\ MaxRequest \in Nat
        BY <3>1, DeskAssumption DEF InTime
      <4>2. q.since + 1 <= e.exp
        BY <1>0, <3>1, <3>3, <4>1
      <4> QED
        BY <3>1, <3>3, <4>1, <4>2
    <3>6. Seen(q.slug, e.rev, n)
      BY <3>3
    <3> HIDE DEF n, m
    <3>7. Seen(q.slug, e.rev, m)
      BY <3>1, <3>3, <3>5, <3>6, SeenEarlier
    <3>8. q.rev = e.rev /\ Instant(q) = m
      BY <2>2 DEF e, m, Instant
    <3>9. Informed(q)
      BY <3>7, <3>8 DEF Informed
    <3> QED
      BY <2>1, <2>2, <3>9, RecentMove
  <2> QED
    BY <1>4, <1>6, <2>1, <2>2, LookupIs
<1>7. ASSUME NEW c \in Clients, GetEvent(c)
      PROVE  RecentInv'
  <2>1. ~At(c, "idle") /\ UNCHANGED <<now, ended, cache>>
    BY <1>7, GetEventIs
  <2>2. ASSUME NEW q, req' = [req EXCEPT ![c] = q], Continues(q, c), q.rev = Rev(req[c].slug)
        PROVE  RecentInv'
    <3>1. Informed(q)
      BY <2>2 DEF Continues, Informed, Seen, Rev
    <3> QED
      BY <2>1, <2>2, <3>1, RecentMove
  <2> QED
    BY <1>4, <1>7, <2>1, <2>2, GetEventIs
<1>8. ASSUME NEW c \in Clients, Store(c)
      PROVE  RecentInv'
  <2>1. /\ ~At(c, "idle") /\ UNCHANGED <<now, ended>> /\ Grown /\ At(c, "store")
        /\ Answer(c) \/ Go(c, "decide")
    BY <1>8, StoreIs DEF Grown, Store
  <2>2. /\ InTime(req[c]) /\ Seen(req[c].slug, req[c].rev, req[c].since)
        /\ req[c].since \in Nat /\ req[c].rev \in Nat /\ req[c].slug \in Slugs
        /\ req[c].rev <= Len(ended[req[c].slug])
    BY <2>1, Same, InProgress DEF RecentInv, Informed, Instant, At, Requests
  <2>3. ASSUME NEW x \in Replicas, NEW s \in Slugs
        PROVE  EntryRecent(x, s)'
    <3>1. CASE cache'[x][s] = cache[x][s] \/ cache'[x][s] = NoEntry
      BY <1>0, <2>1, <3>1, EntriesStay
    <3>2. CASE /\ s = req[c].slug /\ cache'[x][s].rev = req[c].rev
               /\ cache'[x][s].exp = now + TTL
      <4>1. DEFINE m == cache'[x][s].exp - TTL - MaxRequest
      <4>2. m \in Int /\ m <= req[c].since
        BY <1>0, <2>2, <3>2, DeskAssumption DEF InTime
      <4> HIDE DEF m
      <4>3. Seen(req[c].slug, req[c].rev, m)
        BY <2>2, <4>2, SeenEarlier
      <4>4. Seen(s, cache'[x][s].rev, cache'[x][s].exp - TTL - MaxRequest)
        BY <3>2, <4>3, Zenon DEF m
      <4>5. cache'[x][s].exp <= now' + TTL
        BY <1>0, <2>1, <3>2, DeskAssumption
      <4> QED
        BY <2>1, <4>4, <4>5 DEF EntryRecent, Seen
    <3> QED
      BY <1>8, <3>1, <3>2, StoreIs
  <2>4. CASE Answer(c)
    BY <2>1, <2>3, <2>4, RecentOne DEF Answer
  <2>5. CASE Go(c, "decide")
    <3>1. PICK q : /\ req' = [req EXCEPT ![c] = q] /\ Continues(q, c)
                   /\ q.stage = "decide" /\ q.rev = req[c].rev
      BY <2>1, <2>5, GoIs DEF Stages
    <3>2. q.slug = req[c].slug /\ q.since = req[c].since
      BY <3>1 DEF Continues
    <3>3. DEFINE m == req[c].since - TTL - MaxRequest + 1
    <3>4. m \in Int /\ m <= req[c].since
      BY <2>2, DeskAssumption
    <3> HIDE DEF m
    <3>5. Seen(req[c].slug, req[c].rev, m)
      BY <2>2, <3>4, SeenEarlier
    <3>6. Instant(q) = m
      BY <3>1, <3>2 DEF Instant, m
    <3>7. (InTime(q) /\ Informed(q))'
      BY <2>1, <2>2, <3>1, <3>2, <3>5, <3>6 DEF InTime, Informed, Seen, Instant
    <3> QED
      BY <2>1, <2>3, <3>1, <3>7, RecentOne
  <2> QED
    BY <2>1, <2>4, <2>5
<1>9. ASSUME NEW c \in Clients, Drop(c)
      PROVE  RecentInv'
  <2>1. UNCHANGED <<now, ended>> /\ Grown
    BY <1>9, DropIs DEF Grown
  <2>2. ASSUME NEW x \in Replicas, NEW s \in Slugs
        PROVE  EntryRecent(x, s)'
    <3>1. cache'[x][s] = cache[x][s] \/ cache'[x][s] = NoEntry
      BY <1>9, DropIs
    <3> QED
      BY <1>0, <2>1, <3>1, EntriesStay
  <2>3. ASSUME NEW d \in Clients, ~At(d, "idle")'
        PROVE  (InTime(req[d]) /\ Informed(req[d]))'
    <3>1. d # c
      BY <1>9, <2>3, DropIs, IdleStage DEF At
    <3>2. CASE req'[d] = req[d]
      <4>1. InTime(req[d]) /\ Informed(req[d])
        BY <2>3, <3>2 DEF RecentInv, At
      <4> QED
        BY <2>1, <3>2, <4>1 DEF InTime, Informed, Seen, Instant
    <3>3. CASE At(d, "store") /\ req[d] \in Requests /\ req'[d] = [req[d] EXCEPT !.late = TRUE]
      <4>1. InTime(req[d]) /\ Informed(req[d])
        BY <3>3 DEF RecentInv, At
      <4>2. /\ req'[d].since = req[d].since /\ req'[d].slug = req[d].slug
            /\ req'[d].rev = req[d].rev /\ req'[d].stage = req[d].stage
        BY <3>3 DEF Requests
      <4> QED
        BY <2>1, <4>1, <4>2 DEF InTime, Informed, Seen, Instant
    <3> QED
      BY <1>9, <3>1, <3>2, <3>3, DropIs
  <2> QED
    BY <2>2, <2>3 DEF RecentInv
<1>10. ASSUME NEW c \in Clients, Register(c) \/ UpsertEvent(c) \/ SetManageKey(c) \/ GetTicket(c)
       PROVE  RecentInv'
  <2>1. UNCHANGED <<now, cache>> /\ ~At(c, "idle") /\ Leaves(c)
    BY <1>10, WritesAre
  <2>2. PICK q : req' = [req EXCEPT ![c] = q] /\ (q = Idle \/ (Continues(q, c) /\ q.stage = "drop"))
    BY <2>1 DEF Leaves
  <2>3. Grown
    BY <2>1 DEF Leaves
  <2>4. \A x \in Replicas, s \in Slugs : EntryRecent(x, s)'
    BY <1>0, <2>1, <2>3, EntriesStay
  <2>5. ASSUME Continues(q, c), q.stage = "drop"
        PROVE  (InTime(q) /\ Informed(q))'
    <3>1. InTime(req[c]) /\ q.since = req[c].since
      BY <2>1, <2>5 DEF RecentInv, Continues
    <3> QED
      BY <2>1, <2>5, <3>1 DEF InTime, Informed
  <2> QED
    BY <2>1, <2>2, <2>3, <2>4, <2>5, RecentOne
<1>11. CASE UNCHANGED vars
  BY <1>11 DEF vars, RecentInv, EntryRecent, InTime, Informed, Seen, Instant, At
<1> QED
  BY <1>1, <1>2, <1>3, <1>5, <1>6, <1>7, <1>8, <1>9, <1>10, <1>11 DEF Next

LEMMA RecentEnough == TypeOK /\ RecentInv => ServedConfigsAreRecent
<1> SUFFICES ASSUME TypeOK, RecentInv
             PROVE  ServedConfigsAreRecent
  OBVIOUS
<1>0. now \in Nat
  BY DEF TypeOK
<1>1. ASSUME NEW x \in Replicas, NEW s \in Slugs, Fresh(x, s)
      PROVE  Within(s, cache[x][s].rev, TTL + MaxRequest)
  <2>1. DEFINE e == cache[x][s]
  <2>2. /\ e.rev \in Nat /\ e.exp \in Nat /\ now < e.exp /\ e.rev <= Len(ended[s])
        /\ Seen(s, e.rev, e.exp - TTL - MaxRequest)
    BY <1>1 DEF TypeOK, Entries, Fresh, RecentInv, EntryRecent, Rev
  <2> HIDE DEF e
  <2>3. CASE e.rev # Len(ended[s])
    <3>1. ended[s] \in Seq(Nat) /\ e.rev + 1 \in 1..Len(ended[s])
      BY <2>2, <2>3 DEF TypeOK
    <3>2. ended[s][e.rev + 1] \in Nat
      BY <3>1
    <3>3. e.exp - TTL - MaxRequest <= ended[s][e.rev + 1]
      BY <2>2, <2>3 DEF Seen
    <3>4. now < ended[s][e.rev + 1] + (TTL + MaxRequest)
      BY <1>0, <2>2, <3>2, <3>3, DeskAssumption
    <3> QED
      BY <3>4 DEF Within, e
  <2> QED
    BY <2>3 DEF Within, Rev, e
<1>2. ASSUME NEW c \in Clients, At(c, "decide") \/ At(c, "insert")
      PROVE  Within(req[c].slug, req[c].rev, TTL + 2 * MaxRequest)
  <2>1. ~At(c, "idle")
    BY <1>2 DEF At
  <2>2. /\ req[c].slug \in Slugs /\ req[c].rev \in Nat /\ req[c].since \in Nat
        /\ req[c].rev <= Len(ended[req[c].slug])
        /\ now <= req[c].since + MaxRequest
        /\ Seen(req[c].slug, req[c].rev, req[c].since - TTL - MaxRequest + 1)
    BY <1>2, <2>1, Same, InProgress DEF RecentInv, Informed, Instant, InTime, At, Requests
  <2>3. DEFINE s == req[c].slug
               rev == req[c].rev
  <2>4. CASE rev # Len(ended[s])
    <3>1. ended[s] \in Seq(Nat) /\ rev + 1 \in 1..Len(ended[s])
      BY <2>2, <2>4 DEF TypeOK
    <3>2. ended[s][rev + 1] \in Nat
      BY <3>1
    <3>3. req[c].since - TTL - MaxRequest + 1 <= ended[s][rev + 1]
      BY <2>2, <2>4 DEF Seen
    <3>4. now <= req[c].since + MaxRequest /\ req[c].since \in Nat
      BY <2>2
    <3>5. DEFINE n == ended[s][rev + 1]
                 b == req[c].since
    <3>6. n \in Nat /\ b \in Nat /\ b - TTL - MaxRequest + 1 <= n /\ now <= b + MaxRequest
      BY <3>2, <3>3, <3>4
    <3> HIDE DEF n, b
    <3>7. now < n + (TTL + 2 * MaxRequest)
      BY <1>0, <3>6, DeskAssumption
    <3> QED
      BY <3>7 DEF Within, n
  <2> QED
    BY <2>4 DEF Within, Rev
<1> QED
  BY <1>1, <1>2 DEF ServedConfigsAreRecent

(* What a page shows, or a signup is decided on, is the event's              *)
(* configuration of at most an entry's lifetime and a request ago, whatever  *)
(* the reads and edits of how many processes do (handler.go:23-27).         *)
THEOREM ConfigsStayRecent == Spec => []ServedConfigsAreRecent
<1>1. Init => RecentInv
  BY IdleStage DEF Init, RecentInv, EntryRecent, NoEntry, At
<1> QED
  BY <1>1, Typing, RecentStep, RecentEnough, PTL DEF Spec
=============================================================================
