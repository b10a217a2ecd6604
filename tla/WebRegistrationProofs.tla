----------------------- MODULE WebRegistrationProofs -----------------------
(* Theorems about WebRegistration, for any number of requests, codes,       *)
(* contacts, configurations and submissions.                                *)
EXTENDS WebRegistration, FiniteSetTheorems, TLAPS

PcValues == {"idle", "drawing", "writing", "counting"}
Passes == [key : Keys, id : Nat, ticket : Tickets, place : Nat]

-----------------------------------------------------------------------------
(* A place in the list is a number: the registrations are finitely many.    *)
LEMMA RecordsFinite ==
  ASSUME NEW S, IsFiniteSet(S), NEW T, IsFiniteSet(T)
  PROVE  IsFiniteSet([kind : S, value : T])
<1> DEFINE P == S \X T
           R == [kind : S, value : T]
           f == [p \in P |-> [kind |-> p[1], value |-> p[2]]]
<1>1. IsFiniteSet(P)
  BY FS_Product
<1>2. f \in [P -> R]
  OBVIOUS
<1>3. ASSUME NEW r \in R PROVE \E p \in P : f[p] = r
  <2>1. <<r.kind, r.value>> \in P
    OBVIOUS
  <2>2. f[<<r.kind, r.value>>] = [kind |-> r.kind, value |-> r.value]
    BY <2>1
  <2>3. r = [kind |-> r.kind, value |-> r.value]
    OBVIOUS
  <2> QED
    BY <2>1, <2>2, <2>3
<1> HIDE DEF f
<1>4. f \in Surjection(P, R)
  BY <1>2, <1>3 DEF Surjection
<1> QED
  BY <1>1, <1>4, FS_Surjection

LEMMA KeysFinite == IsFiniteSet(AllKeys)
<1>1. IsFiniteSet({"email"}) /\ IsFiniteSet({"tg"}) /\ IsFiniteSet({"phone"})
      /\ IsFiniteSet({"bare"}) /\ IsFiniteSet({"random"})
  BY FS_Singleton
<1>2. IsFiniteSet({"email"} \union {"tg"})
  BY <1>1, FS_Union
<1>3. IsFiniteSet(({"email"} \union {"tg"}) \union {"phone"})
  BY <1>1, <1>2, FS_Union
<1>4. IsFiniteSet((({"email"} \union {"tg"}) \union {"phone"}) \union {"bare"})
  BY <1>1, <1>3, FS_Union
<1>5. Kinds \union {"bare"} = (({"email"} \union {"tg"}) \union {"phone"}) \union {"bare"}
  BY DEF Kinds
<1>6. IsFiniteSet(Kinds \union {"bare"})
  BY <1>4, <1>5
<1>7. IsFiniteSet(1..MaxSubmissions)
  BY WebAssumption, FS_Interval
<1>8. IsFiniteSet([kind : Kinds \union {"bare"}, value : Values])
  BY <1>6, WebAssumption, RecordsFinite
<1>9. IsFiniteSet([kind : {"random"}, value : 1..MaxSubmissions])
  BY <1>1, <1>7, RecordsFinite
<1> QED
  BY <1>8, <1>9, FS_Union DEF AllKeys

LEMMA PlacesAreNumbers == ASSUME NEW c PROVE Places(c) \subseteq Nat
<1> DEFINE Upto == {k \in AllKeys : Present(k) /\ rows[k].id <= id[c]}
<1>1. IsFiniteSet(Upto)
  <2>1. Upto \in SUBSET AllKeys
    OBVIOUS
  <2> QED
    BY <2>1, KeysFinite, FS_Subset
<1>2. Cardinality(Upto) \in Nat
  BY <1>1, FS_CardinalityType
<1> QED
  BY <1>2 DEF Places

-----------------------------------------------------------------------------
(* What the helpers return. *)
LEMMA DedupKeyType ==
  ASSUME NEW q \in Contacts, NEW n \in 1..MaxSubmissions
  PROVE  DedupKey(q, n) \in AllKeys
<1>1. \A k \in Kinds : q[k] \in Values \union {NoValue}
  BY DEF Contacts
<1>2. "email" \in Kinds /\ "tg" \in Kinds /\ "phone" \in Kinds
  BY DEF Kinds
<1>3. \A k \in Kinds : q[k] # NoValue => [kind |-> k, value |-> q[k]] \in AllKeys
  BY <1>1 DEF AllKeys
<1>4. [kind |-> "random", value |-> n] \in AllKeys
  BY DEF AllKeys
<1>5. CASE q["email"] # NoValue
  BY <1>2, <1>3, <1>5 DEF DedupKey
<1>6. CASE q["email"] = NoValue /\ q["tg"] # NoValue
  BY <1>2, <1>3, <1>6 DEF DedupKey
<1>7. CASE q["email"] = NoValue /\ q["tg"] = NoValue /\ q["phone"] # NoValue
  BY <1>2, <1>3, <1>7 DEF DedupKey
<1>8. CASE q["email"] = NoValue /\ q["tg"] = NoValue /\ q["phone"] = NoValue
  BY <1>4, <1>8 DEF DedupKey
<1> QED
  BY <1>5, <1>6, <1>7, <1>8

(* Beyond the types: a request in progress has a key, and an id once it has *)
(* drawn one.                                                               *)
RequestInv ==
  \A c \in Requests :
    /\ pc[c] # "idle" => key[c] \in AllKeys
    /\ pc[c] \in {"writing", "counting"} => id[c] > 0

TypeInv == TypeOK /\ RequestInv

LEMMA FinishTypes ==
  ASSUME TypeOK, RequestInv, NEW c \in Requests, Finish(c)
  PROVE  /\ pc' \in [Requests -> PcValues]
         /\ ev' \in [Requests -> Configs]
         /\ clean' \in [Requests -> Contacts]
         /\ key' \in [Requests -> Keys]
         /\ attempt' \in [Requests -> 0..MaxAttempts - 1]
         /\ id' \in [Requests -> Nat]
         /\ code' \in [Requests -> Tickets]
         /\ RequestInv'
<1>1. AnyConfig \in Configs
  BY WebAssumption DEF AnyConfig
<1>2. NoContacts \in Contacts
  BY DEF NoContacts, Contacts
<1>3. 0 \in 0..MaxAttempts - 1
  BY WebAssumption
<1>4. RequestInv'
  BY DEF Finish, RequestInv, TypeOK
<1> QED
  BY <1>1, <1>2, <1>3, <1>4 DEF TypeOK, Finish, PcValues, Keys, Tickets

(* A row written by an upsert. *)
Upserted(c) ==
  LET k == key[c] IN
  [id |-> IF Present(k) THEN rows[k].id ELSE id[c],
   data |-> Data(c), ticket |-> Ticket(c), arrived |-> rows[k].arrived]

LEMMA UpsertRow ==
  ASSUME TypeInv, NEW c \in Requests, Upsert(c)
  PROVE  /\ key[c] \in AllKeys
         /\ rows' = [rows EXCEPT ![key[c]] = Upserted(c)]
         /\ Upserted(c) \in Rows
         /\ Ticket(c) \in Tickets
         /\ Upserted(c).id > 0
<1>1. key[c] \in AllKeys /\ id[c] > 0 /\ id[c] \in Nat
  BY DEF Upsert, TypeInv, TypeOK, RequestInv
<1>2. rows[key[c]] \in Rows
  BY <1>1 DEF TypeInv, TypeOK
<1>3. Ticket(c) \in Tickets
  BY <1>2 DEF Ticket, TypeInv, TypeOK, Rows
<1>4. Data(c) \in Contacts
  BY <1>2 DEF Data, TypeInv, TypeOK, Rows, Contacts
<1>5. DEFINE rowId == IF Present(key[c]) THEN rows[key[c]].id ELSE id[c]
<1>6. rowId \in Nat /\ rowId > 0
  BY <1>1, <1>2 DEF Present, Rows
<1>7. Upserted(c) \in Rows /\ Upserted(c).id > 0
  BY <1>2, <1>3, <1>4, <1>6 DEF Upserted, Rows
<1> QED
  BY <1>1, <1>3, <1>7 DEF Upsert, Upserted

(* The variables keep their ranges in every behaviour. *)
LEMMA TypeInvariance == Spec => []TypeInv
<1>1. Init => TypeInv
  <2> SUFFICES ASSUME Init PROVE TypeInv
    OBVIOUS
  <2>1. AnyConfig \in Configs
    BY WebAssumption DEF AnyConfig
  <2>2. NoContacts \in Contacts
    BY DEF NoContacts, Contacts
  <2>3. Absent \in Rows
    BY <2>2 DEF Absent, Rows, Tickets
  <2>4. LegacyRow \in Rows
    <3>1. [NoContacts EXCEPT !["tg"] = Legacy] \in Contacts
      BY <2>2, WebAssumption DEF Contacts
    <3> QED
      BY <3>1 DEF LegacyRow, Rows, Tickets
  <2>5. rows \in [AllKeys -> Rows]
    BY <2>3, <2>4 DEF Init
  <2>6. 0 \in 0..MaxAttempts - 1 /\ 0 \in 0..MaxSubmissions
    BY WebAssumption
  <2>7. RequestInv
    BY DEF Init, RequestInv
  <2> QED
    BY <2>1, <2>2, <2>5, <2>6, <2>7 DEF Init, TypeInv, TypeOK, Keys, Tickets
<1>2. TypeInv /\ [Next]_vars => TypeInv'
  <2> SUFFICES ASSUME TypeInv, [Next]_vars PROVE TypeInv'
    OBVIOUS
  <2> USE DEF TypeInv, local
  <2>1. ASSUME NEW cfg \in Configs, UpsertEvent(cfg) PROVE TypeInv'
    BY <2>1 DEF UpsertEvent, TypeOK, RequestInv
  <2>2. ASSUME NEW c \in Requests, NEW p \in Payloads, NEW cfg \in served, Admit(c, p, cfg)
        PROVE  TypeInv'
    <3> DEFINE q == Cleaned(cfg.form, p)
    <3>1. q \in Contacts
      BY WebAssumption DEF Cleaned, Contacts
    <3>2. submissions' \in 1..MaxSubmissions
      BY <2>2, WebAssumption DEF Admit, TypeOK
    <3> HIDE DEF q
    <3>3. DedupKey(q, submissions') \in AllKeys
      BY <3>1, <3>2, DedupKeyType
    <3>4. /\ pc' = [pc EXCEPT ![c] = "drawing"] /\ ev' = [ev EXCEPT ![c] = cfg]
          /\ clean' = [clean EXCEPT ![c] = q]
          /\ key' = [key EXCEPT ![c] = DedupKey(q, submissions')]
          /\ UNCHANGED <<served, rows, lastId, scans, attempt, id, code, passes>>
      BY <2>2 DEF Admit, q
    <3>5. cfg \in Configs
      BY DEF TypeOK
    <3>6. RequestInv'
      BY <3>3, <3>4 DEF RequestInv, TypeOK
    <3> QED
      BY <3>1, <3>2, <3>3, <3>4, <3>5, <3>6 DEF TypeOK, Keys
  <2>3. ASSUME NEW c \in Requests, Draw(c) PROVE TypeInv'
    <3>1. code' \in [Requests -> Tickets]
      BY <2>3 DEF Draw, TypeOK, Tickets
    <3>2. lastId' \in Nat /\ lastId' > 0
      BY <2>3 DEF Draw, TypeOK
    <3>3. RequestInv'
      BY <2>3, <3>2 DEF Draw, RequestInv, TypeOK
    <3> QED
      BY <2>3, <3>1, <3>2, <3>3 DEF Draw, TypeOK
  <2>4. ASSUME NEW c \in Requests, Upsert(c) PROVE TypeInv'
    <3>1. /\ key[c] \in AllKeys /\ Upserted(c) \in Rows /\ Ticket(c) \in Tickets
          /\ Upserted(c).id > 0 /\ rows' = [rows EXCEPT ![key[c]] = Upserted(c)]
      BY <2>4, UpsertRow
    <3>2. id' = [id EXCEPT ![c] = Upserted(c).id]
      BY <2>4 DEF Upsert, Upserted
    <3>3. Upserted(c).id \in Nat
      BY <3>1 DEF Rows
    <3>4. RequestInv'
      BY <2>4, <3>1, <3>2, <3>3 DEF Upsert, RequestInv, TypeOK
    <3> QED
      BY <2>4, <3>1, <3>2, <3>3, <3>4 DEF Upsert, TypeOK
  <2>5. ASSUME NEW c \in Requests, Collide(c) PROVE TypeInv'
    <3>1. CASE MayRetry(c) /\ ~Finish(c)
      <4>1. attempt' \in [Requests -> 0..MaxAttempts - 1]
        BY <2>5, <3>1, WebAssumption DEF Collide, MayRetry, TypeOK
      <4>2. RequestInv'
        BY <2>5, <3>1 DEF Collide, RequestInv, TypeOK
      <4> QED
        BY <2>5, <3>1, <4>1, <4>2 DEF Collide, TypeOK
    <3>2. CASE Finish(c)
      BY <2>5, <3>2, FinishTypes DEF Collide, TypeOK, PcValues
    <3> QED
      BY <2>5, <3>1, <3>2 DEF Collide
  <2>6. ASSUME NEW c \in Requests, Count(c) PROVE TypeInv'
    <3>1. PICK place \in Places(c) :
            passes' = passes \union
              {[key |-> key[c], id |-> id[c], ticket |-> code[c], place |-> place]}
      BY <2>6 DEF Count
    <3>2. place \in Nat
      BY PlacesAreNumbers
    <3>3. passes' \subseteq Passes
      BY <3>1, <3>2 DEF TypeOK, Passes
    <3> QED
      BY <2>6, <3>3, FinishTypes DEF Count, TypeOK, PcValues, Passes
  <2>7. ASSUME NEW c \in Requests, Fail(c) PROVE TypeInv'
    BY <2>7, FinishTypes DEF Fail, TypeOK, PcValues
  <2>8. ASSUME NEW k \in AllKeys, CheckIn(k) PROVE TypeInv'
    <3>1. Arrival(k) \in Nat /\ scans' \in Nat
      BY <2>8 DEF CheckIn, Arrival, TypeOK, Rows
    <3>2. [rows[k] EXCEPT !.arrived = Arrival(k)] \in Rows
      BY <3>1 DEF TypeOK, Rows
    <3>3. rows' \in [AllKeys -> Rows]
      BY <2>8, <3>2 DEF CheckIn, TypeOK
    <3> QED
      BY <2>8, <3>1, <3>3 DEF CheckIn, TypeOK, RequestInv
  <2>9. CASE UNCHANGED vars
    BY <2>9 DEF vars, TypeOK, RequestInv
  <2> QED
    BY <2>1, <2>2, <2>3, <2>4, <2>5, <2>6, <2>7, <2>8, <2>9 DEF Next, Proceed
<1> QED
  BY <1>1, <1>2, PTL DEF Spec

(* The variables keep their ranges in every behaviour. *)
THEOREM Typing == Spec => []TypeOK
<1>1. TypeInv => TypeOK
  BY DEF TypeInv
<1> QED
  BY <1>1, TypeInvariance, PTL

-----------------------------------------------------------------------------
(* What a step does to a registration that is there: nothing of it is lost. *)
Kept(k) ==
  /\ rows'[k].id = rows[k].id
  /\ \A i \in Kinds : rows[k].data[i] # NoValue => rows'[k].data[i] # NoValue
  /\ rows[k].arrived > 0 => rows'[k].arrived = rows[k].arrived
  /\ rows[k].ticket # NoCode => rows'[k].ticket = rows[k].ticket

LEMMA StepKeeps ==
  ASSUME TypeInv, [Next]_vars, NEW k \in AllKeys, Present(k)
  PROVE  Kept(k)
<1>1. ASSUME NEW c \in Requests, Upsert(c) PROVE Kept(k)
  <2>1. /\ rows' = [rows EXCEPT ![key[c]] = Upserted(c)]
        /\ rows \in [AllKeys -> Rows]
    BY <1>1, UpsertRow DEF TypeInv, TypeOK
  <2>2. CASE k = key[c]
    <3>1. rows'[k] = Upserted(c)
      BY <2>1, <2>2
    <3> QED
      BY <3>1, <2>2 DEF Upserted, Kept, Data, Ticket, Present
  <2>3. CASE k # key[c]
    BY <2>1, <2>3 DEF Kept
  <2> QED
    BY <2>2, <2>3
<1>2. ASSUME NEW j \in AllKeys, CheckIn(j) PROVE Kept(k)
  BY <1>2 DEF CheckIn, Arrival, Kept, TypeInv, TypeOK, Rows
<1>3. CASE UNCHANGED rows
  BY <1>3 DEF Kept
<1>4. \/ UNCHANGED rows
      \/ \E c \in Requests : Upsert(c)
      \/ \E j \in AllKeys : CheckIn(j)
  BY DEF Next, Proceed, UpsertEvent, Admit, Draw, Collide, Count, Fail, vars
<1> QED
  BY <1>1, <1>2, <1>3, <1>4

(* A repeated submission erases no contact that was given, and a repeated   *)
(* scan does not move the arrival.                                          *)
THEOREM NothingErased == Spec => NothingIsErased
<1>1. TypeInv /\ [Next]_vars =>
        [\A k \in AllKeys : Present(k) =>
           /\ rows'[k].id = rows[k].id
           /\ \A i \in Kinds : rows[k].data[i] # NoValue => rows'[k].data[i] # NoValue
           /\ rows[k].arrived > 0 => rows'[k].arrived = rows[k].arrived]_vars
  BY StepKeeps DEF Kept
<1> QED
  BY <1>1, TypeInvariance, PTL DEF Spec, NothingIsErased

-----------------------------------------------------------------------------
(* The unique index on the tickets of an event.                             *)
TicketsAreUnique ==
  \A j, k \in AllKeys :
    j # k /\ Present(j) /\ Present(k) /\ rows[j].ticket # NoCode =>
      rows[j].ticket # rows[k].ticket

LEMMA UniqueTickets == Spec => []TicketsAreUnique
<1>1. Init => TicketsAreUnique
  BY DEF Init, TicketsAreUnique, Absent, LegacyRow, Present
<1>2. TypeInv /\ TicketsAreUnique /\ [Next]_vars => TicketsAreUnique'
  <2> SUFFICES ASSUME TypeInv, TicketsAreUnique, [Next]_vars,
                      NEW j \in AllKeys, NEW k \in AllKeys, j # k,
                      Present(j)', Present(k)', rows'[j].ticket # NoCode
               PROVE  rows'[j].ticket # rows'[k].ticket
    BY DEF TicketsAreUnique
  <2>1. ASSUME NEW c \in Requests, Upsert(c)
        PROVE  rows'[j].ticket # rows'[k].ticket
    <3>1. /\ rows' = [rows EXCEPT ![key[c]] = Upserted(c)]
          /\ rows \in [AllKeys -> Rows] /\ key[c] \in AllKeys
      BY <2>1, UpsertRow DEF TypeInv, TypeOK
    <3>2. Upserted(c).ticket = Ticket(c)
      BY DEF Upserted
    <3>3. Ticket(c) # NoCode =>
            \A i \in AllKeys : i # key[c] /\ Present(i) => rows[i].ticket # Ticket(c)
      BY <2>1 DEF Upsert, Clash
    <3>4. CASE j = key[c]
      <4>1. rows'[j].ticket = Ticket(c) /\ rows'[k] = rows[k]
        BY <3>1, <3>2, <3>4
      <4> QED
        BY <4>1, <3>3, <3>4 DEF Present
    <3>5. CASE k = key[c]
      <4>1. rows'[k].ticket = Ticket(c) /\ rows'[j] = rows[j]
        BY <3>1, <3>2, <3>5
      <4> QED
        BY <4>1, <3>3, <3>5 DEF Present
    <3>6. CASE j # key[c] /\ k # key[c]
      <4>1. rows'[k] = rows[k] /\ rows'[j] = rows[j]
        BY <3>1, <3>6
      <4> QED
        BY <4>1 DEF TicketsAreUnique, Present
    <3> QED
      BY <3>4, <3>5, <3>6
  <2>2. ASSUME NEW i \in AllKeys, CheckIn(i)
        PROVE  rows'[j].ticket # rows'[k].ticket
    <3>1. \A x \in AllKeys : rows'[x].ticket = rows[x].ticket /\ rows'[x].id = rows[x].id
      BY <2>2 DEF CheckIn, TypeInv, TypeOK, Rows
    <3> QED
      BY <3>1 DEF TicketsAreUnique, Present
  <2>3. CASE UNCHANGED rows
    BY <2>3 DEF TicketsAreUnique, Present
  <2>4. \/ UNCHANGED rows
        \/ \E c \in Requests : Upsert(c)
        \/ \E i \in AllKeys : CheckIn(i)
    BY DEF Next, Proceed, UpsertEvent, Admit, Draw, Collide, Count, Fail, vars
  <2> QED
    BY <2>1, <2>2, <2>3, <2>4
<1> QED
  BY <1>1, <1>2, TypeInvariance, PTL DEF Spec

-----------------------------------------------------------------------------
(* A request that has written its row holds the ticket of that row, and     *)
(* holds it until it answers.                                               *)
HeldTickets ==
  \A c \in Requests : pc[c] = "counting" =>
    Present(key[c]) /\ (code[c] # NoCode => rows[key[c]].ticket = code[c])

(* What was shown with a code has it. *)
ShownStay ==
  \A p \in passes : p.ticket # NoCode =>
    Present(p.key) /\ rows[p.key].ticket = p.ticket

(* Every code anyone was ever shown still opens the registration it was     *)
(* shown for, and no other (repository.go:115-116, validate.go:298-300).    *)
THEOREM ShownTickets == Spec => []ShownTicketsOpen
<1> DEFINE Inv == HeldTickets /\ ShownStay /\ \A p \in passes : p.key \in AllKeys
<1>1. Init => Inv
  BY DEF Init, HeldTickets, ShownStay
<1>2. TypeInv /\ Inv /\ [Next]_vars => Inv'
  <2> SUFFICES ASSUME TypeInv, Inv, [Next]_vars PROVE Inv'
    OBVIOUS
  <2>1. ASSUME NEW k \in AllKeys, Present(k)
        PROVE  Present(k)' /\ (rows[k].ticket # NoCode => rows'[k].ticket = rows[k].ticket)
    BY <2>1, StepKeeps DEF Kept, Present
  <2>2. ASSUME UNCHANGED passes
        PROVE  ShownStay' /\ \A p \in passes' : p.key \in AllKeys
    BY <2>1, <2>2 DEF ShownStay
  <2>3. ASSUME NEW c \in Requests, pc'[c] = "counting", pc[c] = "counting",
               key'[c] = key[c], code'[c] = code[c]
        PROVE  Present(key[c])' /\ (code'[c] # NoCode => rows'[key[c]].ticket = code'[c])
    BY <2>1, <2>3 DEF HeldTickets, TypeInv, RequestInv
  <2>4. ASSUME NEW c \in Requests, Upsert(c) PROVE Inv'
    <3>1. /\ rows' = [rows EXCEPT ![key[c]] = Upserted(c)]
          /\ rows \in [AllKeys -> Rows] /\ key[c] \in AllKeys /\ Upserted(c).id > 0
      BY <2>4, UpsertRow DEF TypeInv, TypeOK
    <3>2. rows'[key[c]] = Upserted(c) /\ Upserted(c).ticket = Ticket(c)
      BY <3>1 DEF Upserted
    <3>3. UNCHANGED <<key, passes>> /\ code' = [code EXCEPT ![c] = Ticket(c)]
          /\ pc' = [pc EXCEPT ![c] = "counting"]
      BY <2>4 DEF Upsert
    <3>4. ASSUME NEW d \in Requests, pc'[d] = "counting"
          PROVE  Present(key[d])' /\ (code'[d] # NoCode => rows'[key[d]].ticket = code'[d])
      <4>1. CASE d = c
        BY <4>1, <3>1, <3>2, <3>3 DEF Present, TypeInv, TypeOK
      <4>2. CASE d # c
        <5>1. pc[d] = "counting" /\ key'[d] = key[d] /\ code'[d] = code[d]
          BY <4>2, <3>3, <3>4 DEF TypeInv, TypeOK
        <5> QED
          BY <5>1, <2>3, <3>4
      <4> QED
        BY <4>1, <4>2
    <3>5. HeldTickets'
      BY <3>3, <3>4 DEF HeldTickets, Present
    <3> QED
      BY <3>5, <3>3, <2>2
  <2>5. ASSUME NEW c \in Requests, Count(c) PROVE Inv'
    <3>1. PICK place \in Places(c) :
            passes' = passes \union
              {[key |-> key[c], id |-> id[c], ticket |-> code[c], place |-> place]}
      BY <2>5 DEF Count
    <3>2. pc[c] = "counting" /\ key[c] \in AllKeys /\ UNCHANGED rows
      BY <2>5 DEF Count, TypeInv, RequestInv
    <3>3. Present(key[c]) /\ (code[c] # NoCode => rows[key[c]].ticket = code[c])
      BY <3>2 DEF HeldTickets
    <3>4. ShownStay' /\ \A p \in passes' : p.key \in AllKeys
      BY <3>1, <3>2, <3>3 DEF ShownStay, Present
    <3>5. HeldTickets'
      BY <2>5 DEF Count, Finish, HeldTickets, Present, TypeInv, TypeOK
    <3> QED
      BY <3>4, <3>5
  <2>6. ASSUME NEW c \in Requests, Finish(c), UNCHANGED <<rows, passes>> PROVE Inv'
    <3>1. HeldTickets'
      BY <2>6 DEF Finish, HeldTickets, Present, TypeInv, TypeOK
    <3> QED
      BY <2>2, <2>6, <3>1
  <2>7. ASSUME NEW c \in Requests, UNCHANGED <<rows, passes>>, pc[c] # "counting",
               \A d \in Requests \ {c} :
                 pc'[d] = pc[d] /\ key'[d] = key[d] /\ code'[d] = code[d],
               pc'[c] # "counting"
        PROVE  Inv'
    <3>1. HeldTickets'
      BY <2>7 DEF HeldTickets, Present
    <3> QED
      BY <2>2, <2>7, <3>1
  <2>8. ASSUME NEW c \in Requests, NEW p \in Payloads, NEW cfg \in served, Admit(c, p, cfg)
        PROVE  Inv'
    BY <2>8, <2>7 DEF Admit, TypeInv, TypeOK
  <2>9. ASSUME NEW c \in Requests, Draw(c) PROVE Inv'
    BY <2>9, <2>7 DEF Draw, TypeInv, TypeOK
  <2>10. ASSUME NEW c \in Requests, Collide(c) PROVE Inv'
    <3>1. CASE Finish(c)
      BY <2>10, <3>1, <2>6 DEF Collide
    <3>2. CASE ~Finish(c)
      BY <2>10, <3>2, <2>7 DEF Collide, TypeInv, TypeOK
    <3> QED
      BY <3>1, <3>2
  <2>11. ASSUME NEW c \in Requests, Fail(c) PROVE Inv'
    BY <2>11, <2>6 DEF Fail
  <2>12. ASSUME UNCHANGED <<pc, key, code, passes>> PROVE Inv'
    <3>1. HeldTickets'
      BY <2>12, <2>3 DEF HeldTickets, Present
    <3> QED
      BY <2>2, <2>12, <3>1
  <2>13. ASSUME NEW k \in AllKeys, CheckIn(k) PROVE Inv'
    BY <2>13, <2>12 DEF CheckIn, local
  <2>14. ASSUME NEW cfg \in Configs, UpsertEvent(cfg) PROVE Inv'
    BY <2>14, <2>12 DEF UpsertEvent, local
  <2>15. CASE UNCHANGED vars
    BY <2>15, <2>12 DEF vars, local
  <2> QED
    BY <2>4, <2>5, <2>8, <2>9, <2>10, <2>11, <2>13, <2>14, <2>15 DEF Next, Proceed
<1>3. Inv /\ TicketsAreUnique => ShownTicketsOpen
  BY DEF ShownStay, TicketsAreUnique, ShownTicketsOpen
<1> QED
  BY <1>1, <1>2, <1>3, UniqueTickets, TypeInvariance, PTL DEF Spec

-----------------------------------------------------------------------------
(* While every configuration demands the email, the key of a request and of *)
(* every row that has an email is made of that email: the order in which    *)
(* DedupKey looks at the contacts leaves no other choice.                   *)
EmailDemanded == \A cfg \in Configs : cfg.form["email"] = "required"
EmailKey(email) == [kind |-> "email", value |-> email]

RequestByEmail(c) ==
  /\ clean[c]["email"] # NoValue
  /\ key[c] = EmailKey(clean[c]["email"])

RowByEmail(k) ==
  Present(k) /\ rows[k].data["email"] # NoValue => k = EmailKey(rows[k].data["email"])

ByEmail ==
  /\ \A c \in Requests : pc[c] # "idle" => RequestByEmail(c)
  /\ \A k \in AllKeys : RowByEmail(k)

LEMMA AdmittedByEmail ==
  ASSUME TypeInv, EmailDemanded,
         NEW c \in Requests, NEW p \in Payloads, NEW cfg \in served, Admit(c, p, cfg)
  PROVE  RequestByEmail(c)'
<1> DEFINE q == Cleaned(cfg.form, p)
<1>1. cfg.form["email"] = "required"
  BY DEF EmailDemanded, TypeInv, TypeOK
<1>2. q["email"] = p["email"] /\ p["email"] # NoValue
  BY <1>1 DEF Cleaned, Admit, Valid, Kinds
<1>3. q["email"] # NoValue
  BY <1>2
<1> HIDE DEF q
<1>4. DedupKey(q, submissions') = EmailKey(q["email"])
  BY <1>3 DEF DedupKey, EmailKey
<1>5. clean' = [clean EXCEPT ![c] = q] /\ key' = [key EXCEPT ![c] = DedupKey(q, submissions')]
  BY DEF Admit, q
<1>6. clean'[c] = q /\ key'[c] = DedupKey(q, submissions')
  BY <1>5 DEF TypeInv, TypeOK
<1> QED
  BY <1>3, <1>4, <1>6 DEF RequestByEmail

LEMMA UpsertByEmail ==
  ASSUME TypeInv, NEW c \in Requests, Upsert(c), RequestByEmail(c), NEW k \in AllKeys, RowByEmail(k)
  PROVE  RowByEmail(k)'
<1>1. /\ rows' = [rows EXCEPT ![key[c]] = Upserted(c)]
      /\ rows \in [AllKeys -> Rows] /\ key[c] \in AllKeys
  BY UpsertRow DEF TypeInv, TypeOK
<1>2. CASE k = key[c]
  <2>1. Upserted(c).data["email"] = clean[c]["email"]
    BY DEF Upserted, Data, Kinds, RequestByEmail
  <2>2. rows'[k] = Upserted(c)
    BY <1>1, <1>2
  <2> QED
    BY <1>2, <2>1, <2>2 DEF RowByEmail, RequestByEmail
<1>3. CASE k # key[c]
  <2>1. rows'[k] = rows[k]
    BY <1>1, <1>3
  <2> QED
    BY <2>1 DEF RowByEmail, Present
<1> QED
  BY <1>2, <1>3

LEMMA ByEmailInvariance == Spec => [](EmailDemanded => ByEmail)
<1>1. Init => ByEmail
  <2>1. NoContacts["email"] = NoValue /\ [NoContacts EXCEPT !["tg"] = Legacy]["email"] = NoValue
    BY DEF NoContacts, Kinds
  <2> QED
    BY <2>1 DEF Init, ByEmail, RowByEmail, Absent, LegacyRow
<1>2. TypeInv /\ (EmailDemanded => ByEmail) /\ [Next]_vars => (EmailDemanded => ByEmail)'
  <2> SUFFICES ASSUME TypeInv, EmailDemanded, ByEmail, [Next]_vars PROVE ByEmail'
    BY DEF EmailDemanded
  <2>1. ASSUME UNCHANGED rows, NEW k \in AllKeys PROVE RowByEmail(k)'
    BY <2>1 DEF ByEmail, RowByEmail, Present
  <2>2. ASSUME NEW d \in Requests, pc[d] # "idle", clean'[d] = clean[d], key'[d] = key[d]
        PROVE  RequestByEmail(d)'
    BY <2>2 DEF ByEmail, RequestByEmail
  <2>3. ASSUME NEW c \in Requests, NEW p \in Payloads, NEW cfg \in served, Admit(c, p, cfg)
        PROVE  ByEmail'
    <3>1. RequestByEmail(c)'
      BY <2>3, AdmittedByEmail
    <3>2. ASSUME NEW d \in Requests, d # c, pc'[d] # "idle" PROVE RequestByEmail(d)'
      BY <2>3, <2>2, <3>2 DEF Admit, TypeInv, TypeOK
    <3> QED
      BY <2>1, <2>3, <3>1, <3>2 DEF ByEmail, Admit
  <2>4. ASSUME NEW c \in Requests, Upsert(c) PROVE ByEmail'
    <3>1. pc[c] # "idle" /\ RequestByEmail(c)
      BY <2>4 DEF Upsert, ByEmail
    <3>2. ASSUME NEW k \in AllKeys PROVE RowByEmail(k)'
      BY <2>4, <3>1, UpsertByEmail DEF ByEmail
    <3>3. ASSUME NEW d \in Requests, pc'[d] # "idle" PROVE RequestByEmail(d)'
      BY <2>4, <2>2, <3>1, <3>3 DEF Upsert, TypeInv, TypeOK
    <3> QED
      BY <3>2, <3>3 DEF ByEmail
  <2>5. ASSUME NEW k \in AllKeys, CheckIn(k) PROVE ByEmail'
    <3>1. ASSUME NEW j \in AllKeys PROVE RowByEmail(j)'
      <4>1. rows'[j].data = rows[j].data /\ rows'[j].id = rows[j].id
        BY <2>5 DEF CheckIn, TypeInv, TypeOK, Rows
      <4> QED
        BY <4>1 DEF ByEmail, RowByEmail, Present
    <3>2. ASSUME NEW d \in Requests, pc'[d] # "idle" PROVE RequestByEmail(d)'
      BY <2>5, <2>2, <3>2 DEF CheckIn, local
    <3> QED
      BY <3>1, <3>2 DEF ByEmail
  <2>6. ASSUME NEW c \in Requests, Finish(c), UNCHANGED rows PROVE ByEmail'
    <3>1. ASSUME NEW d \in Requests, pc'[d] # "idle" PROVE RequestByEmail(d)'
      BY <2>6, <2>2, <3>1 DEF Finish, TypeInv, TypeOK
    <3> QED
      BY <2>6, <2>1, <3>1 DEF ByEmail
  <2>7. ASSUME UNCHANGED <<rows, clean, key>>,
               \A d \in Requests : pc'[d] # "idle" => pc[d] # "idle"
        PROVE  ByEmail'
    BY <2>7, <2>1, <2>2 DEF ByEmail
  <2>8. ASSUME NEW c \in Requests, Draw(c) PROVE ByEmail'
    BY <2>8, <2>7 DEF Draw, TypeInv, TypeOK
  <2>9. ASSUME NEW c \in Requests, Collide(c) PROVE ByEmail'
    <3>1. CASE Finish(c)
      BY <2>9, <3>1, <2>6 DEF Collide
    <3>2. CASE ~Finish(c)
      BY <2>9, <3>2, <2>7 DEF Collide, TypeInv, TypeOK
    <3> QED
      BY <3>1, <3>2
  <2>10. ASSUME NEW c \in Requests, Count(c) \/ Fail(c) PROVE ByEmail'
    BY <2>10, <2>6 DEF Count, Fail
  <2>11. ASSUME NEW cfg \in Configs, UpsertEvent(cfg) PROVE ByEmail'
    BY <2>11, <2>7 DEF UpsertEvent, local
  <2>12. CASE UNCHANGED vars
    BY <2>12, <2>7 DEF vars, local
  <2> QED
    BY <2>3, <2>4, <2>5, <2>8, <2>9, <2>10, <2>11, <2>12 DEF Next, Proceed
<1> QED
  BY <1>1, <1>2, TypeInvariance, PTL DEF Spec

(* While the email is demanded, an email is on the door list once, however  *)
(* the requests interleave and whatever other contacts they bring.          *)
THEOREM EmailsAreSingle == Spec => []OneRowPerEmail
<1>1. (EmailDemanded => ByEmail) => OneRowPerEmail
  BY DEF OneRowPerEmail, Twice, EmailDemanded, ByEmail, RowByEmail, EmailKey
<1> QED
  BY <1>1, ByEmailInvariance, PTL
=============================================================================
