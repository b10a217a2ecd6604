---------------------------- MODULE RemindersProofs ----------------------------
(* Theorems about Reminders, for any number of processes, guests and events, *)
(* any lead and any limit.                                                  *)
EXTENDS Reminders, FiniteSetTheorems, TLAPS

StageValues == {"waiting", "next", "update", "commit"}

(* Taking rows off a list does not make it longer. *)
LEMMA FewerRows ==
  ASSUME NEW S \in SUBSET Guests, NEW T \in SUBSET S, Cardinality(S) <= Limit
  PROVE  Cardinality(T) <= Limit
<1>1. IsFiniteSet(S)
  BY RemindersAssumption, FS_Subset
<1>2. IsFiniteSet(T) /\ Cardinality(T) <= Cardinality(S)
  BY <1>1, FS_Subset
<1>3. Cardinality(S) \in Nat /\ Cardinality(T) \in Nat
  BY <1>1, <1>2, FS_CardinalityType
<1> QED
  BY <1>2, <1>3, RemindersAssumption

LEMMA NoRows == Cardinality({}) <= Limit /\ AnyGuest \in Guests
BY FS_EmptySet, RemindersAssumption DEF AnyGuest

(* The end of a sweep keeps the variables it sets in their ranges. *)
LEMMA EndedTypes ==
  ASSUME TypeOK, NEW x \in Replicas, Ended(x)
  PROVE  /\ stage' \in [Replicas -> StageValues]
         /\ todo' \in [Replicas -> SUBSET Guests]
         /\ row' \in [Replicas -> Guests]
         /\ lapsed' \in [Replicas -> SUBSET Guests]
         /\ lock' \in [Guests -> Replicas \union {Nobody}]
         /\ \A y \in Replicas : Cardinality(todo'[y]) <= Limit
<1>1. \A y \in Replicas : todo'[y] = IF y = x THEN {} ELSE todo[y]
  BY DEF TypeOK, Ended
<1>2. \A y \in Replicas : Cardinality(todo'[y]) <= Limit
  BY <1>1, NoRows DEF TypeOK
<1> QED
  BY <1>2, NoRows DEF TypeOK, Ended, StageValues

(* What everybody else does keeps a process's sweep in its ranges. *)
LEMMA OvertakenTypes ==
  ASSUME TypeOK, Overtaken
  PROVE  lapsed' \in [Replicas -> SUBSET Guests]
BY DEF TypeOK, Overtaken

(* The rows of the guests keep their shape, and their marks. *)
LEMMA RowsKept ==
  ASSUME TypeOK, NEW g \in Guests,
         \/ SignUp(g) \/ Cancel(g) \/ Approve(g)
  PROVE  /\ reg' \in [Guests -> RegRows]
         /\ \A h \in Guests : reg'[h].marked = reg[h].marked
<1>1. reg \in [Guests -> RegRows] /\ now \in Nat
  BY DEF TypeOK
<1>2. CASE SignUp(g)
  <2>1. PICK email \in BOOLEAN : reg' = [reg EXCEPT ![g] =
          [@ EXCEPT !.status = NewStatus(g), !.created = now, !.email = email]]
    BY <1>2 DEF SignUp
  <2>2. NewStatus(g) \in {"registered", "waitlisted"}
    BY DEF NewStatus
  <2>3. DEFINE r == [reg[g] EXCEPT !.status = NewStatus(g), !.created = now, !.email = email]
  <2>4. r \in RegRows /\ r.marked = reg[g].marked
    BY <1>1, <2>2 DEF RegRows
  <2>5. reg' = [reg EXCEPT ![g] = r]
    BY <1>1, <2>1
  <2> HIDE DEF r
  <2> QED
    BY <1>1, <2>4, <2>5
<1>3. ASSUME NEW from, NEW to \in {"registered", "cancelled"}, SetStatus(g, from, to)
      PROVE  /\ reg' \in [Guests -> RegRows]
             /\ \A h \in Guests : reg'[h].marked = reg[h].marked
  <2>1. DEFINE r == [reg[g] EXCEPT !.status = to]
  <2>2. r \in RegRows /\ r.marked = reg[g].marked
    BY <1>1 DEF RegRows
  <2>3. reg' = [reg EXCEPT ![g] = r]
    BY <1>1, <1>3 DEF SetStatus
  <2> HIDE DEF r
  <2> QED
    BY <1>1, <2>2, <2>3
<1> QED
  BY <1>2, <1>3 DEF Cancel, Approve

(* A commit marks the row it has taken and no other, and queues one letter. *)
LEMMA CommitMarks ==
  ASSUME TypeOK, NEW x \in Replicas, Commit(x)
  PROVE  /\ reg' \in [Guests -> RegRows]
         /\ reg'[row[x]].marked
         /\ \A h \in Guests \ {row[x]} : reg'[h].marked = reg[h].marked
         /\ \A h \in Guests : /\ reg'[h].status = reg[h].status
                              /\ reg'[h].email = reg[h].email
                              /\ reg'[h].created = reg[h].created
         /\ letters' \in [Guests -> Nat]
         /\ \A h \in Guests : letters'[h] = IF h = row[x] THEN letters[h] + 1 ELSE letters[h]
<1>1. reg \in [Guests -> RegRows] /\ row[x] \in Guests /\ letters \in [Guests -> Nat]
  BY DEF TypeOK
<1>2. DEFINE r == [reg[row[x]] EXCEPT !.marked = TRUE]
<1>3. /\ r \in RegRows /\ r.marked = TRUE
      /\ r.status = reg[row[x]].status /\ r.email = reg[row[x]].email
      /\ r.created = reg[row[x]].created
  BY <1>1 DEF RegRows
<1>4. reg' = [reg EXCEPT ![row[x]] = r]
  BY <1>1 DEF Commit
<1>5. letters' = [letters EXCEPT ![row[x]] = letters[row[x]] + 1]
  BY DEF Commit, Queued
<1> HIDE DEF r
<1>6. \A h \in Guests : reg'[h] = IF h = row[x] THEN r ELSE reg[h]
  BY <1>1, <1>4
<1>7. reg' \in [Guests -> RegRows]
  BY <1>1, <1>3, <1>4
<1>8. letters' \in [Guests -> Nat]
      /\ \A h \in Guests : letters'[h] = IF h = row[x] THEN letters[h] + 1 ELSE letters[h]
  BY <1>1, <1>5
<1> QED
  BY <1>1, <1>3, <1>6, <1>7, <1>8

-----------------------------------------------------------------------------
(* The variables keep their ranges in every behaviour, and no sweep holds   *)
(* more rows than the limit.                                                *)
THEOREM Typing == Spec => []TypeOK
<1>1. Init => TypeOK
  <2> SUFFICES ASSUME Init PROVE TypeOK
    OBVIOUS
  <2>1. NoRow \in RegRows
    BY DEF NoRow, RegRows
  <2> QED
    BY <2>1, NoRows DEF Init, TypeOK
<1>2. TypeOK /\ [Next]_vars => TypeOK'
  <2> SUFFICES ASSUME TypeOK, [Next]_vars
               PROVE  TypeOK'
    OBVIOUS
  <2> USE DEF tables, bounds
  <2>1. ASSUME NEW g \in Guests, SignUp(g)
        PROVE  TypeOK'
    <3>1. reg' \in [Guests -> RegRows]
      BY <2>1, RowsKept
    <3>2. /\ changes' = changes + 1 /\ Overtaken
          /\ UNCHANGED <<now, start, published, lock, letters, stage, todo, row, faults>>
      BY <2>1 DEF SignUp, Changed
    <3> QED
      BY <3>1, <3>2, OvertakenTypes DEF TypeOK
  <2>2. ASSUME NEW g \in Guests, Cancel(g) \/ Approve(g)
        PROVE  TypeOK'
    <3>1. reg' \in [Guests -> RegRows]
      BY <2>2, RowsKept
    <3> QED
      BY <2>2, <3>1, OvertakenTypes DEF Cancel, Approve, SetStatus, Changed, TypeOK
  <2>3. ASSUME NEW e \in Events, Organize(e)
        PROVE  TypeOK'
    <3>1. start' \in [Events -> Starts] /\ published' \subseteq Events
      BY <2>3 DEF Organize, TypeOK
    <3> QED
      BY <2>3, <3>1, OvertakenTypes DEF Organize, Changed, TypeOK
  <2>4. CASE Tick
    BY <2>4, OvertakenTypes DEF Tick, TypeOK
  <2>5. ASSUME NEW x \in Replicas, Read(x)
        PROVE  TypeOK'
    <3>1. PICK batch \in SUBSET Candidates :
            Cardinality(batch) <= Limit /\ todo' = [todo EXCEPT ![x] = batch]
      BY <2>5 DEF Read
    <3>2. batch \subseteq Guests
      BY DEF Candidates
    <3>3. \A y \in Replicas : Cardinality(todo'[y]) <= Limit
      BY <3>1 DEF TypeOK
    <3> QED
      BY <2>5, <3>1, <3>2, <3>3 DEF Read, TypeOK
  <2>6. ASSUME NEW x \in Replicas, Finish(x) \/ Fail(x)
        PROVE  TypeOK'
    <3>1. Ended(x)
      BY <2>6 DEF Finish, Fail
    <3> QED
      BY <2>6, <3>1, EndedTypes DEF Finish, Fail, TypeOK, StageValues
  <2>7. ASSUME NEW x \in Replicas, Take(x)
        PROVE  TypeOK'
    <3>1. PICK g \in todo[x] : /\ row' = [row EXCEPT ![x] = g]
                               /\ todo' = [todo EXCEPT ![x] = @ \ {g}]
      BY <2>7 DEF Take
    <3>2. Cardinality(todo[x] \ {g}) <= Limit
      BY FewerRows DEF TypeOK
    <3>3. \A y \in Replicas : Cardinality(todo'[y]) <= Limit
      BY <3>1, <3>2 DEF TypeOK
    <3> QED
      BY <2>7, <3>1, <3>3 DEF Take, TypeOK
  <2>8. ASSUME NEW x \in Replicas, Mark(x)
        PROVE  TypeOK'
    BY <2>8, NoRows DEF Mark, Onwards, TypeOK
  <2>9. ASSUME NEW x \in Replicas, Commit(x)
        PROVE  TypeOK'
    <3>1. reg' \in [Guests -> RegRows] /\ letters' \in [Guests -> Nat]
      BY <2>9, CommitMarks
    <3>2. CASE Ended(x) /\ faults' = faults + 1
      BY <2>9, <3>1, <3>2, EndedTypes DEF Commit, TypeOK, StageValues
    <3>3. CASE Onwards(x) /\ lock' = [lock EXCEPT ![row[x]] = Nobody]
               /\ UNCHANGED <<todo, lapsed, faults>>
      BY <2>9, <3>1, <3>3, NoRows DEF Commit, Onwards, TypeOK
    <3> QED
      BY <2>9, <3>2, <3>3 DEF Commit
  <2>10. CASE UNCHANGED vars
    BY <2>10 DEF vars, sweeps, TypeOK
  <2> QED
    BY <2>1, <2>2, <2>3, <2>4, <2>5, <2>6, <2>7, <2>8, <2>9, <2>10 DEF Next, Sweep
<1> QED
  BY <1>1, <1>2, PTL DEF Spec
-----------------------------------------------------------------------------
(* A marked row has one reminder.                                           *)

(* A process about to commit holds its row, unmarked until it does. *)
HoldsUnmarked ==
  \A x \in Replicas : stage[x] = "commit" => lock[row[x]] = x /\ ~reg[row[x]].marked

OnceInv == HoldsUnmarked /\ MarkedOnceQueuedOnce

(* The end of a sweep takes no row from the others. *)
LEMMA EndedKeeps ==
  ASSUME TypeOK, HoldsUnmarked, NEW x \in Replicas, Ended(x)
  PROVE  \A y \in Replicas : stage'[y] = "commit" =>
           y # x /\ stage[y] = "commit" /\ row'[y] = row[y] /\ lock'[row[y]] = y
BY DEF TypeOK, HoldsUnmarked, Ended

LEMMA OnceStep == TypeOK /\ OnceInv /\ [Next]_vars => OnceInv'
<1> SUFFICES ASSUME TypeOK, HoldsUnmarked, MarkedOnceQueuedOnce, [Next]_vars
             PROVE  HoldsUnmarked' /\ MarkedOnceQueuedOnce'
  BY DEF OnceInv
<1> USE DEF tables, bounds
<1>0. row \in [Replicas -> Guests] /\ stage \in [Replicas -> StageValues]
      /\ lock \in [Guests -> Replicas \union {Nobody}]
  BY DEF TypeOK, StageValues
<1>1. ASSUME UNCHANGED <<stage, row, lock, letters>>,
             \A g \in Guests : reg'[g].marked = reg[g].marked
      PROVE  HoldsUnmarked' /\ MarkedOnceQueuedOnce'
  BY <1>0, <1>1 DEF HoldsUnmarked, MarkedOnceQueuedOnce
<1>2. ASSUME NEW g \in Guests, SignUp(g) \/ Cancel(g) \/ Approve(g)
      PROVE  HoldsUnmarked' /\ MarkedOnceQueuedOnce'
  <2>1. UNCHANGED <<stage, row, lock, letters>>
    BY <1>2 DEF SignUp, Cancel, Approve, SetStatus
  <2> QED
    BY <1>1, <1>2, <2>1, RowsKept
<1>3. CASE Tick \/ (\E e \in Events : Organize(e)) \/ UNCHANGED vars
  BY <1>1, <1>3 DEF Tick, Organize, vars, sweeps
<1>4. ASSUME NEW x \in Replicas, Read(x)
      PROVE  HoldsUnmarked' /\ MarkedOnceQueuedOnce'
  BY <1>0, <1>4 DEF Read, HoldsUnmarked, MarkedOnceQueuedOnce
<1>5. ASSUME NEW x \in Replicas, Finish(x) \/ Fail(x)
      PROVE  HoldsUnmarked' /\ MarkedOnceQueuedOnce'
  <2>1. Ended(x) /\ UNCHANGED <<reg, letters>>
    BY <1>5 DEF Finish, Fail
  <2> QED
    BY <2>1, EndedKeeps DEF HoldsUnmarked, MarkedOnceQueuedOnce
<1>6. ASSUME NEW x \in Replicas, Take(x)
      PROVE  HoldsUnmarked' /\ MarkedOnceQueuedOnce'
  BY <1>0, <1>6 DEF Take, HoldsUnmarked, MarkedOnceQueuedOnce
<1>7. ASSUME NEW x \in Replicas, Mark(x)
      PROVE  HoldsUnmarked' /\ MarkedOnceQueuedOnce'
  BY <1>0, <1>7, RemindersAssumption
     DEF Mark, Unmarked, Onwards, HoldsUnmarked, MarkedOnceQueuedOnce
<1>8. ASSUME NEW x \in Replicas, Commit(x)
      PROVE  HoldsUnmarked' /\ MarkedOnceQueuedOnce'
  <2>1. stage[x] = "commit" /\ row[x] \in Guests /\ lock[row[x]] = x /\ ~reg[row[x]].marked
    BY <1>0, <1>8 DEF Commit, HoldsUnmarked
  <2>2. /\ reg'[row[x]].marked
        /\ \A h \in Guests \ {row[x]} : reg'[h].marked = reg[h].marked
        /\ \A h \in Guests : letters'[h] = IF h = row[x] THEN letters[h] + 1 ELSE letters[h]
    BY <1>8, CommitMarks
  <2>3. MarkedOnceQueuedOnce'
    <3> SUFFICES ASSUME NEW h \in Guests
                 PROVE  letters'[h] = IF reg'[h].marked THEN 1 ELSE 0
      BY DEF MarkedOnceQueuedOnce
    <3>1. letters[h] = IF reg[h].marked THEN 1 ELSE 0
      BY DEF MarkedOnceQueuedOnce
    <3>2. CASE h = row[x]
      BY <2>1, <2>2, <3>1, <3>2
    <3>3. CASE h # row[x]
      BY <2>2, <3>1, <3>3
    <3> QED
      BY <3>2, <3>3
  <2>4. \A y \in Replicas : y # x /\ stage[y] = "commit" => row[y] # row[x]
    BY <2>1 DEF HoldsUnmarked
  <2>5. \A y \in Replicas : stage'[y] = "commit" =>
          y # x /\ stage[y] = "commit" /\ row'[y] = row[y] /\ lock'[row[y]] = y
    <3>1. CASE Ended(x)
      BY <3>1, EndedKeeps
    <3>2. CASE Onwards(x) /\ lock' = [lock EXCEPT ![row[x]] = Nobody]
      BY <1>0, <2>4, <3>2 DEF Onwards, HoldsUnmarked
    <3> QED
      BY <1>8, <3>1, <3>2 DEF Commit
  <2> QED
    BY <1>0, <2>2, <2>3, <2>4, <2>5 DEF HoldsUnmarked
<1> QED
  BY <1>2, <1>3, <1>4, <1>5, <1>6, <1>7, <1>8 DEF Next, Sweep

(* A row has one reminder if it is marked and none if it is not, whatever    *)
(* the sweeps of how many processes do (mail.go:418-419).                   *)
THEOREM OneReminderPerMark == Spec => []MarkedOnceQueuedOnce
<1>1. Init => OnceInv
  BY RemindersAssumption DEF Init, OnceInv, HoldsUnmarked, MarkedOnceQueuedOnce, NoRow
<1>2. OnceInv => MarkedOnceQueuedOnce
  BY DEF OnceInv
<1> QED
  BY <1>1, <1>2, Typing, OnceStep, PTL DEF Spec

-----------------------------------------------------------------------------
(* Reminders go to guests who are due one.                                  *)

(* What a sweep has read and not yet committed is due, or has been since    *)
(* the list was read.                                                       *)
ReadWhenDue ==
  \A x \in Replicas, g \in Guests :
    \/ stage[x] \in {"next", "update", "commit"} /\ g \in todo[x]
    \/ stage[x] \in {"update", "commit"} /\ g = row[x]
    => Invited(g) \/ g \in lapsed[x]

(* A mark says nothing about who is invited. *)
LEMMA SameGuests ==
  ASSUME UNCHANGED tables,
         \A h \in Guests : /\ reg'[h].status = reg[h].status
                            /\ reg'[h].email = reg[h].email
                            /\ reg'[h].created = reg[h].created
  PROVE  \A h \in Guests : Invited(h)' = Invited(h)
BY DEF tables, Invited

LEMMA DueStep == TypeOK /\ ReadWhenDue /\ [Next]_vars => ReadWhenDue'
<1> SUFFICES ASSUME TypeOK, ReadWhenDue, [Next]_vars
             PROVE  ReadWhenDue'
  OBVIOUS
<1>0. /\ row \in [Replicas -> Guests] /\ stage \in [Replicas -> StageValues]
      /\ todo \in [Replicas -> SUBSET Guests] /\ lapsed \in [Replicas -> SUBSET Guests]
  BY DEF TypeOK, StageValues
<1>1. ASSUME Overtaken, UNCHANGED <<stage, todo, row>>
      PROVE  ReadWhenDue'
  <2> SUFFICES ASSUME NEW x \in Replicas, NEW g \in Guests,
                      stage[x] # "waiting", Invited(g) \/ g \in lapsed[x]
               PROVE  Invited(g)' \/ g \in lapsed'[x]
    BY <1>1 DEF ReadWhenDue
  <2>1. lapsed'[x] = lapsed[x] \union {h \in Guests : Invited(h) /\ ~Invited(h)'}
    BY <1>1 DEF Overtaken
  <2> QED
    BY <2>1
<1>2. CASE \/ \E g \in Guests : SignUp(g) \/ Cancel(g) \/ Approve(g)
           \/ \E e \in Events : Organize(e)
           \/ Tick
  <2>1. Overtaken /\ UNCHANGED <<stage, todo, row>>
    BY <1>2 DEF SignUp, Cancel, Approve, SetStatus, Organize, Tick
  <2> QED
    BY <1>1, <2>1
<1>3. CASE UNCHANGED vars
  <2>1. \A h \in Guests : Invited(h)' = Invited(h)
    BY <1>3, SameGuests DEF vars
  <2> QED
    BY <1>3, <2>1 DEF vars, sweeps, ReadWhenDue
<1>4. ASSUME NEW x \in Replicas, Sweep(x) \/ Fail(x)
      PROVE  ReadWhenDue'
  <2>1. \A h \in Guests : Invited(h)' = Invited(h)
    <3>1. CASE Commit(x)
      BY <3>1, CommitMarks, SameGuests DEF Commit
    <3>2. CASE ~Commit(x)
      <4>1. UNCHANGED <<tables, reg>>
        BY <1>4, <3>2 DEF Sweep, Read, Finish, Take, Mark, Fail
      <4> QED
        BY <4>1, SameGuests
    <3> QED
      BY <3>1, <3>2
  <2>2. CASE Ended(x)
    BY <1>0, <2>1, <2>2 DEF Ended, ReadWhenDue
  <2>3. CASE Read(x)
    <3>1. PICK batch \in SUBSET Candidates : todo' = [todo EXCEPT ![x] = batch]
      BY <2>3 DEF Read
    <3>2. \A g \in batch : Invited(g)
      BY DEF Candidates, Due
    <3>3. stage' = [stage EXCEPT ![x] = "next"] /\ UNCHANGED <<row, lapsed>>
      BY <2>3 DEF Read
    <3> QED
      BY <1>0, <2>1, <3>1, <3>2, <3>3 DEF ReadWhenDue
  <2>4. CASE Take(x)
    <3>1. PICK g \in todo[x] : /\ row' = [row EXCEPT ![x] = g]
                               /\ todo' = [todo EXCEPT ![x] = @ \ {g}]
      BY <2>4 DEF Take
    <3>2. stage[x] = "next" /\ stage' = [stage EXCEPT ![x] = "update"] /\ UNCHANGED lapsed
      BY <2>4 DEF Take
    <3> QED
      BY <1>0, <2>1, <3>1, <3>2 DEF ReadWhenDue
  <2>5. CASE Onwards(x) /\ stage[x] \in {"update", "commit"} /\ UNCHANGED <<todo, lapsed>>
    BY <1>0, <2>1, <2>5 DEF Onwards, ReadWhenDue
  <2>6. CASE /\ stage[x] = "update" /\ stage' = [stage EXCEPT ![x] = "commit"]
             /\ UNCHANGED <<row, todo, lapsed>>
    BY <1>0, <2>1, <2>6 DEF ReadWhenDue
  <2>7. CASE Finish(x) \/ Fail(x)
    BY <2>2, <2>7 DEF Finish, Fail
  <2>8. CASE Mark(x)
    BY <2>5, <2>6, <2>8 DEF Mark
  <2>9. CASE Commit(x)
    BY <2>2, <2>5, <2>9 DEF Commit
  <2> QED
    BY <1>4, <2>3, <2>4, <2>7, <2>8, <2>9 DEF Sweep
<1> QED
  BY <1>2, <1>3, <1>4 DEF Next

(* A reminder goes to a guest who is due it, or was at some moment of the   *)
(* sweep (mail.go:354-360).                                                 *)
THEOREM OnlyTheDueAreReminded == Spec => RemindersAreDue
<1>1. Init => ReadWhenDue
  BY DEF Init, ReadWhenDue
<1>2. TypeOK /\ ReadWhenDue /\ [Next]_vars =>
        [\A x \in Replicas : stage[x] = "commit" /\ letters' # letters
                              /\ lock'[row[x]] # lock[row[x]] =>
           Invited(row[x]) \/ row[x] \in lapsed[x]]_vars
  BY DEF TypeOK, ReadWhenDue
<1> QED
  BY <1>1, <1>2, Typing, DueStep, PTL DEF Spec, RemindersAreDue
=============================================================================
