------------------------- MODULE NotifyOutboxProofs -------------------------
(* Theorems about NotifyOutbox, for every queue, set of channels and number *)
(* of replicas.                                                             *)
EXTENDS NotifyOutbox, TLAPS

(* Whatever its channel does, a delivery has one of four outcomes. *)
LEMMA OutcomesKnown ==
  ASSUME TypeOK, NEW i \in Ids
  PROVE  Outcomes(i) \subseteq {Sends, Drops, Fails, Loses}
<1>1. ChannelOf[i] \in Channels
  BY OutboxAssumption
<1>2. channel[ChannelOf[i]] \in {"up", "flaky", "down"}
  BY <1>1 DEF TypeOK, ChannelStates
<1> QED
  BY <1>2 DEF Outcomes

(* The capped counter stays within its cap and never stands still at zero. *)
LEMMA BumpRange ==
  ASSUME NEW n \in 0..Cap
  PROVE  Bump(n) \in 1..Cap
BY OutboxAssumption DEF Bump

(* The variables keep their types in every behaviour of the queue. *)
THEOREM Typing == Spec => []TypeOK
<1>1. Init => TypeOK
  BY OutboxAssumption DEF Init, TypeOK, ChannelStates, Results
<1>2. TypeOK /\ [Next]_vars => TypeOK'
  <2> SUFFICES ASSUME TypeOK, [Next]_vars
               PROVE  TypeOK'
    OBVIOUS
  <2> USE OutboxAssumption DEF TypeOK, queueVars, senderVars, ghostVars, Results
  <2>1. CASE Tick
    BY <2>1 DEF Tick
  <2>2. ASSUME NEW i \in Ids, Enqueue(i)
        PROVE  TypeOK'
    BY <2>2 DEF Enqueue
  <2>3. ASSUME NEW i \in Ids, EventStarts(i)
        PROVE  TypeOK'
    BY <2>3 DEF EventStarts
  <2>4. ASSUME NEW c \in Channels, ChannelChanges(c)
        PROVE  TypeOK'
    BY <2>4 DEF ChannelChanges
  <2>5. ASSUME NEW s \in Senders, Select(s)
        PROVE  TypeOK'
    BY <2>5 DEF Select, Oldest, Due
  <2>6. ASSUME NEW s \in Senders, SelectFails(s)
        PROVE  TypeOK'
    BY <2>6 DEF SelectFails
  <2>7. ASSUME NEW s \in Senders, EndRead(s)
        PROVE  TypeOK'
    BY <2>7 DEF EndRead
  <2>8. ASSUME NEW s \in Senders, EndDrain(s)
        PROVE  TypeOK'
    BY <2>8 DEF EndDrain
  <2>9. ASSUME NEW s \in Senders, Crash(s)
        PROVE  TypeOK'
    <3>1. faults' \in [Senders -> [Ids -> Nat]]
      <4>1. [i \in Ids |-> IF pc[s] = "recording" /\ result[s] = "ok" /\ Current(s, i)
                             THEN faults[s][i] + 1 ELSE faults[s][i]]
              \in [Ids -> Nat]
        OBVIOUS
      <4> QED
        BY <2>9, <4>1 DEF Crash
    <3>2. pc' \in [Senders -> {"idle", "reading", "sending", "recording"}]
          /\ batch' \in [Senders -> SUBSET Ids]
          /\ stalled' \in [Senders -> SUBSET Channels]
          /\ result' \in [Senders -> {"none", "ok", "error"}]
      BY <2>9 DEF Crash
    <3>3. \A t \in Senders : (result'[t] # "none") <=> (pc'[t] = "recording")
      BY <2>9 DEF Crash
    <3> QED
      BY <2>9, <3>1, <3>2, <3>3 DEF Crash
  <2>10. ASSUME NEW s \in Senders, NEW i \in Ids, Deliver(s, i)
         PROVE  TypeOK'
    <3>1. PICK o \in Outcomes(i) :
            /\ result' = [result EXCEPT ![s] = o.answer]
            /\ copies' = IF o.copy THEN [copies EXCEPT ![s][i] = @ + 1] ELSE copies
            /\ IF o.copy /\ o.answer = "error"
                 THEN /\ budget > 0
                      /\ budget' = budget - 1
                      /\ faults' = [faults EXCEPT ![s][i] = @ + 1]
                 ELSE UNCHANGED <<budget, faults>>
      BY <2>10 DEF Deliver
    <3>2. o.answer \in {"ok", "error"}
      <4>1. o \in {Sends, Drops, Fails, Loses}
        BY <3>1, OutcomesKnown
      <4> QED
        BY <4>1 DEF Sends, Drops, Fails, Loses
    <3>3. copies' \in [Senders -> [Ids -> Nat]]
      <4>1. CASE o.copy
        BY <3>1, <4>1
      <4>2. CASE ~o.copy
        BY <3>1, <4>2
      <4> QED
        BY <4>1, <4>2
    <3>4. faults' \in [Senders -> [Ids -> Nat]] /\ budget' \in Nat
      <4>1. CASE o.copy /\ o.answer = "error"
        BY <3>1, <4>1
      <4>2. CASE ~(o.copy /\ o.answer = "error")
        BY <3>1, <4>2
      <4> QED
        BY <4>1, <4>2
    <3>5. result' \in [Senders -> {"none", "ok", "error"}]
      BY <3>1, <3>2
    <3>6. pc' \in [Senders -> {"idle", "reading", "sending", "recording"}]
      BY <2>10 DEF Deliver
    <3>7. \A t \in Senders : (result'[t] # "none") <=> (pc'[t] = "recording")
      BY <2>10, <3>1, <3>2 DEF Deliver
    <3> QED
      BY <2>10, <3>3, <3>4, <3>5, <3>6, <3>7 DEF Deliver
  <2>11. ASSUME NEW s \in Senders, NEW i \in Ids, SkipStalled(s, i)
         PROVE  TypeOK'
    BY <2>11 DEF SkipStalled
  <2>12. ASSUME NEW s \in Senders, NEW i \in Ids, MarkSent(s, i)
         PROVE  TypeOK'
    <3>1. attempts' \in [Ids -> 0..Cap] /\ wait' \in [Ids -> 0..Cap + 1]
      <4>1. Bump(attempts[i]) \in 1..Cap
        BY BumpRange
      <4>2. CASE status[i] = "sent"
        BY <2>12, <4>2 DEF MarkSent
      <4>3. CASE status[i] # "sent"
        <5>1. attempts' = [attempts EXCEPT ![i] = Bump(attempts[i])]
              /\ wait' = [wait EXCEPT ![i] = 0]
          BY <2>12, <4>3 DEF MarkSent
        <5> QED
          BY <4>1, <5>1
      <4> QED
        BY <4>2, <4>3
    <3>2. /\ status' \in [Ids -> {"absent", "queued", "sent"}]
          /\ pc' \in [Senders -> {"idle", "reading", "sending", "recording"}]
          /\ batch' \in [Senders -> SUBSET Ids]
          /\ result' \in [Senders -> {"none", "ok", "error"}]
      BY <2>12 DEF MarkSent
    <3>3. \A t \in Senders : (result'[t] # "none") <=> (pc'[t] = "recording")
      BY <2>12 DEF MarkSent
    <3> QED
      BY <2>12, <3>1, <3>2, <3>3 DEF MarkSent
  <2>13. ASSUME NEW s \in Senders, NEW i \in Ids, Postpone(s, i)
         PROVE  TypeOK'
    <3>1. Bump(attempts[i]) \in 1..Cap
      BY BumpRange
    <3>2. attempts' \in [Ids -> 0..Cap] /\ wait' \in [Ids -> 0..Cap + 1]
      <4>1. CASE UNCHANGED <<attempts, wait>>
        BY <4>1
      <4>2. CASE /\ attempts' = [attempts EXCEPT ![i] = Bump(attempts[i])]
                 /\ \E w \in Pause(i) : wait' = [wait EXCEPT ![i] = w]
        <5>1. Pause(i) \subseteq 0..Cap + 1
          BY <3>1 DEF Pause
        <5> QED
          BY <3>1, <4>2, <5>1
      <4> QED
        BY <2>13, <4>1, <4>2 DEF Postpone
    <3>3. ChannelOf[i] \in Channels
      OBVIOUS
    <3>4. /\ stalled' \in [Senders -> SUBSET Channels]
          /\ pc' \in [Senders -> {"idle", "reading", "sending", "recording"}]
          /\ batch' \in [Senders -> SUBSET Ids]
          /\ result' \in [Senders -> {"none", "ok", "error"}]
          /\ budget' \in Nat
      BY <2>13, <3>3 DEF Postpone
    <3>5. \A t \in Senders : (result'[t] # "none") <=> (pc'[t] = "recording")
      BY <2>13 DEF Postpone
    <3> QED
      BY <2>13, <3>2, <3>4, <3>5 DEF Postpone
  <2>14. ASSUME NEW s \in Senders, NEW i \in Ids, MarkFails(s, i)
         PROVE  TypeOK'
    BY <2>14 DEF MarkFails
  <2>15. CASE UNCHANGED vars
    BY <2>15 DEF vars
  <2> QED
    BY <2>1, <2>2, <2>3, <2>4, <2>5, <2>6, <2>7, <2>8, <2>9, <2>10, <2>11,
       <2>12, <2>13, <2>14, <2>15 DEF Next, Process, Record
<1> QED
  BY <1>1, <1>2, PTL DEF Spec

-----------------------------------------------------------------------------
(* No replica puts out the same row twice without a fault.                  *)

(* A sender has delivered row i and has still to mark it. *)
Holding(s, i) == pc[s] = "recording" /\ result[s] = "ok" /\ Current(s, i)

(* The copies a sender made are paid for by faults, save one: the copy of   *)
(* the row it is about to mark, or of a row that is marked.                 *)
CopyInv(s, i) ==
  /\ copies[s][i] <= faults[s][i] + 1
  /\ copies[s][i] <= faults[s][i] \/ Holding(s, i) \/ status[i] = "sent"
  /\ i \in batch[s] /\ ~Holding(s, i) => copies[s][i] <= faults[s][i]

AllCopyInv == \A s \in Senders, i \in Ids : CopyInv(s, i)

(* A sender works on one row at a time. *)
LEMMA CurrentUnique ==
  ASSUME TypeOK, NEW s \in Senders, NEW i \in Ids, NEW j \in Ids,
         Current(s, i), Current(s, j)
  PROVE  i = j
BY OutboxAssumption DEF Current

(* A step that leaves a sender and its ghosts alone, and un-marks no row,   *)
(* keeps what is known of that sender's copies.                             *)
LEMMA BystanderKeeps ==
  ASSUME NEW s \in Senders, NEW i \in Ids, CopyInv(s, i),
         copies'[s] = copies[s], faults'[s] = faults[s],
         pc'[s] = pc[s], result'[s] = result[s], batch'[s] = batch[s],
         status[i] = "sent" => status'[i] = "sent"
  PROVE  CopyInv(s, i)'
BY DEF CopyInv, Holding, Current

(* Every step of the queue keeps the account of copies. *)
LEMMA CopyStep == TypeOK /\ AllCopyInv /\ [Next]_vars => AllCopyInv'
<1> SUFFICES ASSUME TypeOK, AllCopyInv, [Next]_vars,
                    NEW t \in Senders, NEW j \in Ids
             PROVE  CopyInv(t, j)'
  BY DEF AllCopyInv
<1>0. CopyInv(t, j)
  BY DEF AllCopyInv
<1> USE DEF queueVars, senderVars, ghostVars
<1>1. CASE UNCHANGED vars
  BY <1>0, <1>1, BystanderKeeps DEF vars
<1>2. CASE Tick
  BY <1>0, <1>2, BystanderKeeps DEF Tick
<1>3. ASSUME NEW i \in Ids, Enqueue(i)
      PROVE  CopyInv(t, j)'
  BY <1>0, <1>3, BystanderKeeps DEF Enqueue, TypeOK
<1>4. ASSUME NEW i \in Ids, EventStarts(i)
      PROVE  CopyInv(t, j)'
  BY <1>0, <1>4, BystanderKeeps DEF EventStarts
<1>5. ASSUME NEW c \in Channels, ChannelChanges(c)
      PROVE  CopyInv(t, j)'
  BY <1>0, <1>5, BystanderKeeps DEF ChannelChanges
<1>6. ASSUME NEW s \in Senders, SelectFails(s)
      PROVE  CopyInv(t, j)'
  BY <1>0, <1>6, BystanderKeeps DEF SelectFails
<1>7. ASSUME NEW s \in Senders, Select(s)
      PROVE  CopyInv(t, j)'
  <2>1. CASE t # s
    BY <1>0, <1>7, <2>1, BystanderKeeps DEF Select, TypeOK
  <2>2. CASE t = s
    <3>1. ~Holding(t, j) /\ ~Holding(t, j)'
      BY <1>7, <2>2 DEF Select, Holding, TypeOK
    <3>2. j \in batch'[t] => status[j] # "sent"
      BY <1>7, <2>2 DEF Select, Oldest, Due, TypeOK
    <3> QED
      BY <1>0, <1>7, <3>1, <3>2 DEF Select, CopyInv
  <2> QED
    BY <2>1, <2>2
<1>8. ASSUME NEW s \in Senders, EndRead(s)
      PROVE  CopyInv(t, j)'
  <2>1. CASE t # s
    BY <1>0, <1>8, <2>1, BystanderKeeps DEF EndRead, TypeOK
  <2>2. CASE t = s
    BY <1>0, <1>8, <2>2 DEF EndRead, CopyInv, Holding, TypeOK
  <2> QED
    BY <2>1, <2>2
<1>9. ASSUME NEW s \in Senders, EndDrain(s)
      PROVE  CopyInv(t, j)'
  <2>1. CASE t # s
    BY <1>0, <1>9, <2>1, BystanderKeeps DEF EndDrain, TypeOK
  <2>2. CASE t = s
    BY <1>0, <1>9, <2>2 DEF EndDrain, CopyInv, Holding, TypeOK
  <2> QED
    BY <2>1, <2>2
<1>10. ASSUME NEW s \in Senders, NEW i \in Ids, Deliver(s, i)
       PROVE  CopyInv(t, j)'
  <2>1. CASE t # s
    <3>1. copies'[t] = copies[t] /\ faults'[t] = faults[t]
      BY <1>10, <2>1 DEF Deliver, TypeOK
    <3> QED
      BY <1>0, <1>10, <2>1, <3>1, BystanderKeeps DEF Deliver, TypeOK
  <2>2. CASE t = s /\ j # i
    <3>1. copies'[t][j] = copies[t][j] /\ faults'[t][j] = faults[t][j]
      BY <1>10, <2>2 DEF Deliver, TypeOK
    <3>2. ~Holding(t, j) /\ ~Holding(t, j)'
      BY <1>10, <2>2, CurrentUnique DEF Deliver, Holding, Current, TypeOK
    <3> QED
      BY <1>0, <1>10, <2>2, <3>1, <3>2 DEF Deliver, CopyInv, TypeOK
  <2>3. CASE t = s /\ j = i
    <3>1. copies[s][i] <= faults[s][i]
      BY <1>0, <1>10, <2>3 DEF Deliver, Current, CopyInv, Holding, TypeOK
    <3>2. PICK o \in Outcomes(i) :
            /\ result' = [result EXCEPT ![s] = o.answer]
            /\ copies' = IF o.copy THEN [copies EXCEPT ![s][i] = @ + 1] ELSE copies
            /\ IF o.copy /\ o.answer = "error"
                 THEN /\ budget > 0
                      /\ budget' = budget - 1
                      /\ faults' = [faults EXCEPT ![s][i] = @ + 1]
                 ELSE UNCHANGED <<budget, faults>>
      BY <1>10 DEF Deliver
    <3>3. o \in {Sends, Drops, Fails, Loses}
      BY <3>2, OutcomesKnown
    <3>4. pc'[s] = "recording" /\ result'[s] = o.answer /\ Current(s, i)'
      BY <1>10, <3>2 DEF Deliver, Current, TypeOK
    <3>5. copies[s][i] \in Nat /\ faults[s][i] \in Nat
      BY DEF TypeOK
    <3>6. CASE o = Sends
      <4>1. o.copy /\ o.answer = "ok"
        BY <3>6 DEF Sends
      <4>2. copies'[s][i] = copies[s][i] + 1 /\ faults'[s][i] = faults[s][i]
        BY <3>2, <4>1 DEF TypeOK
      <4>3. Holding(s, i)'
        BY <3>4, <4>1 DEF Holding
      <4> QED
        BY <2>3, <3>1, <3>5, <4>2, <4>3 DEF CopyInv
    <3>7. CASE o = Drops \/ o = Fails
      <4>1. ~o.copy
        BY <3>7 DEF Drops, Fails
      <4>2. copies'[s][i] = copies[s][i] /\ faults'[s][i] = faults[s][i]
        BY <3>2, <4>1
      <4> QED
        BY <2>3, <3>1, <3>5, <4>2 DEF CopyInv
    <3>8. CASE o = Loses
      <4>1. o.copy /\ o.answer = "error"
        BY <3>8 DEF Loses
      <4>2. copies'[s][i] = copies[s][i] + 1 /\ faults'[s][i] = faults[s][i] + 1
        BY <3>2, <4>1 DEF TypeOK
      <4> QED
        BY <2>3, <3>1, <3>5, <4>2 DEF CopyInv
    <3> QED
      BY <3>3, <3>6, <3>7, <3>8
  <2> QED
    BY <2>1, <2>2, <2>3
<1>11. ASSUME NEW s \in Senders, NEW i \in Ids, SkipStalled(s, i)
       PROVE  CopyInv(t, j)'
  <2>1. CASE t # s
    BY <1>0, <1>11, <2>1, BystanderKeeps DEF SkipStalled, TypeOK
  <2>2. CASE t = s
    <3>1. ~Holding(t, j) /\ ~Holding(t, j)'
      BY <1>11, <2>2 DEF SkipStalled, Holding
    <3> QED
      BY <1>0, <1>11, <2>2, <3>1 DEF SkipStalled, CopyInv, TypeOK
  <2> QED
    BY <2>1, <2>2
<1>12. ASSUME NEW s \in Senders, NEW i \in Ids, MarkSent(s, i)
       PROVE  CopyInv(t, j)'
  <2>1. CASE t # s
    BY <1>0, <1>12, <2>1, BystanderKeeps DEF MarkSent, TypeOK
  <2>2. CASE t = s
    <3>1. ~Holding(t, j)'
      BY <1>12, <2>2 DEF MarkSent, Holding, TypeOK
    <3>2. Holding(t, j) => j = i
      BY <1>12, <2>2, CurrentUnique DEF MarkSent, Holding
    <3>3. i \notin batch'[t] /\ batch'[t] \subseteq batch[t] /\ status'[i] = "sent"
      BY <1>12, <2>2 DEF MarkSent, TypeOK
    <3>4. status[j] = "sent" => status'[j] = "sent"
      BY <1>12 DEF MarkSent, TypeOK
    <3> QED
      BY <1>0, <1>12, <2>2, <3>1, <3>2, <3>3, <3>4 DEF MarkSent, CopyInv
  <2> QED
    BY <2>1, <2>2
<1>13. ASSUME NEW s \in Senders, NEW i \in Ids, Postpone(s, i)
       PROVE  CopyInv(t, j)'
  <2>1. CASE t # s
    BY <1>0, <1>13, <2>1, BystanderKeeps DEF Postpone, TypeOK
  <2>2. CASE t = s
    <3>1. ~Holding(t, j) /\ ~Holding(t, j)'
      BY <1>13, <2>2 DEF Postpone, Holding, TypeOK
    <3>2. batch'[t] \subseteq batch[t]
      BY <1>13, <2>2 DEF Postpone, TypeOK
    <3> QED
      BY <1>0, <1>13, <2>2, <3>1, <3>2 DEF Postpone, CopyInv
  <2> QED
    BY <2>1, <2>2
<1>14. ASSUME NEW s \in Senders, NEW i \in Ids, MarkFails(s, i)
       PROVE  CopyInv(t, j)'
  <2>1. CASE t # s
    BY <1>0, <1>14, <2>1, BystanderKeeps DEF MarkFails, TypeOK
  <2>2. CASE t = s
    <3>1. batch'[t] = {} /\ ~Holding(t, j)'
      BY <1>14, <2>2 DEF MarkFails, Holding, TypeOK
    <3>2. Holding(t, j) => j = i
      BY <1>14, <2>2, CurrentUnique DEF MarkFails, Holding
    <3>3. faults'[t][j] = IF j = i THEN faults[t][j] + 1 ELSE faults[t][j]
      BY <1>14, <2>2 DEF MarkFails, TypeOK
    <3>4. copies[t][j] \in Nat /\ faults[t][j] \in Nat
      BY DEF TypeOK
    <3> QED
      BY <1>0, <1>14, <2>2, <3>1, <3>2, <3>3, <3>4 DEF MarkFails, CopyInv
  <2> QED
    BY <2>1, <2>2
<1>15. ASSUME NEW s \in Senders, Crash(s)
       PROVE  CopyInv(t, j)'
  <2>1. CASE t # s
    BY <1>0, <1>15, <2>1, BystanderKeeps DEF Crash, TypeOK
  <2>2. CASE t = s
    <3>1. batch'[t] = {} /\ ~Holding(t, j)'
      BY <1>15, <2>2 DEF Crash, Holding, TypeOK
    <3>2. faults'[t][j] = IF Holding(t, j) THEN faults[t][j] + 1 ELSE faults[t][j]
      BY <1>15, <2>2 DEF Crash, Holding, TypeOK
    <3>3. copies[t][j] \in Nat /\ faults[t][j] \in Nat
      BY DEF TypeOK
    <3> QED
      BY <1>0, <1>15, <2>2, <3>1, <3>2, <3>3 DEF Crash, CopyInv
  <2> QED
    BY <2>1, <2>2
<1> QED
  BY <1>1, <1>2, <1>3, <1>4, <1>5, <1>6, <1>7, <1>8, <1>9, <1>10, <1>11,
     <1>12, <1>13, <1>14, <1>15 DEF Next, Process, Record

(* Whatever the number of replicas, none of them puts out a row a second    *)
(* time unless a crash, a failed mark or a lost answer made it forget.      *)
THEOREM NoUnexplainedDuplicate == Spec => []DuplicatesNeedFault
<1>1. Init => AllCopyInv
  BY DEF Init, AllCopyInv, CopyInv, Holding
<1>2. TypeOK /\ AllCopyInv => DuplicatesNeedFault
  BY DEF TypeOK, AllCopyInv, CopyInv, DuplicatesNeedFault
<1> QED
  BY <1>1, <1>2, CopyStep, Typing, PTL DEF Spec

-----------------------------------------------------------------------------
(* Nothing is lost in the queue.                                            *)

(* A copy of the row went out, or it is a letter about a past event. *)
Accounted(i) ==
  \/ \E s \in Senders : copies[s][i] > 0
  \/ ChannelOf[i] = Mail /\ i \in started

(* A row is accounted for before it is marked, not only after. *)
LossInv ==
  \A i \in Ids :
    /\ status[i] = "sent" => Accounted(i)
    /\ \A s \in Senders : Holding(s, i) => Accounted(i)

(* Copies and started events are never taken back. *)
LEMMA AccountedStays ==
  ASSUME TypeOK, TypeOK', [Next]_vars, NEW i \in Ids, Accounted(i)
  PROVE  Accounted(i)'
<1>1. started \subseteq started'
  BY DEF Next, vars, queueVars, senderVars, ghostVars, Tick, Enqueue, EventStarts,
         ChannelChanges, Select, SelectFails, EndRead, EndDrain, Crash, Process,
         Record, Deliver, SkipStalled, MarkSent, MarkFails, Postpone
<1>2. \A s \in Senders : copies'[s][i] >= copies[s][i]
  <2>1. CASE copies' = copies
    BY <2>1 DEF TypeOK
  <2>2. ASSUME NEW t \in Senders, NEW j \in Ids, Deliver(t, j)
        PROVE  \A s \in Senders : copies'[s][i] >= copies[s][i]
    BY <2>2 DEF Deliver, TypeOK
  <2> QED
    BY <2>1, <2>2 DEF Next, vars, ghostVars, Tick, Enqueue, EventStarts,
         ChannelChanges, Select, SelectFails, EndRead, EndDrain, Crash, Process,
         Record, SkipStalled, MarkSent, MarkFails, Postpone
<1>3. \A s \in Senders : copies[s][i] \in Nat /\ copies'[s][i] \in Nat
  BY DEF TypeOK
<1> QED
  BY <1>1, <1>2, <1>3 DEF Accounted

(* Every step keeps rows accounted for. *)
LEMMA LossStep == TypeOK /\ TypeOK' /\ LossInv /\ [Next]_vars => LossInv'
<1> SUFFICES ASSUME TypeOK, TypeOK', LossInv, [Next]_vars, NEW j \in Ids,
                    ~Accounted(j)'
             PROVE  status'[j] # "sent" /\ \A t \in Senders : ~Holding(t, j)'
  BY DEF LossInv
<1>0. ~Accounted(j) /\ status[j] # "sent" /\ \A t \in Senders : ~Holding(t, j)
  BY AccountedStays DEF LossInv
<1>1. status'[j] # "sent"
  <2>1. CASE status' = status
    BY <1>0, <2>1
  <2>2. ASSUME NEW i \in Ids, Enqueue(i)
        PROVE  status'[j] # "sent"
    BY <1>0, <2>2 DEF Enqueue, TypeOK
  <2>3. ASSUME NEW s \in Senders, NEW i \in Ids, MarkSent(s, i)
        PROVE  status'[j] # "sent"
    BY <1>0, <2>3 DEF MarkSent, Holding, TypeOK
  <2> QED
    BY <2>1, <2>2, <2>3 DEF Next, vars, queueVars, senderVars, ghostVars, Tick,
       EventStarts, ChannelChanges, Select, SelectFails, EndRead, EndDrain, Crash,
       Process, Record, Deliver, SkipStalled, MarkFails, Postpone
<1>2. ASSUME NEW t \in Senders, Holding(t, j)'
      PROVE  FALSE
  <2>1. pc'[t] = "recording" /\ result'[t] = "ok" /\ j \in batch'[t]
        /\ \A k \in batch'[t] : j <= k
    BY <1>2 DEF Holding, Current
  <2>2. ~(pc[t] = "recording" /\ result[t] = "ok" /\ batch[t] = batch'[t])
    BY <1>0, <2>1 DEF Holding, Current
  <2>3. PICK i \in Ids : Deliver(t, i)
    <3>1. PICK s \in Senders, i \in Ids : Deliver(s, i)
      BY <2>1, <2>2 DEF Next, vars, queueVars, senderVars, ghostVars, Tick, Enqueue,
           EventStarts, ChannelChanges, Select, SelectFails, EndRead, EndDrain, Crash,
           Process, Record, SkipStalled, MarkSent, MarkFails, Postpone, TypeOK
    <3>2. s # t => pc'[t] = pc[t] /\ result'[t] = result[t] /\ batch'[t] = batch[t]
      BY <3>1 DEF Deliver, TypeOK
    <3> QED
      BY <2>1, <2>2, <3>1, <3>2
  <2>4. i = j
    BY <2>1, <2>3, OutboxAssumption DEF Deliver, Current
  <2>5. PICK o \in Outcomes(i) :
          /\ result' = [result EXCEPT ![t] = o.answer]
          /\ copies' = IF o.copy THEN [copies EXCEPT ![t][i] = @ + 1] ELSE copies
    BY <2>3 DEF Deliver
  <2>6. o \in {Sends, Drops, Fails, Loses} /\ o.answer = "ok"
    BY <2>1, <2>5, OutcomesKnown DEF TypeOK
  <2>7. CASE o = Sends
    <3>1. copies'[t][j] = copies[t][j] + 1 /\ copies[t][j] \in Nat
      BY <2>4, <2>5, <2>7 DEF Sends, TypeOK
    <3> QED
      BY <3>1 DEF Accounted
  <2>8. CASE o # Sends
    <3>1. o = Drops /\ Drops # Sends
      BY <2>6, <2>8 DEF Sends, Drops, Fails, Loses
    <3>2. Drops \notin {Fails} /\ Drops \notin {Sends, Fails, Loses}
          /\ Drops \notin {Sends}
      BY DEF Sends, Drops, Fails, Loses
    <3>3. channel[ChannelOf[i]] \in {"up", "flaky", "down"}
      BY OutboxAssumption DEF TypeOK, ChannelStates
    <3>4. ChannelOf[i] = Mail /\ i \in started
      BY <2>5, <3>1, <3>2, <3>3 DEF Outcomes
    <3> QED
      BY <2>3, <2>4, <3>4 DEF Deliver, Accounted
  <2> QED
    BY <2>7, <2>8
<1> QED
  BY <1>1, <1>2

(* A row marked as sent was put out, or its letter had become pointless.    *)
THEOREM NothingLost == Spec => []NothingIsLost
<1>1. Init => LossInv
  BY DEF Init, LossInv, Holding
<1>2. LossInv => NothingIsLost
  BY DEF LossInv, Accounted, NothingIsLost
<1> QED
  BY <1>1, <1>2, LossStep, Typing, PTL DEF Spec

-----------------------------------------------------------------------------
(* A single replica.                                                        *)

OneReplica == \A s, t \in Senders : s = t

(* Every step of a single replica keeps its batch queued and due. *)
LEMMA PauseStep ==
  ASSUME OneReplica
  PROVE  TypeOK /\ PauseRespected /\ [Next]_vars => PauseRespected'
<1> SUFFICES ASSUME TypeOK, PauseRespected, [Next]_vars,
                    NEW t \in Senders, NEW j \in Ids, j \in batch'[t]
             PROVE  status'[j] = "queued" /\ wait'[j] = 0
  BY DEF PauseRespected
<1>0. j \in batch[t] => status[j] = "queued" /\ wait[j] = 0
  BY DEF PauseRespected
<1> USE DEF queueVars, senderVars, ghostVars
<1>1. CASE Tick
  BY <1>0, <1>1 DEF Tick
<1>2. ASSUME NEW i \in Ids, Enqueue(i)
      PROVE  status'[j] = "queued" /\ wait'[j] = 0
  BY <1>0, <1>2 DEF Enqueue, TypeOK
<1>3. ASSUME NEW s \in Senders, Select(s)
      PROVE  status'[j] = "queued" /\ wait'[j] = 0
  <2>1. s = t
    BY DEF OneReplica
  <2> QED
    BY <1>3, <2>1 DEF Select, Oldest, Due, TypeOK
<1>4. ASSUME NEW s \in Senders, NEW i \in Ids, MarkSent(s, i)
      PROVE  status'[j] = "queued" /\ wait'[j] = 0
  <2>1. s = t
    BY DEF OneReplica
  <2>2. j \in batch[t] /\ j # i
    BY <1>4, <2>1 DEF MarkSent, TypeOK
  <2> QED
    BY <1>0, <1>4, <2>2 DEF MarkSent, TypeOK
<1>5. ASSUME NEW s \in Senders, NEW i \in Ids, Postpone(s, i)
      PROVE  status'[j] = "queued" /\ wait'[j] = 0
  <2>1. s = t
    BY DEF OneReplica
  <2>2. j \in batch[t] /\ j # i
    BY <1>5, <2>1 DEF Postpone, TypeOK
  <2>3. wait'[j] = wait[j]
    BY <1>5, <2>2 DEF Postpone, TypeOK
  <2> QED
    BY <1>0, <1>5, <2>2, <2>3 DEF Postpone
<1>6. ASSUME UNCHANGED <<status, wait>>, batch'[t] \subseteq batch[t]
      PROVE  status'[j] = "queued" /\ wait'[j] = 0
  BY <1>0, <1>6
<1>7. ASSUME NEW s \in Senders, NEW i \in Ids, SkipStalled(s, i) \/ MarkFails(s, i)
      PROVE  batch'[t] \subseteq batch[t] /\ UNCHANGED <<status, wait>>
  BY <1>7 DEF SkipStalled, MarkFails, TypeOK
<1>8. ASSUME NEW s \in Senders, Crash(s)
      PROVE  batch'[t] \subseteq batch[t] /\ UNCHANGED <<status, wait>>
  BY <1>8 DEF Crash, TypeOK
<1>9. ASSUME UNCHANGED <<status, wait, batch>>
      PROVE  status'[j] = "queued" /\ wait'[j] = 0
  BY <1>0, <1>9
<1> QED
  BY <1>1, <1>2, <1>3, <1>4, <1>5, <1>6, <1>7, <1>8, <1>9
     DEF Next, vars, Process, Record, EventStarts, ChannelChanges, SelectFails,
         EndRead, EndDrain, Deliver

(* A single replica leaves a row alone while its pause runs and after it is *)
(* sent.                                                                    *)
THEOREM SingleReplicaRespectsPauses == OneReplica => (Spec => []PauseRespected)
<1> SUFFICES ASSUME OneReplica
             PROVE  Spec => []PauseRespected
  OBVIOUS
<1>1. Init => PauseRespected
  BY DEF Init, PauseRespected
<1> QED
  BY <1>1, PauseStep, Typing, PTL DEF Spec

(* Each step of a single replica is a step of the promise, or none. *)
LEMMA PromiseStep ==
  TypeOK /\ LossInv /\ PauseRespected /\ [Next]_vars
    => [Promise!PNext]_(Promise!pvars)
<1> SUFFICES ASSUME TypeOK, LossInv, PauseRespected, [Next]_vars
             PROVE  [Promise!PNext]_(Promise!pvars)
  OBVIOUS
<1> USE DEF Promise!PNext, queueVars, senderVars, ghostVars
<1>1. CASE UNCHANGED <<status, started, copies>>
  BY <1>1 DEF Promise!pvars
<1>2. ASSUME NEW i \in Ids, Enqueue(i)
      PROVE  Promise!Accept(i)
  BY <1>2 DEF Enqueue, Promise!Accept, TypeOK
<1>3. ASSUME NEW i \in Ids, EventStarts(i)
      PROVE  Promise!Lapse(i)
  BY <1>3 DEF EventStarts, Promise!Lapse
<1>4. ASSUME NEW s \in Senders, NEW i \in Ids, Deliver(s, i)
      PROVE  UNCHANGED <<status, started, copies>> \/ Promise!PutOut(s, i)
  <2>1. status[i] = "queued"
    BY <1>4 DEF Deliver, Current, PauseRespected
  <2>2. copies' = copies \/ copies' = [copies EXCEPT ![s][i] = @ + 1]
    BY <1>4 DEF Deliver
  <2> QED
    BY <1>4, <2>1, <2>2 DEF Deliver, Promise!PutOut, TypeOK
<1>5. ASSUME NEW s \in Senders, NEW i \in Ids, MarkSent(s, i)
      PROVE  Promise!Settle(i)
  <2>1. status[i] = "queued"
    BY <1>5 DEF MarkSent, Current, PauseRespected
  <2>2. i \in started \/ \E t \in Senders : copies[t][i] > 0
    BY <1>5 DEF MarkSent, LossInv, Holding, Accounted
  <2> QED
    BY <1>5, <2>1, <2>2 DEF MarkSent, Promise!Settle, TypeOK
<1>6. \/ UNCHANGED <<status, started, copies>>
      \/ \E i \in Ids : Enqueue(i) \/ EventStarts(i)
      \/ \E s \in Senders, i \in Ids : Deliver(s, i) \/ MarkSent(s, i)
  BY DEF Next, vars, Process, Record, Tick, ChannelChanges, Select, SelectFails,
         EndRead, EndDrain, Crash, SkipStalled, MarkFails, Postpone
<1>7. UNCHANGED <<status, started, copies>> \/ Promise!PNext
  BY <1>2, <1>3, <1>4, <1>5, <1>6
<1> QED
  BY <1>1, <1>7

(* A single replica keeps the promise of DeliveryPromise: copies go out     *)
(* only while the message is owed, and it is settled only after one did.    *)
THEOREM SingleReplicaKeepsPromise == OneReplica => (Spec => KeepsPromise)
<1> SUFFICES ASSUME OneReplica
             PROVE  Spec => KeepsPromise
  OBVIOUS
<1>1. Init => Promise!PInit
  BY DEF Init, Promise!PInit
<1>2. Spec => []TypeOK
  BY Typing
<1>3. Init => LossInv /\ PauseRespected
  BY DEF Init, LossInv, Holding, PauseRespected
<1>4. TypeOK /\ PauseRespected /\ [Next]_vars => PauseRespected'
  BY PauseStep
<1>5. Spec => []LossInv /\ []PauseRespected
  BY <1>2, <1>3, <1>4, LossStep, PTL DEF Spec
<1>6. Spec => [][Promise!PNext]_(Promise!pvars)
  BY <1>2, <1>5, PromiseStep, PTL DEF Spec
<1> QED
  BY <1>1, <1>6, PTL DEF Spec, KeepsPromise, Promise!PSpec
=============================================================================
