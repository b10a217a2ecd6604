---------------------------- MODULE NotifyOutbox ----------------------------
(***************************************************************************)
(* The notification queue of the afisha backend (events/notify.go): rows   *)
(* of registration_notify_outbox, written in the transaction of the signup *)
(* they tell about, and the background senders that drain them every ten   *)
(* seconds, one per replica of the backend.                                *)
(*                                                                         *)
(* Time is counted in sender ticks.  A row's text, recipient and last      *)
(* error are left out; what is kept is its channel, whether its channel    *)
(* can ever accept it, and whether the event it is about has started.      *)
(***************************************************************************)
EXTENDS Naturals, FiniteSets

CONSTANTS
  Ids,        \* row ids; the queue is read in the order of ids
  Channels,   \* delivery channels: telegram, email, push
  Configured, \* channels that have credentials
  Mail,       \* the channel whose letters become pointless at the event's start
  ChannelOf,  \* the channel of each row
  Poison,     \* rows their channel never accepts (a dead address)
  Senders,    \* replicas of the backend, one sender each
  Limit,      \* rows one drain reads (20 in the code)
  Cap,        \* longest pause after a failure, in ticks (30 in the code)
  MaxFaults   \* bound: crashes, lost answers and database errors of a behaviour

ASSUME OutboxAssumption ==
  /\ Ids \subseteq Nat
  /\ IsFiniteSet(Ids)
  /\ Configured \subseteq Channels
  /\ Mail \in Channels
  /\ ChannelOf \in [Ids -> Channels]
  /\ Poison \subseteq Ids
  /\ Limit \in Nat \ {0}
  /\ Cap \in Nat \ {0}
  /\ MaxFaults \in Nat

VARIABLES
  status,     \* each row: not yet committed, queued (sent_at IS NULL), sent
  attempts,   \* failed attempts of a row, counted up to Cap
  wait,       \* ticks until next_attempt_at
  started,    \* rows whose event has already started
  channel,    \* each channel: up, down, or flaky
  armed,      \* senders whose ticker has fired and not been served
  pc,         \* where each sender is in drain
  batch,      \* rows of the current batch a sender has not finished
  stalled,    \* channels that failed in the current drain of a sender
  result,     \* what deliver returned for the row being processed
  copies,     \* copies of each row that each sender has really put out
  faults,     \* faults that made a sender forget a copy it put out
  budget      \* faults the environment may still cause

queueVars  == <<status, attempts, wait>>
senderVars == <<pc, batch, stalled, result>>
ghostVars  == <<copies, faults, budget>>
vars == <<queueVars, started, channel, armed, senderVars, ghostVars>>

ChannelStates == {"up", "flaky", "down"}
Results == {"none", "ok", "error"}

(* Mutant: the pause grows without bound. *)
BumpUncapped(n) == n + 1

(* Capped addition: only min(attempts + 1, 30) is ever used by the code. *)
Bump(n) == IF n < Cap THEN n + 1 ELSE Cap

Init ==
  /\ status   = [i \in Ids |-> "absent"]
  /\ attempts = [i \in Ids |-> 0]
  /\ wait     = [i \in Ids |-> 0]
  /\ started  = {}
  /\ channel  \in [Channels -> ChannelStates]
  /\ armed    = {}
  /\ pc       = [s \in Senders |-> "idle"]
  /\ batch    = [s \in Senders |-> {}]
  /\ stalled  = [s \in Senders |-> {}]
  /\ result   = [s \in Senders |-> "none"]
  /\ copies   = [s \in Senders |-> [i \in Ids |-> 0]]
  /\ faults   = [s \in Senders |-> [i \in Ids |-> 0]]
  /\ budget   = MaxFaults

-----------------------------------------------------------------------------
(* The environment.                                                        *)

(* A signup commits with its row.  Ids come from a sequence at INSERT but   *)
(* rows appear at COMMIT, so a smaller id may appear after a larger one.    *)
Enqueue(i) ==
  /\ status[i] = "absent"
  /\ status' = [status EXCEPT ![i] = "queued"]
  /\ UNCHANGED <<attempts, wait, started, channel, armed, senderVars, ghostVars>>

(* Telegram, the mail relay or the application database fails or recovers. *)
ChannelChanges(c) ==
  /\ \E st \in ChannelStates \ {channel[c]} : channel' = [channel EXCEPT ![c] = st]
  /\ UNCHANGED <<queueVars, started, armed, senderVars, ghostVars>>

EventStarts(i) ==
  /\ ChannelOf[i] = Mail /\ i \notin started
  /\ started' = started \union {i}
  /\ UNCHANGED <<queueVars, channel, armed, senderVars, ghostVars>>

(* Ten seconds pass.  The ticker's channel holds one tick: the ticks that   *)
(* fire during a long drain are merged.                                     *)
Tick ==
  /\ wait' = [i \in Ids |-> IF wait[i] > 0 THEN wait[i] - 1 ELSE 0]
  /\ armed' = Senders
  /\ UNCHANGED <<status, attempts, started, channel, senderVars, ghostVars>>

-----------------------------------------------------------------------------
(* drain: read a batch, then deliver and record its rows one by one.       *)

(* Mutant: sent rows are read again.                                       *)
DueForgettingSent == {i \in Ids : status[i] # "absent" /\ wait[i] = 0}

Due == {i \in Ids : status[i] = "queued" /\ wait[i] = 0}

(* Rows locked by a SELECT ... FOR UPDATE in progress.  The statement runs  *)
(* outside a transaction, so its locks end with it.                         *)
Locked == UNION {batch[s] : s \in {t \in Senders : pc[t] = "reading"}}

(* ORDER BY id LIMIT n. *)
Oldest(S, n) == {i \in S : Cardinality({j \in S : j < i}) < n}

Select(s) ==
  /\ pc[s] = "idle" /\ s \in armed
  /\ armed' = armed \ {s}
  /\ pc' = [pc EXCEPT ![s] = "reading"]
  /\ batch' = [batch EXCEPT ![s] = Oldest(Due \ Locked, Limit)]
  /\ stalled' = [stalled EXCEPT ![s] = {}]
  /\ UNCHANGED <<queueVars, started, channel, result, ghostVars>>

(* The query fails or the connection breaks: drain returns, and the next    *)
(* tick tries again.                                                        *)
SelectFails(s) ==
  /\ pc[s] = "idle" /\ s \in armed
  /\ budget > 0
  /\ armed' = armed \ {s}
  /\ budget' = budget - 1
  /\ UNCHANGED <<queueVars, started, channel, senderVars, copies, faults>>

(* The statement ends: its row locks are gone before anything is sent. *)
EndRead(s) ==
  /\ pc[s] = "reading"
  /\ pc' = [pc EXCEPT ![s] = "sending"]
  /\ UNCHANGED <<queueVars, started, channel, armed, batch, stalled, result, ghostVars>>

(* The row of its batch a sender works on. *)
Current(s, i) == i \in batch[s] /\ \A j \in batch[s] : i <= j

(* What deliver may return for a row, and whether a copy really went out.   *)
(* In a configured mail channel a letter about an event that has started is *)
(* dropped and counted as sent; an answer lost on the way back is an error  *)
(* after the fact.                                                          *)
Sends  == [answer |-> "ok", copy |-> TRUE]
Drops  == [answer |-> "ok", copy |-> FALSE]
Fails  == [answer |-> "error", copy |-> FALSE]
Loses  == [answer |-> "error", copy |-> TRUE]

(* Mutant: a failed delivery is reported as done. *)
OutcomesSwallowed(i) == IF channel[ChannelOf[i]] = "up" THEN {Sends} ELSE {Drops}

Outcomes(i) ==
  LET c == ChannelOf[i] IN
  CASE c \notin Configured -> {Fails}
    [] c \in Configured /\ c = Mail /\ i \in started -> {Drops}
    [] c \in Configured /\ ~(c = Mail /\ i \in started) ->
         CASE i \in Poison \/ channel[c] = "down" -> {Fails}
           [] i \notin Poison /\ channel[c] = "up" -> {Sends}
           [] i \notin Poison /\ channel[c] = "flaky" -> {Sends, Fails, Loses}

(* Mutant: one failure ends the drain of every channel. *)
StalledTogether(s, i) == stalled[s] # {}

Stalled(s, i) == ChannelOf[i] \in stalled[s]

Deliver(s, i) ==
  /\ pc[s] = "sending" /\ Current(s, i)
  /\ ~Stalled(s, i)
  /\ \E o \in Outcomes(i) :
       /\ result' = [result EXCEPT ![s] = o.answer]
       /\ copies' = IF o.copy THEN [copies EXCEPT ![s][i] = @ + 1] ELSE copies
       /\ IF o.copy /\ o.answer = "error"
            THEN /\ budget > 0
                 /\ budget' = budget - 1
                 /\ faults' = [faults EXCEPT ![s][i] = @ + 1]
            ELSE UNCHANGED <<budget, faults>>
  /\ pc' = [pc EXCEPT ![s] = "recording"]
  /\ UNCHANGED <<queueVars, started, channel, armed, batch, stalled>>

(* A channel that failed in this drain is left until the next one. *)
SkipStalled(s, i) ==
  /\ pc[s] = "sending" /\ Current(s, i)
  /\ Stalled(s, i)
  /\ batch' = [batch EXCEPT ![s] = @ \ {i}]
  /\ UNCHANGED <<queueVars, started, channel, armed, pc, stalled, result, ghostVars>>

(* sent_at = NOW() WHERE sent_at IS NULL: a row another replica has marked  *)
(* in the meantime stays as it is.                                          *)
MarkSent(s, i) ==
  /\ pc[s] = "recording" /\ Current(s, i) /\ result[s] = "ok"
  /\ i \notin Locked
  /\ status' = [status EXCEPT ![i] = "sent"]
  /\ IF status[i] = "sent"
       THEN UNCHANGED <<attempts, wait>>
       ELSE /\ attempts' = [attempts EXCEPT ![i] = Bump(@)]
            /\ wait' = [wait EXCEPT ![i] = 0]
  /\ batch' = [batch EXCEPT ![s] = @ \ {i}]
  /\ result' = [result EXCEPT ![s] = "none"]
  /\ pc' = [pc EXCEPT ![s] = "sending"]
  /\ UNCHANGED <<started, channel, armed, stalled, ghostVars>>

(* The mark itself fails: drain returns and leaves the rest of the batch;   *)
(* the row is sent, and still queued.                                       *)
MarkFails(s, i) ==
  /\ pc[s] = "recording" /\ Current(s, i) /\ result[s] = "ok"
  /\ budget > 0
  /\ budget' = budget - 1
  /\ faults' = [faults EXCEPT ![s][i] = @ + 1]
  /\ batch' = [batch EXCEPT ![s] = {}]
  /\ result' = [result EXCEPT ![s] = "none"]
  /\ pc' = [pc EXCEPT ![s] = "idle"]
  /\ UNCHANGED <<queueVars, started, channel, armed, stalled, copies>>

(* The pause of min(attempts + 1, Cap) ticks starts between two ticks, so   *)
(* it ends before that many further ticks only for a drain that runs late.  *)
Pause(i) == {Bump(attempts[i]), Bump(attempts[i]) + 1}

(* A failed delivery postpones the row and silences its channel for the     *)
(* rest of the drain.  The UPDATE has no sent_at guard, and its own error   *)
(* is ignored.                                                              *)
Postpone(s, i) ==
  /\ pc[s] = "recording" /\ Current(s, i) /\ result[s] = "error"
  /\ i \notin Locked
  /\ \/ /\ attempts' = [attempts EXCEPT ![i] = Bump(@)]
        /\ \E w \in Pause(i) : wait' = [wait EXCEPT ![i] = w]
        /\ UNCHANGED budget
     \/ /\ budget > 0
        /\ budget' = budget - 1
        /\ UNCHANGED <<attempts, wait>>
  /\ stalled' = [stalled EXCEPT ![s] = @ \union {ChannelOf[i]}]
  /\ batch' = [batch EXCEPT ![s] = @ \ {i}]
  /\ result' = [result EXCEPT ![s] = "none"]
  /\ pc' = [pc EXCEPT ![s] = "sending"]
  /\ UNCHANGED <<status, started, channel, armed, copies, faults>>

EndDrain(s) ==
  /\ pc[s] = "sending" /\ batch[s] = {}
  /\ pc' = [pc EXCEPT ![s] = "idle"]
  /\ UNCHANGED <<queueVars, started, channel, armed, batch, stalled, result, ghostVars>>

(* The process dies and is restarted: only what is in the database stays.   *)
Crash(s) ==
  /\ budget > 0
  /\ budget' = budget - 1
  /\ faults' = [faults EXCEPT ![s] =
       [i \in Ids |-> IF pc[s] = "recording" /\ result[s] = "ok" /\ Current(s, i)
                        THEN faults[s][i] + 1 ELSE faults[s][i]]]
  /\ armed' = armed \ {s}
  /\ pc' = [pc EXCEPT ![s] = "idle"]
  /\ batch' = [batch EXCEPT ![s] = {}]
  /\ stalled' = [stalled EXCEPT ![s] = {}]
  /\ result' = [result EXCEPT ![s] = "none"]
  /\ UNCHANGED <<queueVars, started, channel, copies>>

-----------------------------------------------------------------------------
Record(s, i) == MarkSent(s, i) \/ Postpone(s, i)

Process(s, i) ==
  Deliver(s, i) \/ SkipStalled(s, i) \/ Record(s, i) \/ MarkFails(s, i)

Next ==
  \/ Tick
  \/ \E i \in Ids : Enqueue(i) \/ EventStarts(i)
  \/ \E c \in Channels : ChannelChanges(c)
  \/ \E s \in Senders :
       \/ Select(s) \/ SelectFails(s) \/ EndRead(s) \/ EndDrain(s) \/ Crash(s)
       \/ \E i \in Ids : Process(s, i)

Spec == Init /\ [][Next]_vars

(* A drain is over before the next tick: twenty deliveries take less than   *)
(* the pauses they are measured by.                                         *)
PunctualTick == Tick /\ armed = {} /\ \A s \in Senders : pc[s] = "idle"

PunctualNext == Next /\ (Tick => PunctualTick)

(* Time passes, and a replica that runs gets on with its drain.  A sender   *)
(* waiting for another's statement to release a row lock is served by the   *)
(* database in turn, hence strong fairness.  Nothing is assumed of signups, *)
(* channels or faults.                                                      *)
Drain(s) ==
  \/ Select(s) \/ EndRead(s) \/ EndDrain(s)
  \/ \E i \in Ids : Deliver(s, i) \/ SkipStalled(s, i) \/ Record(s, i)

Fairness ==
  /\ WF_vars(PunctualTick)
  /\ \A s \in Senders : SF_vars(Drain(s))

FairSpec == Init /\ [][PunctualNext]_vars /\ Fairness

-----------------------------------------------------------------------------
(* The variables keep their ranges; a sender between two drains, or before  *)
(* the next delivery, holds no answer.                                      *)
TypeOK ==
  /\ status   \in [Ids -> {"absent", "queued", "sent"}]
  /\ attempts \in [Ids -> 0..Cap]
  /\ wait     \in [Ids -> 0..Cap + 1]
  /\ started  \subseteq Ids
  /\ channel  \in [Channels -> ChannelStates]
  /\ armed    \subseteq Senders
  /\ pc       \in [Senders -> {"idle", "reading", "sending", "recording"}]
  /\ batch    \in [Senders -> SUBSET Ids]
  /\ stalled  \in [Senders -> SUBSET Channels]
  /\ result   \in [Senders -> Results]
  /\ \A s \in Senders : (result[s] # "none") <=> (pc[s] = "recording")
  /\ copies   \in [Senders -> [Ids -> Nat]]
  /\ faults   \in [Senders -> [Ids -> Nat]]
  /\ budget   \in Nat

(* A row is marked sent only when a copy of it has gone out, or when it is   *)
(* a letter about an event that has started: nothing is lost in the queue,   *)
(* whatever crashes between sending and recording (notify.go:222-246).       *)
NothingIsLost ==
  \A i \in Ids : status[i] = "sent" =>
    \/ \E s \in Senders : copies[s][i] > 0
    \/ ChannelOf[i] = Mail /\ i \in started

(* A replica puts out a second copy of a row only after a fault made it      *)
(* forget the first: a crash or a failed mark after the delivery, or an      *)
(* answer lost on the way back (notify.go:222-246).                          *)
DuplicatesNeedFault ==
  \A s \in Senders, i \in Ids : copies[s][i] <= 1 + faults[s][i]

(* While a row waits out its pause no drain is about to touch it, and a row  *)
(* already sent is in no batch (notify.go:181-184, 231-236).                 *)
PauseRespected ==
  \A s \in Senders, i \in Ids :
    i \in batch[s] => status[i] = "queued" /\ wait[i] = 0

(* The reason given for SKIP LOCKED, "a second replica" (notify.go:177): a   *)
(* row is handed to one replica, so that without any fault no two replicas   *)
(* put out a copy of the same row.                                           *)
OneReplicaPerRow ==
  \A s, t \in Senders, i \in Ids :
    s # t /\ copies[s][i] > 0 /\ copies[t][i] > 0 =>
      faults[s][i] + faults[t][i] > 0

Deliverable(i) == i \notin Poison /\ ChannelOf[i] \in Configured

(* Older queued rows that may fail for ever: dead ones of the same channel,  *)
(* and all that are dead or of other channels.                               *)
DeadAhead(i) ==
  {j \in Poison : j < i /\ status[j] = "queued" /\ ChannelOf[j] = ChannelOf[i]}
FailingAhead(i) ==
  {j \in Ids : j < i /\ status[j] = "queued" /\ (j \in Poison \/ ChannelOf[j] # ChannelOf[i])}

(* Each drain fails at least one of them and pauses it for Cap ticks, so     *)
(* that Cap - 1 are out of the way when a batch is read: what is left has to *)
(* leave room in the batch, and some drain has to find none of its channel.  *)
WithinReach(i) ==
  /\ Cardinality(DeadAhead(i)) < Cap
  /\ Cardinality(FailingAhead(i)) < Cap + Limit - 1

(* "A failing channel must not delay the others: telegram is down, letters   *)
(* still go" (notify.go:214-216).  A row that can be delivered is settled    *)
(* once its own channel stays up, whatever the other channels do, as long as *)
(* the rows that keep failing before it are fewer than the LIMIT and the     *)
(* longest pause can bear (notify.go:181-184, 231-236).                      *)
ChannelsAreIndependent ==
  \A i \in Ids : Deliverable(i) =>
    (<>[](channel[ChannelOf[i]] = "up" /\ WithinReach(i)) =>
       (status[i] = "queued" ~> status[i] = "sent"))

(* With one replica the queue keeps its promise: it is DeliveryPromise, a    *)
(* queued row being owed and a sent row settled.                             *)
Promise == INSTANCE DeliveryPromise WITH
  debt   <- [i \in Ids |-> CASE status[i] = "absent" -> "absent"
                             [] status[i] = "queued" -> "owed"
                             [] status[i] = "sent"   -> "settled"],
  lapsed <- started,
  out    <- copies

KeepsPromise == Promise!PSpec
=============================================================================
