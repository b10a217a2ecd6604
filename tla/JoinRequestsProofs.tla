------------------------- MODULE JoinRequestsProofs -------------------------
(* Theorems about JoinRequests, for any number of connections and usernames *)
(* and any window.                                                          *)
EXTENDS JoinRequests, TLAPS

PcValues == {"idle", "locking", "checking", "inserting", "telling", "committing"}
ReplyValues == {"none", "trapped", "invalid", "already", "accepted", "error"}

(* The end of a transaction keeps the variables it sets in their ranges. *)
LEMMA FinishTypes ==
  ASSUME TypeOK, NEW c \in Clients, NEW answer \in ReplyValues, Finish(c, answer)
  PROVE  /\ lock' \in [Keys -> Clients \union {Nobody}]
         /\ pc' \in [Clients -> PcValues]
         /\ who' \in [Clients -> People]
         /\ stamp' \in [Clients -> Nat]
         /\ draft' \in [Clients -> Nat]
         /\ told' \in [Clients -> BOOLEAN]
         /\ reply' \in [Clients -> ReplyValues]
<1>1. AnyPerson \in People
  BY JoinAssumption DEF AnyPerson
<1> QED
  BY <1>1 DEF TypeOK, Finish, Released, PcValues, ReplyValues

(* The variables keep their ranges in every behaviour. *)
THEOREM Typing == Spec => []TypeOK
<1>1. Init => TypeOK
  BY JoinAssumption DEF Init, TypeOK, AnyPerson, Forms
<1>2. TypeOK /\ [Next]_vars => TypeOK'
  <2> SUFFICES ASSUME TypeOK, [Next]_vars
               PROVE  TypeOK'
    OBVIOUS
  <2> USE DEF table, local
  <2>1. CASE Tick
    BY <2>1 DEF Tick, TypeOK
  <2>2. ASSUME NEW f \in forms, NEW st \in Statuses, SetStatus(f, st)
        PROVE  TypeOK'
    <3>1. \A g \in forms : g \in Forms /\ [g EXCEPT !.status = st] \in Forms
      BY DEF TypeOK, Forms
    <3>2. forms' \subseteq Forms
      BY <2>2, <3>1 DEF SetStatus
    <3> QED
      BY <2>2, <3>2 DEF SetStatus, TypeOK
  <2>3. ASSUME NEW c \in Clients, Screen(c)
        PROVE  TypeOK'
    BY <2>3 DEF Screen, TypeOK
  <2>4. ASSUME NEW c \in Clients, NEW p \in People, Begin(c, p)
        PROVE  TypeOK'
    BY <2>4 DEF Begin, TypeOK
  <2>5. ASSUME NEW c \in Clients, Lock(c)
        PROVE  TypeOK'
    BY <2>5 DEF Lock, TypeOK, Key, Keys
  <2>6. ASSUME NEW c \in Clients, Check(c)
        PROVE  TypeOK'
    <3>1. CASE Finish(c, "already")
      BY <2>6, <3>1, FinishTypes DEF Check, TypeOK, PcValues, ReplyValues
    <3>2. CASE ~Finish(c, "already")
      BY <2>6, <3>2 DEF Check, TypeOK
    <3> QED
      BY <3>1, <3>2
  <2>7. ASSUME NEW c \in Clients, Insert(c)
        PROVE  TypeOK'
    BY <2>7 DEF Insert, TypeOK
  <2>8. ASSUME NEW c \in Clients, Tell(c)
        PROVE  TypeOK'
    BY <2>8 DEF Tell, TypeOK
  <2>9. ASSUME NEW c \in Clients, Commit(c)
        PROVE  TypeOK'
    <3>0. NewForm(c) \in Forms
      BY DEF NewForm, TypeOK, Forms, Statuses
    <3>1. forms' \subseteq Forms /\ messages' \subseteq Nat
      BY <2>9, <3>0 DEF Commit, TypeOK
    <3>2. PICK answer \in {"accepted", "error"} : Finish(c, answer)
      BY <2>9 DEF Commit
    <3> QED
      BY <2>9, <3>1, <3>2, FinishTypes DEF Commit, TypeOK, PcValues, ReplyValues
  <2>10. ASSUME NEW c \in Clients, Abort(c)
         PROVE  TypeOK'
    BY <2>10, FinishTypes DEF Abort, TypeOK, PcValues, ReplyValues
  <2>11. CASE UNCHANGED vars
    BY <2>11 DEF vars, TypeOK
  <2> QED
    BY <2>1, <2>2, <2>3, <2>4, <2>5, <2>6, <2>7, <2>8, <2>9, <2>10, <2>11
       DEF Next, Proceed
<1> QED
  BY <1>1, <1>2, PTL DEF Spec

-----------------------------------------------------------------------------
(* Forms of one username are a window apart.                                *)

(* From the check to the end a transaction holds its key. *)
HoldsKey ==
  \A c \in Clients :
    pc[c] \in {"checking", "inserting", "telling", "committing"} => lock[Key(c)] = c

(* What the check has seen is still so: no form of this username is younger *)
(* than the window.                                                         *)
StillClear ==
  \A c \in Clients : pc[c] \in {"inserting", "telling", "committing"} => Recent(c) = {}

WindowInv == HoldsKey /\ StillClear /\ NoRepeatWithinWindow

(* The end of a transaction takes nothing from the others. *)
LEMMA FinishKeepsKeys ==
  ASSUME TypeOK, HoldsKey, NEW c \in Clients, NEW answer, Finish(c, answer)
  PROVE  HoldsKey'
BY DEF TypeOK, HoldsKey, Finish, Released, Key, Keys

LEMMA WindowStep == TypeOK /\ WindowInv /\ [Next]_vars => WindowInv'
<1> SUFFICES ASSUME TypeOK, WindowInv, [Next]_vars
             PROVE  WindowInv'
  OBVIOUS
<1>0. HoldsKey /\ StillClear /\ NoRepeatWithinWindow
  BY DEF WindowInv
<1> USE DEF table, local
<1>1. CASE Tick \/ UNCHANGED vars
  BY <1>0, <1>1 DEF Tick, vars, WindowInv, HoldsKey, StillClear, NoRepeatWithinWindow,
     Key, Recent
<1>2. ASSUME NEW f \in forms, NEW st \in Statuses, SetStatus(f, st)
      PROVE  WindowInv'
  <2>1. \A g \in forms' : \E h \in forms : g.id = h.id /\ g.who = h.who /\ g.at = h.at
    <3> SUFFICES ASSUME NEW g \in forms'
                 PROVE  \E h \in forms : g.id = h.id /\ g.who = h.who /\ g.at = h.at
      OBVIOUS
    <3>1. PICK h \in forms : g = IF h.id = f.id THEN [h EXCEPT !.status = st] ELSE h
      BY <1>2 DEF SetStatus
    <3>2. h \in Forms
      BY DEF TypeOK
    <3>3. g.id = h.id /\ g.who = h.who /\ g.at = h.at
      BY <3>1, <3>2 DEF Forms
    <3> QED
      BY <3>3
  <2>2. NoRepeatWithinWindow'
    BY <1>0, <2>1 DEF NoRepeatWithinWindow
  <2>3. \A c \in Clients : Recent(c) = {} => Recent(c)' = {}
    <3> SUFFICES ASSUME NEW c \in Clients, Recent(c) = {}
                 PROVE  Recent(c)' = {}
      OBVIOUS
    <3>1. \A g \in forms' : ~(g.who = who[c] /\ g.at + Window > stamp[c])
      BY <2>1 DEF Recent
    <3> QED
      BY <1>2, <3>1 DEF SetStatus, Recent
  <2> QED
    BY <1>0, <1>2, <2>2, <2>3 DEF SetStatus, WindowInv, HoldsKey, StillClear, Key
<1>3. ASSUME NEW c \in Clients, Screen(c)
      PROVE  WindowInv'
  BY <1>0, <1>3 DEF Screen, WindowInv, HoldsKey, StillClear, NoRepeatWithinWindow, Key, Recent
<1>4. ASSUME NEW c \in Clients, NEW p \in People, Begin(c, p)
      PROVE  WindowInv'
  BY <1>0, <1>4 DEF Begin, TypeOK, WindowInv, HoldsKey, StillClear, NoRepeatWithinWindow,
     Key, Recent
<1>5. ASSUME NEW c \in Clients, Lock(c)
      PROVE  WindowInv'
  <2>1. HoldsKey'
    BY <1>0, <1>5, JoinAssumption DEF Lock, Free, TypeOK, HoldsKey, Key, Keys
  <2> QED
    BY <1>0, <1>5, <2>1 DEF Lock, TypeOK, WindowInv, StillClear, NoRepeatWithinWindow, Recent
<1>6. ASSUME NEW c \in Clients, NEW answer, Finish(c, answer), forms' = forms
      PROVE  WindowInv'
  <2>1. StillClear'
    BY <1>0, <1>6 DEF TypeOK, StillClear, Finish, Recent
  <2> QED
    BY <1>0, <1>6, <2>1, FinishKeepsKeys DEF WindowInv, NoRepeatWithinWindow
<1>7. ASSUME NEW c \in Clients, Check(c), Recent(c) = {}
      PROVE  WindowInv'
  BY <1>0, <1>7 DEF Check, TypeOK, WindowInv, HoldsKey, StillClear, NoRepeatWithinWindow,
     Key, Recent
<1>8. ASSUME NEW c \in Clients, Insert(c) \/ Tell(c)
      PROVE  WindowInv'
  BY <1>0, <1>8 DEF Insert, Tell, TypeOK, WindowInv, HoldsKey, StillClear,
     NoRepeatWithinWindow, Key, Recent
<1>9. ASSUME NEW c \in Clients, Commit(c)
      PROVE  WindowInv'
  <2>1. PICK answer \in {"accepted", "error"} : Finish(c, answer)
    BY <1>9 DEF Commit
  <2>2. forms' = forms \union {NewForm(c)} /\ pc[c] = "committing"
    BY <1>9 DEF Commit
  <2>3. HoldsKey'
    BY <1>0, <2>1, FinishKeepsKeys
  <2>4. NoRepeatWithinWindow'
    <3>1. \A f \in forms : f.who = who[c] => f.at + Window <= stamp[c]
      BY <1>0, <2>2, JoinAssumption DEF StillClear, Recent, TypeOK, Forms
    <3>2. NewForm(c).who = who[c] /\ NewForm(c).at = stamp[c]
      BY DEF NewForm
    <3> QED
      BY <1>0, <2>2, <3>1, <3>2 DEF NoRepeatWithinWindow
  <2>5. StillClear'
    <3> SUFFICES ASSUME NEW d \in Clients,
                        pc'[d] \in {"inserting", "telling", "committing"}
                 PROVE  Recent(d)' = {}
      BY DEF StillClear
    <3>1. d # c /\ pc'[d] = pc[d] /\ who'[d] = who[d] /\ stamp'[d] = stamp[d]
      BY <2>1 DEF Finish, TypeOK
    <3>2. lock[Key(d)] = d /\ lock[Key(c)] = c
      BY <1>0, <2>2, <3>1 DEF HoldsKey
    <3>3. who[d] # who[c]
      BY <3>1, <3>2 DEF Key
    <3>4. Recent(d) = {}
      BY <1>0, <3>1 DEF StillClear
    <3> QED
      BY <2>2, <3>1, <3>3, <3>4 DEF Recent, NewForm
  <2> QED
    BY <2>3, <2>4, <2>5 DEF WindowInv
<1>10. ASSUME NEW c \in Clients, Check(c) \/ Abort(c)
       PROVE  WindowInv'
  BY <1>6, <1>7, <1>10 DEF Check, Abort
<1> QED
  BY <1>1, <1>2, <1>3, <1>4, <1>5, <1>8, <1>9, <1>10 DEF Next, Proceed

(* However requests overlap, usernames share lock keys, commits go unheard  *)
(* and moderators decide, two forms of one username are a window apart.     *)
THEOREM NoRepeat == Spec => []NoRepeatWithinWindow
<1>1. Init => WindowInv
  BY DEF Init, WindowInv, HoldsKey, StillClear, NoRepeatWithinWindow
<1>2. WindowInv => NoRepeatWithinWindow
  BY DEF WindowInv
<1> QED
  BY <1>1, <1>2, WindowStep, Typing, PTL DEF Spec

-----------------------------------------------------------------------------
(* What people are told.                                                    *)

(* A request that is not answered has no answer yet, a transaction about to *)
(* commit has queued its message, and every form has one.                   *)
Unanswered == \A c \in Clients : pc[c] # "idle" => reply[c] = "none"
Announced == \A c \in Clients : pc[c] = "committing" => told[c]
Heard == \A f \in forms : f.id \in messages

AnswerInv == Unanswered /\ Announced /\ Heard

(* What an answer of a step promises. *)
Promised(c) ==
  pc[c] # "idle" /\ reply'[c] \in {"accepted", "already"} =>
    \E f \in forms' : f.who = who[c] /\ f.at + Window > stamp[c] /\ f.id \in messages'

LEMMA FinishKeepsAnswers ==
  ASSUME TypeOK, Unanswered, Announced, NEW c \in Clients, NEW answer, Finish(c, answer)
  PROVE  Unanswered' /\ Announced'
BY DEF TypeOK, Unanswered, Announced, Finish

LEMMA AnswerStep == TypeOK /\ AnswerInv /\ [Next]_vars => AnswerInv'
<1> SUFFICES ASSUME TypeOK, AnswerInv, [Next]_vars
             PROVE  AnswerInv'
  OBVIOUS
<1>0. Unanswered /\ Announced /\ Heard
  BY DEF AnswerInv
<1> USE DEF table, local
<1>1. CASE Tick \/ UNCHANGED vars
  BY <1>0, <1>1 DEF Tick, vars, AnswerInv, Unanswered, Announced, Heard
<1>2. ASSUME NEW f \in forms, NEW st \in Statuses, SetStatus(f, st)
      PROVE  AnswerInv'
  <2>1. \A g \in forms' : \E h \in forms : g.id = h.id
    <3> SUFFICES ASSUME NEW g \in forms'
                 PROVE  \E h \in forms : g.id = h.id
      OBVIOUS
    <3>1. PICK h \in forms : g = IF h.id = f.id THEN [h EXCEPT !.status = st] ELSE h
      BY <1>2 DEF SetStatus
    <3> QED
      BY <3>1 DEF TypeOK, Forms
  <2> QED
    BY <1>0, <1>2, <2>1 DEF SetStatus, AnswerInv, Unanswered, Announced, Heard
<1>3. ASSUME NEW c \in Clients, Screen(c)
      PROVE  AnswerInv'
  BY <1>0, <1>3 DEF Screen, TypeOK, AnswerInv, Unanswered, Announced, Heard
<1>4. ASSUME NEW c \in Clients, NEW p \in People, Begin(c, p)
      PROVE  AnswerInv'
  BY <1>0, <1>4 DEF Begin, TypeOK, AnswerInv, Unanswered, Announced, Heard
<1>5. ASSUME NEW c \in Clients, Lock(c) \/ Insert(c) \/ Tell(c)
      PROVE  AnswerInv'
  BY <1>0, <1>5 DEF Lock, Insert, Tell, TypeOK, AnswerInv, Unanswered, Announced, Heard
<1>6. ASSUME NEW c \in Clients, NEW answer, Finish(c, answer), UNCHANGED table
      PROVE  AnswerInv'
  BY <1>0, <1>6, FinishKeepsAnswers DEF AnswerInv, Heard
<1>7. ASSUME NEW c \in Clients, Check(c)
      PROVE  AnswerInv'
  <2>1. CASE Finish(c, "already")
    BY <1>6, <1>7, <2>1 DEF Check
  <2>2. CASE ~Finish(c, "already")
    BY <1>0, <1>7, <2>2 DEF Check, TypeOK, AnswerInv, Unanswered, Announced, Heard
  <2> QED
    BY <2>1, <2>2
<1>8. ASSUME NEW c \in Clients, Commit(c)
      PROVE  AnswerInv'
  <2>1. PICK answer \in {"accepted", "error"} : Finish(c, answer)
    BY <1>8 DEF Commit
  <2>2. told[c] /\ NewForm(c).id = draft[c]
    BY <1>0, <1>8 DEF Commit, Announced, NewForm
  <2>3. Heard'
    BY <1>0, <1>8, <2>2 DEF Commit, Heard
  <2> QED
    BY <1>0, <2>1, <2>3, FinishKeepsAnswers DEF AnswerInv
<1>9. ASSUME NEW c \in Clients, Abort(c)
      PROVE  AnswerInv'
  BY <1>6, <1>9 DEF Abort
<1> QED
  BY <1>1, <1>2, <1>3, <1>4, <1>5, <1>7, <1>8, <1>9 DEF Next, Proceed

LEMMA StepPromises ==
  ASSUME TypeOK, AnswerInv, [Next]_vars, NEW d \in Clients
  PROVE  Promised(d)
<1>0. Unanswered /\ Announced /\ Heard
  BY DEF AnswerInv
<1>1. ASSUME pc[d] # "idle" => reply'[d] = reply[d]
      PROVE  Promised(d)
  BY <1>0, <1>1 DEF Unanswered, Promised
<1>2. ASSUME NEW c \in Clients, NEW answer, Finish(c, answer),
             c # d \/ answer \notin {"accepted", "already"}
      PROVE  Promised(d)
  <2>1. reply'[d] = IF c = d THEN answer ELSE reply[d]
    BY <1>2 DEF Finish, TypeOK
  <2> QED
    BY <1>1, <1>2, <2>1 DEF Promised
<1>3. ASSUME NEW c \in Clients, Check(c)
      PROVE  Promised(d)
  <2>1. CASE Recent(c) = {}
    BY <1>1, <1>3, <2>1 DEF Check, local
  <2>2. CASE Recent(c) # {} /\ c # d
    BY <1>2, <1>3, <2>2 DEF Check
  <2>3. CASE Recent(c) # {} /\ c = d
    <3>1. PICK f \in forms : f.who = who[d] /\ f.at + Window > stamp[d]
      BY <2>3 DEF Recent
    <3>2. f \in forms' /\ f.id \in messages'
      BY <1>0, <1>3 DEF Check, table, Heard
    <3> QED
      BY <3>1, <3>2 DEF Promised
  <2> QED
    BY <2>1, <2>2, <2>3
<1>4. ASSUME NEW c \in Clients, Commit(c)
      PROVE  Promised(d)
  <2>1. PICK answer \in {"accepted", "error"} : Finish(c, answer)
    BY <1>4 DEF Commit
  <2>2. CASE c # d
    BY <1>2, <2>1, <2>2
  <2>3. CASE c = d
    <3>1. NewForm(d) \in forms' /\ draft[d] \in messages'
      BY <1>0, <1>4, <2>3 DEF Commit, Announced
    <3>2. /\ NewForm(d).who = who[d] /\ NewForm(d).at + Window > stamp[d]
          /\ NewForm(d).id = draft[d]
      BY JoinAssumption DEF NewForm, TypeOK
    <3> QED
      BY <3>1, <3>2 DEF Promised
  <2> QED
    BY <2>2, <2>3
<1>5. ASSUME NEW c \in Clients, Abort(c)
      PROVE  Promised(d)
  BY <1>2, <1>5 DEF Abort
<1>6. ASSUME NEW c \in Clients, Screen(c)
      PROVE  Promised(d)
  BY <1>1, <1>6 DEF Screen, TypeOK
<1>7. ASSUME NEW c \in Clients, NEW p \in People, Begin(c, p)
      PROVE  Promised(d)
  BY <1>1, <1>7 DEF Begin, TypeOK
<1>8. CASE UNCHANGED reply
  BY <1>1, <1>8
<1>9. \/ UNCHANGED reply
      \/ \E c \in Clients : Check(c) \/ Commit(c) \/ Abort(c) \/ Screen(c)
                            \/ \E p \in People : Begin(c, p)
  BY DEF Next, Proceed, Tick, SetStatus, Lock, Insert, Tell, vars
<1> QED
  BY <1>3, <1>4, <1>5, <1>6, <1>7, <1>8, <1>9

(* Who is told that a form is there has one, with its message in the queue, *)
(* whatever the others do and the moderators decide.                        *)
THEOREM AnswersTellTheTruth == Spec => AnswersAreTrue
<1>1. Init => AnswerInv
  BY DEF Init, AnswerInv, Unanswered, Announced, Heard
<1>2. TypeOK /\ AnswerInv /\ [Next]_vars =>
        [\A c \in Clients :
           pc[c] # "idle" /\ reply'[c] \in {"accepted", "already"} =>
             \E f \in forms' :
               f.who = who[c] /\ f.at + Window > stamp[c] /\ f.id \in messages']_vars
  BY StepPromises DEF Promised
<1> QED
  BY <1>1, <1>2, AnswerStep, Typing, PTL DEF Spec, AnswersAreTrue
=============================================================================
