--------------------------- MODULE RequestsProofs ---------------------------
(***************************************************************************)
(* Each request reports its end once and the count of requests under way   *)
(* is right, for any finite set of requests; what the updater, the         *)
(* completer and the editor do with theirs.                                *)
(***************************************************************************)
EXTENDS MCRequests, Sequences, FiniteSetTheorems, TLAPS

-----------------------------------------------------------------------------
(* Ajax.Request *)

Kinds ==
  /\ \A s \in {listening, deferred, complete, finishing, sent, ended} : s \subseteq Requests
  /\ readyState \in [Requests -> 0..4]
  /\ results \in [Requests -> Nat] /\ completions \in [Requests -> Nat]
  /\ activeRequestCount \in Int

\* The reports of a request are what its flags say.
Reported ==
  \A r \in Requests :
    /\ results[r] = IF r \in complete THEN 1 ELSE 0
    /\ completions[r] = IF r \in complete /\ r \notin finishing THEN 1 ELSE 0

\* Where a request can be: one that is answered or heard was sent and has not
\* ended, except that completion ends it.
Stages ==
  /\ ended \subseteq sent /\ listening \subseteq sent /\ finishing \subseteq sent
  /\ finishing \subseteq complete
  /\ listening \cap ended = {} /\ finishing \cap ended = {}

Under == sent \ ended

\* What may be counted: a request whose callbacks throw may be counted for ever.
Countable == Under \cup (sent \cap Throwing)

IInv == Kinds /\ Reported /\ Stages

LEMMA UnderFinite == ASSUME IInv PROVE IsFiniteSet(Under) /\ Cardinality(Under) \in Nat
<1>1. Under \subseteq Requests
  BY DEF IInv, Kinds, Under
<1> QED
  BY <1>1, AjaxRequestAssumption, FS_Subset, FS_CardinalityType

LEMMA InitInv == Init => IInv
<1> QED
  BY DEF Init, IInv, Kinds, Reported, Stages

LEMMA RequestInv ==
  ASSUME IInv, NEW r \in Requests, Request(r)
  PROVE  IInv' /\ (Under' = Under \cup {r} \/ (r \in Throwing /\ Under' = Under))
<1>1. /\ r \notin sent /\ sent' = sent \cup {r} /\ activeRequestCount' = activeRequestCount + 1
      /\ UNCHANGED <<complete, finishing, results, completions>>
  BY DEF Request, CountAfterCreate
<1>2. \/ /\ readyState' = [readyState EXCEPT ![r] = 1]
         /\ deferred' = deferred \cup {r} /\ listening' = listening \cup {r} /\ ended' = ended
      \/ r \in Throwing /\ ended' = ended \cup {r} /\ UNCHANGED <<readyState, deferred, listening>>
  BY DEF Request
<1>3. r \notin listening /\ r \notin finishing /\ r \notin ended
  BY <1>1 DEF IInv, Stages
<1>4. readyState' \in [Requests -> 0..4]
  BY <1>2 DEF IInv, Kinds
<1>5. /\ listening' \subseteq Requests /\ deferred' \subseteq Requests
      /\ sent' \subseteq Requests /\ ended' \subseteq Requests
  BY <1>1, <1>2 DEF IInv, Kinds
<1>6. Kinds'
  BY <1>1, <1>4, <1>5 DEF IInv, Kinds
<1>7. Reported'
  BY <1>1 DEF IInv, Reported
<1>8. Stages'
  BY <1>1, <1>2, <1>3 DEF IInv, Stages
<1>9. Under' = Under \cup {r} \/ (r \in Throwing /\ Under' = Under)
  BY <1>1, <1>2, <1>3 DEF Under
<1> QED
  BY <1>6, <1>7, <1>8, <1>9 DEF IInv

LEMMA SignalInv ==
  ASSUME IInv, NEW r \in Requests, Loading(r) \/ Progress(r)
  PROVE  IInv' /\ UNCHANGED <<sent, ended, activeRequestCount>>
<1>1. /\ UNCHANGED <<listening, complete, finishing, sent, ended, activeRequestCount, results, completions>>
      /\ deferred' \in {deferred, deferred \ {r}}
  BY DEF Loading, Progress
<1>2. readyState' \in [Requests -> 0..4]
  BY DEF Loading, Progress, IInv, Kinds
<1> QED
  BY <1>1, <1>2 DEF IInv, Kinds, Reported, Stages

LEMMA AnswerInv ==
  ASSUME IInv, NEW r \in Requests, Answer(r)
  PROVE  IInv' /\ UNCHANGED <<sent, ended, activeRequestCount>>
<1>1. /\ r \in listening /\ readyState' = [readyState EXCEPT ![r] = 4]
      /\ UNCHANGED <<listening, deferred, sent, ended, activeRequestCount, completions>>
  BY DEF Answer
<1>2. readyState' \in [Requests -> 0..4]
  BY <1>1 DEF IInv, Kinds
<1>3. r \in sent /\ r \notin ended
  BY <1>1 DEF IInv, Stages
<1>4. CASE Responds(r, 4)
  <2>1. /\ r \notin complete /\ complete' = complete \cup {r} /\ finishing' = finishing \cup {r}
        /\ results' = [results EXCEPT ![r] = @ + 1]
    BY <1>4 DEF Answer, Responds
  <2>2. Kinds'
    BY <1>1, <1>2, <2>1 DEF IInv, Kinds
  <2>3. Reported'
    <3> SUFFICES ASSUME NEW u \in Requests
                 PROVE  /\ results'[u] = IF u \in complete' THEN 1 ELSE 0
                        /\ completions'[u] = IF u \in complete' /\ u \notin finishing' THEN 1 ELSE 0
      BY DEF Reported
    <3>1. results'[u] = IF u = r THEN results[r] + 1 ELSE results[u]
      BY <2>1 DEF IInv, Kinds
    <3>2. CASE u = r
      BY <3>1, <3>2, <1>1, <2>1 DEF IInv, Reported
    <3>3. CASE u # r
      BY <3>1, <3>3, <1>1, <2>1 DEF IInv, Reported
    <3> QED
      BY <3>2, <3>3
  <2>4. Stages'
    BY <1>1, <1>3, <2>1 DEF IInv, Stages
  <2> QED
    BY <1>1, <2>2, <2>3, <2>4 DEF IInv
<1>5. CASE ~Responds(r, 4)
  <2>1. UNCHANGED <<complete, finishing, results>>
    BY <1>5 DEF Answer
  <2> QED
    BY <1>1, <1>2, <2>1 DEF IInv, Kinds, Reported, Stages
<1> QED
  BY <1>4, <1>5

LEMMA CompleteInv ==
  ASSUME IInv, NEW r \in Requests, Complete(r)
  PROVE  /\ IInv' /\ r \in Under /\ Under' = Under \ {r}
         /\ activeRequestCount' = activeRequestCount - 1
            \/ (r \in Throwing /\ activeRequestCount' = activeRequestCount)
<1>1. /\ r \in finishing /\ finishing' = finishing \ {r}
      /\ completions' = [completions EXCEPT ![r] = @ + 1]
      /\ listening' = listening \ {r} /\ ended' = ended \cup {r}
      /\ UNCHANGED <<readyState, deferred, complete, sent, results>>
  BY DEF Complete
<1>2. activeRequestCount' = activeRequestCount - 1
      \/ (r \in Throwing /\ activeRequestCount' = activeRequestCount)
  <2>1. PICK thrown \in BOOLEAN :
             (thrown => r \in Throwing) /\ activeRequestCount' = CountAfterComplete(thrown)
    BY DEF Complete
  <2>2. CASE thrown
    BY <2>1, <2>2 DEF CountAfterComplete
  <2>3. CASE ~thrown
    BY <2>1, <2>3 DEF CountAfterComplete
  <2> QED
    BY <2>2, <2>3
<1>3. r \in sent /\ r \notin ended /\ r \in complete
  BY <1>1 DEF IInv, Stages
<1>4. Kinds'
  BY <1>1, <1>2 DEF IInv, Kinds
<1>5. Reported'
  <2> SUFFICES ASSUME NEW u \in Requests
               PROVE  /\ results'[u] = IF u \in complete' THEN 1 ELSE 0
                      /\ completions'[u] = IF u \in complete' /\ u \notin finishing' THEN 1 ELSE 0
    BY DEF Reported
  <2>1. completions'[u] = IF u = r THEN completions[r] + 1 ELSE completions[u]
    BY <1>1 DEF IInv, Kinds
  <2>2. CASE u = r
    BY <2>1, <2>2, <1>1, <1>3 DEF IInv, Reported
  <2>3. CASE u # r
    BY <2>1, <2>3, <1>1 DEF IInv, Reported
  <2> QED
    BY <2>2, <2>3
<1>6. Stages'
  BY <1>1, <1>3 DEF IInv, Stages
<1>7. r \in Under /\ Under' = Under \ {r}
  BY <1>1, <1>3 DEF Under
<1> QED
  BY <1>2, <1>4, <1>5, <1>6, <1>7 DEF IInv

\* The inductive invariant of the requests.
THEOREM RequestsInvariant == Spec => []IInv
<1>1. IInv /\ [Next]_vars => IInv'
  <2> SUFFICES ASSUME IInv, [Next]_vars PROVE IInv'
    OBVIOUS
  <2>1. CASE UNCHANGED vars
    BY <2>1 DEF vars, IInv, Kinds, Reported, Stages
  <2> QED
    BY <2>1, RequestInv, SignalInv, AnswerInv, CompleteInv DEF Next
<1> QED
  BY <1>1, InitInv, PTL DEF Spec

\* respondToReadyState: however often the transport signals its last state, a
\* request reports success or failure once, and its completion not more often.
THEOREM CompletesAtMostOnce == Spec => []CompletesOnce
<1>1. IInv => CompletesOnce
  BY DEF IInv, Reported, CompletesOnce
<1> QED
  BY <1>1, RequestsInvariant, PTL

LEMMA CountableFinite ==
  ASSUME IInv
  PROVE  IsFiniteSet(Countable) /\ Cardinality(Countable) \in Nat
<1>1. Countable \subseteq Requests
  BY DEF IInv, Kinds, Under, Countable
<1> QED
  BY <1>1, AjaxRequestAssumption, FS_Subset, FS_CardinalityType

LEMMA CountAfterRequest ==
  ASSUME IInv, CountExact, NEW r \in Requests, Request(r)
  PROVE  CountExact'
<1>1. /\ IsFiniteSet(Under) /\ Cardinality(Under) \in Nat
      /\ IsFiniteSet(Countable) /\ Cardinality(Countable) \in Nat
      /\ activeRequestCount \in Int
  BY UnderFinite, CountableFinite DEF IInv, Kinds
<1>2. activeRequestCount' = activeRequestCount + 1
  BY DEF Request, CountAfterCreate
<1>3. /\ r \notin sent /\ sent' = sent \cup {r}
      /\ Under' = Under \cup {r} \/ (r \in Throwing /\ Under' = Under)
  BY RequestInv DEF Request
<1>4. Countable' = Countable \cup {r} /\ r \notin Countable
  BY <1>3 DEF Countable, Under
<1>5. Cardinality(Under \cup {r}) \in {Cardinality(Under), Cardinality(Under) + 1}
  BY <1>1, FS_AddElement
<1>6. Cardinality(Countable') = Cardinality(Countable) + 1
  BY <1>1, <1>4, FS_AddElement
<1>7. Cardinality(Under') \in {Cardinality(Under), Cardinality(Under) + 1}
  BY <1>3, <1>5
<1>8. activeRequestCount >= Cardinality(Under) /\ activeRequestCount <= Cardinality(Countable)
  BY DEF CountExact, Under, Countable
<1>9. activeRequestCount' >= Cardinality(Under') /\ activeRequestCount' <= Cardinality(Countable')
  BY <1>1, <1>2, <1>6, <1>7, <1>8
<1> QED
  BY <1>9 DEF CountExact, Under, Countable

LEMMA CountAfterEnd ==
  ASSUME IInv, CountExact, NEW r \in Requests, Complete(r)
  PROVE  CountExact'
<1>1. /\ IsFiniteSet(Under) /\ Cardinality(Under) \in Nat
      /\ IsFiniteSet(Countable) /\ Cardinality(Countable) \in Nat
      /\ activeRequestCount \in Int
  BY UnderFinite, CountableFinite DEF IInv, Kinds
<1>2. /\ r \in Under /\ Under' = Under \ {r} /\ sent' = sent
      /\ activeRequestCount' = activeRequestCount - 1
         \/ (r \in Throwing /\ activeRequestCount' = activeRequestCount)
  BY CompleteInv DEF Complete
<1>3. Cardinality(Under') = Cardinality(Under) - 1
  BY <1>1, <1>2, FS_RemoveElement
<1>4. activeRequestCount >= Cardinality(Under) /\ activeRequestCount <= Cardinality(Countable)
  BY DEF CountExact, Under, Countable
<1>5. CASE r \in Throwing
  <2>1. Countable' = Countable
    BY <1>2, <1>5 DEF Countable, Under
  <2>2. activeRequestCount' >= Cardinality(Under') /\ activeRequestCount' <= Cardinality(Countable')
    BY <1>1, <1>2, <1>3, <1>4, <2>1
  <2> QED
    BY <2>2 DEF CountExact, Under, Countable
<1>6. CASE r \notin Throwing
  <2>1. Countable' = Countable \ {r} /\ r \in Countable
    BY <1>2, <1>6 DEF Countable, Under
  <2>2. Cardinality(Countable') = Cardinality(Countable) - 1
    BY <1>1, <2>1, FS_RemoveElement
  <2>3. activeRequestCount' >= Cardinality(Under') /\ activeRequestCount' <= Cardinality(Countable')
    BY <1>1, <1>2, <1>3, <1>4, <1>6, <2>2
  <2> QED
    BY <2>3 DEF CountExact, Under, Countable
<1> QED
  BY <1>5, <1>6

\* Ajax.Responders: whatever throws, no request under way is missing from
\* activeRequestCount, and only requests whose callbacks throw are counted
\* longer than they last.
THEOREM CountIsExact == Spec => []CountExact
<1>1. Init => CountExact
  <2> SUFFICES ASSUME Init PROVE CountExact
    OBVIOUS
  <2>1. sent \ ended = {} /\ sent \cap Throwing = {} /\ activeRequestCount = 0
    BY DEF Init
  <2>2. Cardinality({}) = 0 /\ {} \cup {} = {}
    BY FS_EmptySet
  <2> QED
    BY <2>1, <2>2 DEF CountExact
<1>2. IInv /\ CountExact /\ [Next]_vars => CountExact'
  <2> SUFFICES ASSUME IInv, CountExact, [Next]_vars PROVE CountExact'
    OBVIOUS
  <2>1. ASSUME NEW r \in Requests, Loading(r) \/ Progress(r) \/ Answer(r) PROVE CountExact'
    BY <2>1, SignalInv, AnswerInv DEF CountExact
  <2>2. CASE UNCHANGED vars
    BY <2>2 DEF vars, CountExact
  <2> QED
    BY <2>1, <2>2, CountAfterRequest, CountAfterEnd DEF Next
<1> QED
  BY <1>1, <1>2, RequestsInvariant, PTL DEF Spec

-----------------------------------------------------------------------------
(* Ajax.PeriodicalUpdater *)

\* The requests whose answers count.
Expected == waiting \cap connected

\* What runs has a loop that stop ends: the last request is expected, or the timer
\* that is remembered is pending.
LoopInv ==
  /\ Updater!TypeOK
  /\ waiting \subseteq 1..updater /\ connected \subseteq 1..updater
  /\ running => updater \in Expected \/ timer
  /\ Updater!Timers + Cardinality(Expected) <= extra + (IF running THEN 1 ELSE 0)
  /\ container = lastText

LEMMA ExpectedFinite ==
  ASSUME LoopInv PROVE IsFiniteSet(Expected) /\ Cardinality(Expected) \in Nat
<1>1. Expected \subseteq 1..updater /\ updater \in Nat
  BY RequestsAssumption
     DEF LoopInv, Expected, Updater!TypeOK, Updater!PeriodicalUpdaterAssumption
<1>2. IsFiniteSet(1..updater)
  BY <1>1, FS_Interval
<1> QED
  BY <1>1, <1>2, FS_Subset, FS_CardinalityType

LEMMA UpdaterAsks ==
  ASSUME LoopInv, Updater!Ask
  PROVE  /\ updater' = updater + 1 /\ updater' \in 1..MaxUpdaters
         /\ waiting' \subseteq 1..updater' /\ connected' \subseteq 1..updater'
         /\ waiting' \subseteq Updater!Updaters /\ connected' \subseteq Updater!Updaters
         /\ updater' \in Expected' /\ Cardinality(Expected') = Cardinality(Expected) + 1
<1>1. /\ updater \in 0..MaxUpdaters /\ MaxUpdaters \in Nat /\ updater < MaxUpdaters
      /\ updater' = updater + 1
      /\ waiting' = waiting \cup {updater'} /\ connected' = connected \cup {updater'}
  BY RequestsAssumption
     DEF Updater!Ask, LoopInv, Updater!TypeOK, Updater!PeriodicalUpdaterAssumption
<1>2. updater' \in 1..MaxUpdaters /\ 1..updater \subseteq 1..updater' /\ updater' \notin 1..updater
      /\ updater' \in 1..updater'
  BY <1>1
<1>3. /\ waiting \subseteq 1..updater /\ connected \subseteq 1..updater
      /\ waiting \subseteq 1..MaxUpdaters /\ connected \subseteq 1..MaxUpdaters
  BY DEF LoopInv, Updater!TypeOK, Updater!Updaters
<1>4. Expected' = Expected \cup {updater'} /\ updater' \notin Expected
  BY <1>1, <1>2, <1>3 DEF Expected
<1>5. Cardinality(Expected \cup {updater'}) = Cardinality(Expected) + 1
  BY <1>4, ExpectedFinite, FS_AddElement
<1> QED
  BY <1>1, <1>2, <1>3, <1>4, <1>5 DEF Updater!Updaters

LEMMA LoopStep ==
  ASSUME LoopInv, Updater!Next
  PROVE  LoopInv'
<1> DEFINE meant == IF running THEN 1 ELSE 0
<1>0. /\ Updater!TypeOK /\ Cardinality(Expected) \in Nat
      /\ oldTimers \in Nat /\ extra \in Nat /\ timer \in BOOLEAN /\ running \in BOOLEAN
      /\ oldTimers + (IF timer THEN 1 ELSE 0) + Cardinality(Expected) <= extra + meant
  BY ExpectedFinite DEF LoopInv, Updater!TypeOK, Updater!Timers
<1>1. CASE Updater!Start
  <2>1. /\ running' = TRUE /\ Updater!Ask
        /\ extra' = IF running THEN extra + 1 ELSE extra
        /\ UNCHANGED <<timer, oldTimers, container, lastText, decay, due>>
    BY <1>1 DEF Updater!Start
  <2>2. updater' \in 0..MaxUpdaters /\ extra' \in Nat
    BY <1>0, <2>1, UpdaterAsks
  <2>3. Updater!TypeOK'
    BY <1>0, <2>1, <2>2, UpdaterAsks DEF Updater!TypeOK
  <2>4. Updater!Timers' + Cardinality(Expected') <= extra' + (IF running' THEN 1 ELSE 0)
    BY <1>0, <2>1, UpdaterAsks DEF Updater!Timers
  <2> QED
    BY <2>1, <2>3, <2>4, UpdaterAsks DEF LoopInv
<1>2. CASE Updater!OnTimerEvent
  <2>1. /\ \/ timer /\ timer' = FALSE /\ oldTimers' = oldTimers
           \/ oldTimers > 0 /\ oldTimers' = oldTimers - 1 /\ timer' = timer
        /\ Updater!Ask
        /\ UNCHANGED <<running, container, lastText, decay, due, extra>>
    BY <1>2 DEF Updater!OnTimerEvent
  <2>2. updater' \in 0..MaxUpdaters /\ oldTimers' \in Nat
    BY <1>0, <2>1, UpdaterAsks
  <2>3. Updater!TypeOK'
    <3>1. timer' \in BOOLEAN
      BY <1>0, <2>1, Zenon
    <3> QED
      BY <1>0, <2>1, <2>2, <3>1, UpdaterAsks DEF Updater!TypeOK
  <2>4. Updater!Timers' + Cardinality(Expected') <= extra' + (IF running' THEN 1 ELSE 0)
    BY <1>0, <2>1, UpdaterAsks DEF Updater!Timers
  <2> QED
    BY <2>1, <2>3, <2>4, UpdaterAsks DEF LoopInv
<1>3. CASE Updater!Stop
  <2>1. /\ running' = FALSE /\ connected' = connected \ {updater} /\ timer' = FALSE
        /\ UNCHANGED <<updater, waiting, oldTimers, container, lastText, decay, due, extra>>
    BY <1>3 DEF Updater!Stop, Updater!ConnectedAfterStop, Updater!TimerAfterStop
  <2>2. Expected' = Expected \ {updater}
    BY <2>1 DEF Expected
  <2>3. Cardinality(Expected') =
          IF updater \in Expected THEN Cardinality(Expected) - 1 ELSE Cardinality(Expected)
    BY <2>2, ExpectedFinite, FS_RemoveElement
  <2>4. running => updater \in Expected \/ timer
    BY DEF LoopInv
  <2>5. Updater!Timers' + Cardinality(Expected') <= extra' + (IF running' THEN 1 ELSE 0)
    <3>1. oldTimers + Cardinality(Expected') <= extra
      BY <1>0, <2>3, <2>4
    <3> QED
      BY <1>0, <2>1, <3>1 DEF Updater!Timers
  <2> QED
    BY <2>1, <2>5 DEF LoopInv, Updater!TypeOK
<1>4. CASE Updater!UpdateComplete
  <2>1. PICK u \in waiting, answer \in Texts :
          /\ waiting' = waiting \ {u}
          /\ IF u \in connected
             THEN /\ container' = answer
                  /\ decay' = Updater!DecayAfter(answer) /\ due' = Updater!DecayAfter(answer)
                  /\ lastText' = answer
                  /\ timer' = TRUE
                  /\ oldTimers' = IF timer THEN oldTimers + 1 ELSE oldTimers
             ELSE UNCHANGED <<container, decay, due, lastText, timer, oldTimers>>
          /\ UNCHANGED <<running, updater, connected, extra>>
    BY <1>4 DEF Updater!UpdateComplete, Updater!OldTimersAfterAnswer
  <2>2. Expected' = Expected \ {u} /\ (u \in Expected <=> u \in connected)
    BY <2>1 DEF Expected
  <2>3. CASE u \in connected
    <3>1. Cardinality(Expected') = Cardinality(Expected) - 1
      BY <2>2, <2>3, ExpectedFinite, FS_RemoveElement
    <3>2. MaxDecay \in Nat \ {0} /\ decay \in 0..MaxDecay
      BY RequestsAssumption DEF Updater!PeriodicalUpdaterAssumption, LoopInv, Updater!TypeOK
    <3>3. Updater!DecayAfter(answer) \in 0..MaxDecay
      BY <3>2 DEF Updater!DecayAfter
    <3>4. /\ timer' = TRUE /\ oldTimers' \in Nat
          /\ container' = lastText' /\ decay' \in 0..MaxDecay /\ due' \in 0..MaxDecay
          /\ container' \in Texts /\ lastText' \in Texts
      BY <1>0, <2>1, <2>3, <3>3
    <3>5. Updater!TypeOK'
      BY <1>0, <2>1, <3>4 DEF Updater!TypeOK
    <3>6. Updater!Timers' + Cardinality(Expected') <= extra' + (IF running' THEN 1 ELSE 0)
      BY <1>0, <2>1, <2>3, <3>1 DEF Updater!Timers
    <3> QED
      BY <2>1, <3>4, <3>5, <3>6 DEF LoopInv
  <2>4. CASE u \notin connected
    <3>1. Expected' = Expected
      BY <2>2, <2>4
    <3> QED
      BY <2>1, <2>4, <3>1 DEF LoopInv, Updater!TypeOK, Updater!Timers
  <2> QED
    BY <2>3, <2>4
<1> QED
  BY <1>1, <1>2, <1>3, <1>4 DEF Updater!Next

LEMMA LoopInvariance == Updater!Spec => []LoopInv
<1>1. Updater!Init => LoopInv
  <2> SUFFICES ASSUME Updater!Init PROVE LoopInv
    OBVIOUS
  <2>1. MaxUpdaters \in Nat /\ MaxDecay \in Nat \ {0}
    BY RequestsAssumption DEF Updater!PeriodicalUpdaterAssumption
  <2>2. Updater!TypeOK
    <3>1. /\ decay \in 0..MaxDecay /\ due \in 0..MaxDecay /\ updater \in 0..MaxUpdaters
          /\ oldTimers \in Nat /\ extra \in Nat
      BY <2>1 DEF Updater!Init
    <3>2. running \in BOOLEAN /\ timer \in BOOLEAN
      BY DEF Updater!Init
    <3> QED
      BY <3>1, <3>2 DEF Updater!Init, Updater!TypeOK
  <2>3. Expected = {} /\ Cardinality({}) = 0
    BY FS_EmptySet DEF Updater!Init, Expected
  <2> QED
    BY <2>2, <2>3 DEF Updater!Init, LoopInv, Updater!Timers
<1>2. LoopInv /\ [Updater!Next]_(Updater!vars) => LoopInv'
  <2>1. ASSUME LoopInv, UNCHANGED Updater!vars PROVE LoopInv'
    <3>1. Updater!TypeOK'
      BY <2>1 DEF Updater!vars, LoopInv, Updater!TypeOK
    <3> QED
      BY <2>1, <3>1 DEF Updater!vars, LoopInv, Expected, Updater!Timers
  <2> QED
    BY <2>1, LoopStep
<1> QED
  BY <1>1, <1>2, PTL DEF Updater!Spec

LEMMA LoopIsOne == ASSUME LoopInv PROVE Updater!OneLoop
<1>1. Updater!Cardinality(Expected) = Cardinality(Expected)
  BY Zenon DEF Cardinality, Updater!Cardinality
<1>2. Updater!Expected = Expected
  BY DEF Updater!Expected, Expected
<1> QED
  BY <1>1, <1>2 DEF Updater!OneLoop, LoopInv

\* A loop that is left when it was stopped would be one that was started too often.
LEMMA NoneIsLeft ==
  ASSUME LoopInv, ~running, extra = 0
  PROVE  Expected = {}
<1>1. Cardinality(Expected) \in Nat /\ Updater!Timers \in Nat
  BY ExpectedFinite DEF LoopInv, Updater!TypeOK, Updater!Timers
<1>2. Cardinality(Expected) = 0
  BY <1>1 DEF LoopInv
<1> QED
  BY <1>2, ExpectedFinite, FS_EmptySet

-----------------------------------------------------------------------------
(* Ajax.InPlaceEditor *)

\* A save is under way exactly while "Saving..." is shown, or was when the editor
\* was disposed of; no form is open beside it.
EditInv ==
  /\ Editor!TypeOK /\ Editor!EitherShown
  /\ form # "none" => editing /\ ~saving /\ saves = 0
  /\ form = "none" /\ saves = 0 => ~editing
  /\ saving => saves = 1 /\ oldInnerHTML \in {"old", "new", "other", "last"}
  /\ saves = 1 => saving \/ disposed
  /\ ~saving => html \in {"old", "new", "other", "last"}

LEMMA EditLeft ==
  ASSUME EditInv, Editor!LeaveEditMode, saves' = 0 \/ disposed', saves' \in 0..1,
         loads' = loads, disposed' \in BOOLEAN, html' \in {"old", "new", "other", "last"}
  PROVE  EditInv'
<1>1. /\ form' = "none" /\ shown' = TRUE /\ editing' = FALSE /\ saving' = FALSE
      /\ oldInnerHTML' = Editor!Null
  BY DEF Editor!LeaveEditMode, Editor!ShownAfter, Editor!EditingAfter
<1>2. Editor!TypeOK'
  BY <1>1 DEF EditInv, Editor!TypeOK
<1> QED
  BY <1>1, <1>2 DEF EditInv, Editor!EitherShown

\* What is put back when a save has failed or the editor is disposed of.
LEMMA TextPutBack ==
  ASSUME EditInv
  PROVE  (IF Editor!HasOld(oldInnerHTML) THEN oldInnerHTML ELSE html)
            \in {"old", "new", "other", "last"}
<1>1. CASE saving
  BY <1>1 DEF EditInv, Editor!HasOld, Editor!Null
<1>2. CASE ~saving
  BY <1>2 DEF EditInv, Editor!TypeOK, Editor!HasOld, Editor!Null
<1> QED
  BY <1>1, <1>2

LEMMA EditStep ==
  ASSUME EditInv, Editor!Next
  PROVE  EditInv'
<1>1. CASE Editor!EnterEditMode
  <2>1. /\ shown /\ ~saving /\ ~disposed /\ loads < 5
        /\ editing' = TRUE /\ shown' = FALSE /\ form' = "loading" /\ loads' = loads + 1
        /\ UNCHANGED <<saving, html, oldInnerHTML, saves, disposed>>
    BY <1>1 DEF Editor!EnterEditMode, Editor!MayEdit
  <2>2. saves = 0
    BY <2>1 DEF EditInv, Editor!TypeOK
  <2>3. Editor!TypeOK'
    <3>1. loads' \in 0..5
      BY <2>1 DEF EditInv, Editor!TypeOK
    <3>2. \A b \in {editing', saving', shown', disposed'} : b \in BOOLEAN
      BY <2>1 DEF EditInv, Editor!TypeOK
    <3> QED
      BY <2>1, <3>1, <3>2 DEF EditInv, Editor!TypeOK
  <2>4. Editor!EitherShown'
    BY <2>1 DEF Editor!EitherShown
  <2> QED
    BY <2>1, <2>2, <2>3, <2>4 DEF EditInv
<1>2. CASE Editor!LoadedExternalText
  <2>1. /\ loads > 0 /\ loads' = loads - 1
        /\ form' \in {"none", "ready"} /\ (form' = "none" <=> form = "none")
        /\ UNCHANGED <<editing, saving, html, oldInnerHTML, shown, saves, disposed>>
    <3>1. form \in {"none", "loading", "ready"}
      BY DEF EditInv, Editor!TypeOK
    <3> QED
      BY <1>2, <3>1 DEF Editor!LoadedExternalText
  <2>2. Editor!TypeOK'
    <3>1. loads' \in 0..5 /\ form' \in {"none", "loading", "ready"}
      BY <2>1 DEF EditInv, Editor!TypeOK
    <3> QED
      BY <2>1, <3>1 DEF EditInv, Editor!TypeOK
  <2> QED
    BY <2>1, <2>2 DEF EditInv, Editor!EitherShown
<1>3. CASE Editor!Cancel
  <2>1. form # "none" /\ Editor!LeaveEditMode /\ UNCHANGED <<html, saves, loads, disposed>>
    BY <1>3 DEF Editor!Cancel
  <2> QED
    BY <2>1, EditLeft DEF EditInv, Editor!TypeOK
<1>4. CASE Editor!Submit
  <2>1. /\ form # "none" /\ saving' = TRUE /\ form' = "none" /\ oldInnerHTML' = html
        /\ html' = Editor!Saving /\ shown' = TRUE /\ saves' = saves + 1
        /\ UNCHANGED <<editing, loads, disposed>>
    BY <1>4 DEF Editor!Submit
  <2>2. saves = 0 /\ html \in {"old", "new", "other", "last"}
    BY <2>1 DEF EditInv
  <2>3. Editor!TypeOK'
    BY <2>1, <2>2 DEF EditInv, Editor!TypeOK
  <2> QED
    BY <2>1, <2>2, <2>3 DEF EditInv, Editor!EitherShown
<1>5. CASE Editor!Saved
  <2>1. /\ saves > 0 /\ saves' = saves - 1 /\ html' \in {"old", "new", "other", "last"}
        /\ Editor!LeaveEditMode /\ loads' = loads /\ disposed' = disposed
    BY <1>5 DEF Editor!Saved
  <2>2. disposed' \in BOOLEAN
    BY <2>1 DEF EditInv, Editor!TypeOK
  <2>3. saves' = 0 /\ saves' \in 0..1
    BY <2>1 DEF EditInv, Editor!TypeOK
  <2> QED
    BY <2>1, <2>2, <2>3, EditLeft
<1>6. CASE Editor!SaveFails
  <2>1. /\ saves > 0 /\ saves' = saves - 1
        /\ html' = IF Editor!HasOld(oldInnerHTML) THEN oldInnerHTML ELSE html
        /\ Editor!LeaveEditMode /\ loads' = loads /\ disposed' = disposed
    BY <1>6 DEF Editor!SaveFails
  <2>2. disposed' \in BOOLEAN
    BY <2>1 DEF EditInv, Editor!TypeOK
  <2>3. saves' = 0 /\ saves' \in 0..1
    BY <2>1 DEF EditInv, Editor!TypeOK
  <2>4. html' \in {"old", "new", "other", "last"}
    BY <2>1, TextPutBack
  <2> QED
    BY <2>1, <2>2, <2>3, <2>4, EditLeft
<1>7. CASE Editor!Dispose
  <2>1. /\ disposed' = TRUE
        /\ html' = IF Editor!HasOld(oldInnerHTML) THEN oldInnerHTML ELSE html
        /\ Editor!LeaveEditMode /\ UNCHANGED <<saves, loads>>
    BY <1>7 DEF Editor!Dispose
  <2>2. saves' \in 0..1 /\ disposed' \in BOOLEAN
    BY <2>1 DEF EditInv, Editor!TypeOK
  <2>3. loads' = loads /\ html' \in {"old", "new", "other", "last"}
    BY <2>1, TextPutBack
  <2> QED
    BY <2>1, <2>2, <2>3, EditLeft
<1> QED
  BY <1>1, <1>2, <1>3, <1>4, <1>5, <1>6, <1>7 DEF Editor!Next

LEMMA EditInvariance == Editor!Spec => []EditInv
<1>1. Editor!Init => EditInv
  <2> SUFFICES ASSUME Editor!Init PROVE EditInv
    OBVIOUS
  <2>1. Editor!TypeOK
    <3>1. \A b \in {editing, saving, shown, disposed} : b \in BOOLEAN
      BY DEF Editor!Init
    <3>2. saves \in 0..1 /\ loads \in 0..5 /\ form \in {"none", "loading", "ready"}
      BY DEF Editor!Init
    <3> QED
      BY <3>1, <3>2 DEF Editor!Init, Editor!TypeOK
  <2> QED
    BY <2>1 DEF Editor!Init, EditInv, Editor!EitherShown
<1>2. EditInv /\ [Editor!Next]_(Editor!vars) => EditInv'
  <2>1. ASSUME EditInv, UNCHANGED Editor!vars PROVE EditInv'
    <3>1. Editor!TypeOK'
      BY <2>1 DEF Editor!vars, EditInv, Editor!TypeOK
    <3> QED
      BY <2>1, <3>1 DEF Editor!vars, EditInv, Editor!EitherShown
  <2> QED
    BY <2>1, EditStep
<1> QED
  BY <1>1, <1>2, PTL DEF Editor!Spec

-----------------------------------------------------------------------------
(* Ajax.Autocompleter *)

MenuInv ==
  /\ Menu!TypeOK /\ Menu!SelectsAnEntry /\ Menu!ChangedHasTimer
  /\ active => hasFocus
  /\ hasFocus => focus

\* While answers keep their order and nothing that is typed is too short to be
\* asked for: a field that has been typed in since it was entered shows the
\* answer to the last request, unless one is under way or is to be sent.
LatestInv ==
  /\ hasFocus /\ ~observer /\ requests = <<>> => list = asked
  /\ requests # <<>> => asked = requests[Len(requests)]

LEMMA CountsBounded ==
  /\ Menu!MaxCount \in Nat
  /\ \A w \in Words : CountOf[w] \in 0..Menu!MaxCount
<1> DEFINE S == {CountOf[w] : w \in Words}
<1>1. /\ \A n \in S : n \in {0, 1, 3}
      /\ 3 \in S
  BY DEF CountOf, Words
<1>2. \E m \in S : \A n \in S : m >= n
  BY <1>1
<1>3. Menu!MaxCount \in S /\ \A n \in S : Menu!MaxCount >= n
  BY <1>2 DEF Menu!MaxCount, Menu!Max
<1> QED
  BY <1>1, <1>3

\* A sequence of words without its n-th element.
LEMMA OneAnswered ==
  ASSUME NEW q \in Seq(Words), NEW n \in DOMAIN q
  PROVE  /\ Menu!RemoveAt(q, n) \in Seq(Words)
         /\ Len(Menu!RemoveAt(q, n)) = Len(q) - 1
         /\ n = 1 /\ Len(q) > 1 => Menu!RemoveAt(q, n)[Len(q) - 1] = q[Len(q)]
<1>1. n \in 1..Len(q) /\ Len(q) \in Nat
  OBVIOUS
<1>2. /\ SubSeq(q, 1, n - 1) \in Seq(Words) /\ Len(SubSeq(q, 1, n - 1)) = n - 1
      /\ SubSeq(q, n + 1, Len(q)) \in Seq(Words)
      /\ Len(SubSeq(q, n + 1, Len(q))) = Len(q) - n
      /\ \A i \in 1..(Len(q) - n) : SubSeq(q, n + 1, Len(q))[i] = q[n + i]
  BY <1>1
<1> DEFINE front == SubSeq(q, 1, n - 1)
           back == SubSeq(q, n + 1, Len(q))
<1> HIDE DEF front, back
<1>3. /\ front \in Seq(Words) /\ Len(front) = n - 1
      /\ back \in Seq(Words) /\ Len(back) = Len(q) - n
      /\ \A i \in 1..(Len(q) - n) : back[i] = q[n + i]
  BY <1>2 DEF front, back
<1>4. /\ front \o back \in Seq(Words) /\ Len(front \o back) = Len(front) + Len(back)
      /\ \A i \in 1..Len(back) : (front \o back)[Len(front) + i] = back[i]
  <2>1. front \in Seq(Words) /\ back \in Seq(Words)
    BY <1>3
  <2> QED
    BY <2>1
<1>5. Len(front \o back) = Len(q) - 1
  BY <1>1, <1>3, <1>4
<1>6. ASSUME n = 1, Len(q) > 1
      PROVE  (front \o back)[Len(q) - 1] = q[Len(q)]
  <2>1. Len(q) - 1 \in 1..Len(back) /\ Len(front) = 0
    BY <1>1, <1>3, <1>6
  <2>2. (front \o back)[0 + (Len(q) - 1)] = back[Len(q) - 1]
    BY <1>4, <2>1
  <2>3. back[Len(q) - 1] = q[1 + (Len(q) - 1)]
    BY <1>3, <1>6, <2>1
  <2>4. 0 + (Len(q) - 1) = Len(q) - 1 /\ 1 + (Len(q) - 1) = Len(q)
    BY <1>1
  <2> QED
    BY <2>2, <2>3, <2>4
<1> QED
  BY <1>4, <1>5, <1>6 DEF Menu!RemoveAt, front, back

\* The two completers differ in what they ask for and in which answer comes.
LEMMA SameKeys ==
  ASSUME MenuInOrder!Next
  PROVE  Menu!Next \/ MenuInOrder!OnObserverEvent
<1>1. MenuInOrder!OnComplete => Menu!OnComplete
  BY DEF MenuInOrder!OnComplete, Menu!OnComplete, MenuInOrder!Accepts, Menu!Accepts,
         MenuInOrder!FirstIndex, Menu!FirstIndex, MenuInOrder!Render, Menu!Render,
         MenuInOrder!Shown, Menu!Shown, MenuInOrder!Hidden, Menu!Hidden,
         MenuInOrder!RemoveAt, Menu!RemoveAt
<1>2. MenuInOrder!Type => Menu!Type
  BY DEF MenuInOrder!Type, Menu!Type, MenuInOrder!screen, Menu!screen
<1>3. /\ MenuInOrder!KeyReturn => Menu!KeyReturn
      /\ MenuInOrder!KeyEsc => Menu!KeyEsc
      /\ MenuInOrder!OnClick => Menu!OnClick
  BY DEF MenuInOrder!KeyReturn, Menu!KeyReturn, MenuInOrder!KeyEsc, Menu!KeyEsc,
         MenuInOrder!OnClick, Menu!OnClick, MenuInOrder!SelectEntry, Menu!SelectEntry,
         MenuInOrder!Hidden, Menu!Hidden, MenuInOrder!timers, Menu!timers
<1>4. /\ MenuInOrder!KeyUpDown => Menu!KeyUpDown
      /\ MenuInOrder!OnHover => Menu!OnHover
  <2>1. MenuInOrder!Render(entryCount) => Menu!Render(entryCount)
    BY DEF MenuInOrder!Render, Menu!Render, MenuInOrder!Shown, Menu!Shown,
           MenuInOrder!Hidden, Menu!Hidden
  <2>2. /\ MenuInOrder!MarkPrevious = Menu!MarkPrevious
        /\ MenuInOrder!MarkNext = Menu!MarkNext
    BY DEF MenuInOrder!MarkPrevious, Menu!MarkPrevious, MenuInOrder!MarkNext, Menu!MarkNext
  <2>3. MenuInOrder!timers = Menu!timers
    BY DEF MenuInOrder!timers, Menu!timers
  <2> QED
    BY <2>1, <2>2, <2>3, Zenon
       DEF MenuInOrder!KeyUpDown, Menu!KeyUpDown, MenuInOrder!OnHover, Menu!OnHover,
           MenuInOrder!timers, Menu!timers
<1>5. /\ MenuInOrder!Focus => Menu!Focus
      /\ MenuInOrder!OnBlur => Menu!OnBlur
      /\ MenuInOrder!BlurTimer => Menu!BlurTimer
      /\ MenuInOrder!FadeEnds => Menu!FadeEnds
  BY DEF MenuInOrder!Focus, Menu!Focus, MenuInOrder!OnBlur, Menu!OnBlur,
         MenuInOrder!BlurTimer, Menu!BlurTimer, MenuInOrder!FadeEnds, Menu!FadeEnds,
         MenuInOrder!KeepsObserver, Menu!KeepsObserver, MenuInOrder!HasFocusAfterBlur,
         Menu!HasFocusAfterBlur, MenuInOrder!Hidden, Menu!Hidden,
         MenuInOrder!field, Menu!field, MenuInOrder!screen, Menu!screen,
         MenuInOrder!timers, Menu!timers
<1> QED
  BY <1>1, <1>2, <1>3, <1>4, <1>5 DEF MenuInOrder!Next, Menu!Next

\* What render leaves alone or decides.
LEMMA Rendered ==
  ASSUME MenuInv, NEW count \in Nat, Menu!Render(count)
  PROVE  /\ menu' \in {"hidden", "shown", "fading"} /\ active' \in BOOLEAN
         /\ active' => count > 0 /\ hasFocus
<1>1. menu \in {"hidden", "shown", "fading"} /\ active \in BOOLEAN /\ hasFocus \in BOOLEAN
  BY DEF MenuInv, Menu!TypeOK
<1>2. menu' \in {"hidden", "shown", "fading"}
  BY <1>1 DEF Menu!Render, Menu!Shown, Menu!Hidden
<1>3. CASE count > 0
  BY <1>1, <1>2, <1>3 DEF Menu!Render, MenuInv
<1>4. CASE ~(count > 0)
  BY <1>1, <1>2, <1>4 DEF Menu!Render, MenuInv
<1> QED
  BY <1>3, <1>4

LEMMA MenuStep ==
  ASSUME MenuInv, Menu!Next \/ MenuInOrder!OnObserverEvent
  PROVE  MenuInv'
<1>1. /\ Menu!MaxCount \in Nat
      /\ index \in 0..Menu!MaxCount /\ entryCount \in 0..Menu!MaxCount
      /\ active => index \in 0..(entryCount - 1)
      /\ requests \in Seq(Words) /\ Len(requests) <= 2 /\ blurs \in 0..2
      /\ menu \in {"hidden", "shown", "fading"}
      /\ text \in Words /\ Some \in Words
      /\ list \in Words \cup {Menu!NoWord} /\ asked \in Words \cup {Menu!NoWord}
  BY CountsBounded DEF MenuInv, Menu!TypeOK, Menu!SelectsAnEntry, Words
<1>2. /\ focus \in BOOLEAN /\ hasFocus \in BOOLEAN /\ changed \in BOOLEAN
      /\ active \in BOOLEAN /\ observer \in BOOLEAN
      /\ changed => observer /\ (active => hasFocus) /\ (hasFocus => focus)
  BY DEF MenuInv, Menu!TypeOK, Menu!ChangedHasTimer
<1>3. CASE Menu!Type
  <2>1. /\ text' \in Words /\ changed' /\ hasFocus' /\ observer' /\ focus /\ focus' = focus
        /\ active' = active /\ index' = index /\ entryCount' = entryCount
        /\ menu' = menu /\ list' = list /\ blurs' = blurs
        /\ requests' = requests /\ asked' = asked
    BY <1>3 DEF Menu!Type, Menu!screen
  <2>2. changed' \in BOOLEAN /\ hasFocus' \in BOOLEAN /\ observer' \in BOOLEAN
    BY <1>3 DEF Menu!Type
  <2> QED
    BY <1>1, <1>2, <2>1, <2>2
       DEF MenuInv, Menu!TypeOK, Menu!SelectsAnEntry, Menu!ChangedHasTimer
<1>4. CASE Menu!KeyReturn \/ Menu!OnClick
  <2>1. /\ text' = Some /\ focus' = TRUE /\ active' = FALSE
        /\ hasFocus' = hasFocus /\ changed' = changed /\ observer' = observer
        /\ entryCount' = entryCount /\ list' = list /\ blurs' = blurs
        /\ requests' = requests /\ asked' = asked
        /\ menu' \in {"hidden", "shown", "fading"}
    BY <1>1, <1>4
       DEF Menu!KeyReturn, Menu!OnClick, Menu!SelectEntry, Menu!Hidden, Menu!timers
  <2>2. index' \in 0..Menu!MaxCount
    BY <1>1, <1>4 DEF Menu!KeyReturn, Menu!OnClick
  <2> QED
    BY <1>1, <1>2, <2>1, <2>2
       DEF MenuInv, Menu!TypeOK, Menu!SelectsAnEntry, Menu!ChangedHasTimer
<1>5. CASE Menu!KeyEsc
  <2>1. /\ active' = FALSE /\ menu' \in {"hidden", "shown", "fading"}
        /\ UNCHANGED <<text, index, entryCount, list, blurs, requests, asked>>
    BY <1>1, <1>5 DEF Menu!KeyEsc, Menu!Hidden, Menu!timers
  <2>2. focus' = focus /\ hasFocus' = hasFocus /\ changed' = changed /\ observer' = observer
    BY <1>5 DEF Menu!KeyEsc, Menu!timers
  <2> QED
    BY <1>1, <1>2, <2>1, <2>2
       DEF MenuInv, Menu!TypeOK, Menu!SelectsAnEntry, Menu!ChangedHasTimer
<1>6. CASE Menu!KeyUpDown \/ Menu!OnHover
  <2>1. Menu!Render(entryCount) /\ UNCHANGED <<text, entryCount, list, blurs, requests, asked>>
    BY <1>6 DEF Menu!KeyUpDown, Menu!OnHover, Menu!timers
  <2>2. focus' = focus /\ hasFocus' = hasFocus /\ changed' = changed /\ observer' = observer
    BY <1>6 DEF Menu!KeyUpDown, Menu!OnHover, Menu!timers
  <2>3. index' \in 0..(entryCount - 1)
    <3>1. CASE Menu!KeyUpDown
      BY <1>1, <3>1 DEF Menu!KeyUpDown, Menu!MarkPrevious, Menu!MarkNext
    <3>2. CASE Menu!OnHover
      BY <3>2 DEF Menu!OnHover
    <3> QED
      BY <1>6, <3>1, <3>2
  <2>4. index' \in 0..Menu!MaxCount
    BY <1>1, <2>3
  <2>5. /\ menu' \in {"hidden", "shown", "fading"} /\ active' \in BOOLEAN
        /\ active' => hasFocus
    BY <1>1, <2>1, Rendered
  <2> QED
    BY <1>1, <1>2, <2>1, <2>2, <2>3, <2>4, <2>5
       DEF MenuInv, Menu!TypeOK, Menu!SelectsAnEntry, Menu!ChangedHasTimer
<1>7. CASE Menu!Focus \/ Menu!BlurTimer \/ Menu!FadeEnds
  <2>1. /\ menu' \in {"hidden", "shown", "fading"} /\ blurs' \in 0..2
        /\ UNCHANGED <<text, index, entryCount, list, requests, asked>>
    BY <1>1, <1>7
       DEF Menu!Focus, Menu!BlurTimer, Menu!FadeEnds, Menu!Hidden, Menu!field, Menu!screen,
           Menu!timers
  <2>2. /\ focus' \in BOOLEAN /\ (focus => focus')
        /\ active' = active /\ hasFocus' = hasFocus /\ changed' = changed
        /\ observer' = observer
    BY <1>2, <1>7
       DEF Menu!Focus, Menu!BlurTimer, Menu!FadeEnds, Menu!field, Menu!timers
  <2> QED
    BY <1>1, <1>2, <2>1, <2>2
       DEF MenuInv, Menu!TypeOK, Menu!SelectsAnEntry, Menu!ChangedHasTimer
<1>8. CASE Menu!OnBlur
  <2>1. /\ blurs' \in 0..2
        /\ UNCHANGED <<text, index, entryCount, menu, list, requests, asked>>
    BY <1>1, <1>8 DEF Menu!OnBlur, Menu!screen
  <2>2. /\ focus' = FALSE /\ hasFocus' = FALSE /\ active' = FALSE
        /\ changed' = changed /\ observer' = observer
    BY <1>8 DEF Menu!OnBlur, Menu!KeepsObserver, Menu!HasFocusAfterBlur
  <2> QED
    BY <1>1, <1>2, <2>1, <2>2
       DEF MenuInv, Menu!TypeOK, Menu!SelectsAnEntry, Menu!ChangedHasTimer
<1>9. CASE Menu!OnObserverEvent \/ MenuInOrder!OnObserverEvent
  <2>1. /\ Len(requests) < 2
        /\ UNCHANGED <<text, index, entryCount, list, blurs>>
        /\ \/ requests' = Append(requests, text) /\ asked' = text /\ menu' = menu
           \/ UNCHANGED <<requests, asked>> /\ menu' = Menu!Hidden(menu)
    BY <1>9
       DEF Menu!OnObserverEvent, MenuInOrder!OnObserverEvent, Menu!GetToken,
           MenuInOrder!GetToken, Menu!Hidden, MenuInOrder!Hidden
  <2>2. /\ observer' = FALSE /\ changed' = FALSE /\ focus' = focus /\ hasFocus' = hasFocus
        /\ active' \in BOOLEAN /\ (active' => active)
    BY <1>2, <1>9 DEF Menu!OnObserverEvent, MenuInOrder!OnObserverEvent
  <2>3. /\ requests' \in Seq(Words) /\ Len(requests') <= 2
        /\ asked' \in Words \cup {Menu!NoWord}
    BY <1>1, <2>1
  <2>4. menu' \in {"hidden", "shown", "fading"}
    BY <1>1, <2>1 DEF Menu!Hidden
  <2> QED
    BY <1>1, <1>2, <2>1, <2>2, <2>3, <2>4
       DEF MenuInv, Menu!TypeOK, Menu!SelectsAnEntry, Menu!ChangedHasTimer
<1>10. CASE Menu!OnComplete
  <2>1. PICK n \in DOMAIN requests :
          /\ requests' = Menu!RemoveAt(requests, n)
          /\ IF Menu!Accepts
             THEN /\ list' = requests[n]
                  /\ entryCount' = CountOf[requests[n]]
                  /\ index' = 0
                  /\ Menu!Render(CountOf[requests[n]])
             ELSE UNCHANGED <<list, entryCount, index, menu, active>>
          /\ UNCHANGED <<text, focus, hasFocus, changed, observer, blurs, asked>>
    BY <1>10 DEF Menu!OnComplete, Menu!FirstIndex
  <2>2. /\ focus' = focus /\ hasFocus' = hasFocus /\ changed' = changed
        /\ observer' = observer
    BY <2>1
  <2>3. text' = text /\ blurs' = blurs /\ asked' = asked
    BY <2>1
  <2>4. requests' \in Seq(Words) /\ Len(requests') <= 2
    <3>1. Len(requests') = Len(requests) - 1 /\ requests' \in Seq(Words)
      BY <1>1, <2>1, OneAnswered
    <3> QED
      BY <1>1, <3>1
  <2>5. CASE Menu!Accepts
    <3>1. requests[n] \in Words
      BY <1>1
    <3>2. /\ CountOf[requests[n]] \in 0..Menu!MaxCount /\ CountOf[requests[n]] \in Nat
          /\ 0 \in 0..Menu!MaxCount
      BY <1>1, <3>1, CountsBounded
    <3>3. /\ list' \in Words /\ entryCount' \in 0..Menu!MaxCount /\ index' = 0
          /\ entryCount' = CountOf[requests[n]]
      BY <2>1, <2>5, <3>1, <3>2
    <3>4. /\ menu' \in {"hidden", "shown", "fading"} /\ active' \in BOOLEAN
          /\ active' => entryCount' > 0 /\ hasFocus
      BY <2>1, <2>5, <3>2, <3>3, Rendered
    <3>5. active' => index' \in 0..(entryCount' - 1)
      BY <1>1, <3>3, <3>4
    <3> QED
      BY <1>1, <1>2, <2>2, <2>3, <2>4, <3>2, <3>3, <3>4, <3>5
         DEF MenuInv, Menu!TypeOK, Menu!SelectsAnEntry, Menu!ChangedHasTimer
  <2>6. CASE ~Menu!Accepts
    <3>1. list' = list /\ entryCount' = entryCount /\ index' = index /\ menu' = menu
      BY <2>1, <2>6
    <3>2. active' = active
      BY <2>1, <2>6
    <3> QED
      BY <1>1, <1>2, <2>2, <2>3, <2>4, <3>1, <3>2
         DEF MenuInv, Menu!TypeOK, Menu!SelectsAnEntry, Menu!ChangedHasTimer
  <2> QED
    BY <2>5, <2>6
<1> QED
  BY <1>3, <1>4, <1>5, <1>6, <1>7, <1>8, <1>9, <1>10 DEF Menu!Next

LEMMA MenuStarts ==
  ASSUME Menu!Init
  PROVE  MenuInv /\ LatestInv
<1>1. /\ Menu!MaxCount \in Nat /\ text \in Words
      /\ index = 0 /\ entryCount = 0 /\ menu = "hidden" /\ list = Menu!NoWord
      /\ blurs = 0 /\ requests = <<>> /\ asked = Menu!NoWord
  BY CountsBounded DEF Menu!Init
<1>2. ~focus /\ ~hasFocus /\ ~changed /\ ~active /\ ~observer
  BY DEF Menu!Init
<1>3. \A b \in {focus, hasFocus, changed, active, observer} : b \in BOOLEAN
  BY DEF Menu!Init
<1>4. requests \in Seq(Words) /\ Len(requests) <= 2
  BY <1>1
<1>5. Menu!TypeOK
  BY <1>1, <1>3, <1>4 DEF Menu!TypeOK
<1> QED
  BY <1>1, <1>2, <1>5
     DEF MenuInv, LatestInv, Menu!SelectsAnEntry, Menu!ChangedHasTimer

LEMMA MenuRests ==
  ASSUME MenuInv, UNCHANGED menuVars
  PROVE  MenuInv' /\ (LatestInv => LatestInv')
<1>1. /\ UNCHANGED <<text, index, entryCount, menu, list, blurs, requests, asked>>
      /\ focus' = focus /\ hasFocus' = hasFocus /\ changed' = changed /\ active' = active
      /\ observer' = observer
  BY DEF menuVars
<1>2. Menu!TypeOK'
  BY <1>1 DEF MenuInv, Menu!TypeOK
<1> QED
  BY <1>1, <1>2
     DEF MenuInv, LatestInv, Menu!SelectsAnEntry, Menu!ChangedHasTimer

LEMMA EmptySeq == \A s \in Seq(Words) : Len(s) = 0 => s = <<>>
OBVIOUS

LEMMA LatestStep ==
  ASSUME MenuInv, LatestInv, MenuInOrder!Next
  PROVE  LatestInv'
<1>1. /\ requests \in Seq(Words) /\ Len(requests) \in Nat
      /\ changed => observer
      /\ hasFocus /\ ~observer /\ requests = <<>> => list = asked
      /\ requests # <<>> => asked = requests[Len(requests)]
  BY DEF MenuInv, LatestInv, Menu!TypeOK, Menu!ChangedHasTimer
<1>2. CASE MenuInOrder!Type
  BY <1>1, <1>2 DEF MenuInOrder!Type, LatestInv
<1>3. CASE \/ MenuInOrder!KeyReturn \/ MenuInOrder!KeyEsc \/ MenuInOrder!KeyUpDown
           \/ MenuInOrder!OnHover \/ MenuInOrder!OnClick \/ MenuInOrder!Focus
           \/ MenuInOrder!BlurTimer \/ MenuInOrder!FadeEnds
  <2>1. UNCHANGED <<list, requests, asked>> /\ hasFocus' = hasFocus /\ observer' = observer
    BY <1>3
       DEF MenuInOrder!KeyReturn, MenuInOrder!KeyEsc, MenuInOrder!KeyUpDown,
           MenuInOrder!OnHover, MenuInOrder!OnClick, MenuInOrder!Focus,
           MenuInOrder!BlurTimer, MenuInOrder!FadeEnds,
           MenuInOrder!timers, MenuInOrder!screen, MenuInOrder!field
  <2> QED
    BY <1>1, <2>1 DEF LatestInv
<1>4. CASE MenuInOrder!OnBlur
  <2>1. UNCHANGED <<requests, asked>> /\ ~hasFocus'
    BY <1>4 DEF MenuInOrder!OnBlur, MenuInOrder!HasFocusAfterBlur
  <2> QED
    BY <1>1, <2>1 DEF LatestInv
<1>5. CASE MenuInOrder!OnObserverEvent
  <2>1. requests' = Append(requests, text) /\ asked' = text /\ text \in Words
    BY <1>5 DEF MenuInOrder!OnObserverEvent, MenuInOrder!GetToken, MenuInv, Menu!TypeOK
  <2>2. requests' # <<>> /\ requests'[Len(requests')] = text
    BY <1>1, <2>1
  <2> QED
    BY <2>1, <2>2 DEF LatestInv
<1>6. CASE MenuInOrder!OnComplete
  <2>1. /\ 1 \in DOMAIN requests /\ requests' = Menu!RemoveAt(requests, 1)
        /\ ~changed /\ hasFocus => list' = requests[1]
        /\ asked' = asked /\ hasFocus' = hasFocus /\ observer' = observer
    BY <1>6
       DEF MenuInOrder!OnComplete, MenuInOrder!Accepts, MenuInOrder!RemoveAt, Menu!RemoveAt
  <2>2. /\ requests' \in Seq(Words) /\ Len(requests') = Len(requests) - 1
        /\ Len(requests) > 1 => requests'[Len(requests) - 1] = requests[Len(requests)]
    BY <1>1, <2>1, OneAnswered
  <2>3. requests # <<>> /\ asked = requests[Len(requests)]
    BY <1>1, <2>1
  <2>4. CASE Len(requests) = 1
    <3>1. requests' = <<>>
      <4>1. Len(requests') = 0
        BY <2>2, <2>4
      <4> QED
        BY <2>2, <4>1, EmptySeq
    <3>2. hasFocus /\ ~observer => list' = asked
      BY <1>1, <2>1, <2>3, <2>4
    <3> QED
      BY <2>1, <3>1, <3>2 DEF LatestInv
  <2>5. CASE Len(requests) # 1
    <3>1. Len(requests) > 1
      <4>1. DOMAIN requests = 1..Len(requests)
        BY <1>1
      <4>2. 1 \in 1..Len(requests)
        BY <2>1, <4>1
      <4>3. Len(requests) \in Nat
        BY <1>1
      <4>4. \A k \in Nat : 1 \in 1..k /\ k # 1 => k > 1
        OBVIOUS
      <4> QED
        BY <2>5, <4>2, <4>3, <4>4
    <3>2. requests' # <<>> /\ requests'[Len(requests')] = asked
      BY <1>1, <2>2, <2>3, <3>1
    <3> QED
      BY <2>1, <3>2 DEF LatestInv
  <2> QED
    BY <2>4, <2>5
<1> QED
  BY <1>2, <1>3, <1>4, <1>5, <1>6 DEF MenuInOrder!Next

-----------------------------------------------------------------------------
(* All of them: only the part that moves changes its variables. *)

LEMMA EachAlone == AllSpec => Spec /\ Updater!Spec /\ Editor!Spec
<1>1. AllInit => Init /\ Updater!Init /\ Editor!Init
  BY DEF AllInit
<1>2. ASSUME [AllNext]_allVars
      PROVE  [Next]_vars /\ [Updater!Next]_(Updater!vars) /\ [Editor!Next]_(Editor!vars)
  <2>1. CASE UNCHANGED allVars
    BY <2>1 DEF allVars, updaterVars, editorVars, Updater!vars, Editor!vars
  <2>2. ASSUME NEW p, Moves(p)
        PROVE  [Next]_vars /\ [Updater!Next]_(Updater!vars) /\ [Editor!Next]_(Editor!vars)
    BY <2>2 DEF Moves, updaterVars, editorVars, Updater!vars, Editor!vars
  <2> QED
    BY <1>2, <2>1, <2>2 DEF AllNext
<1> QED
  BY <1>1, <1>2, PTL DEF AllSpec, Spec, Updater!Spec, Editor!Spec

MenusInv == MenuInv /\ (part = "menuInOrder" => LatestInv)

LEMMA MenusInvariance == AllSpec => []MenusInv
<1>1. AllInit => MenusInv
  BY MenuStarts DEF AllInit, MenusInv
<1>2. ASSUME MenusInv, [AllNext]_allVars
      PROVE  MenusInv'
  <2>1. part' = part
    BY <1>2 DEF AllNext, Moves, allVars
  <2>2. CASE UNCHANGED menuVars
    BY <1>2, <2>1, <2>2, MenuRests DEF MenusInv
  <2>3. CASE part = "menu" /\ Menu!Next
    BY <1>2, <2>1, <2>3, MenuStep DEF MenusInv
  <2>4. CASE part = "menuInOrder" /\ MenuInOrder!Next
    <3>1. MenuInv' /\ LatestInv'
      BY <1>2, <2>4, SameKeys, MenuStep, LatestStep DEF MenusInv
    <3> QED
      BY <3>1 DEF MenusInv
  <2> QED
    BY <1>2, <2>2, <2>3, <2>4 DEF AllNext, Moves, allVars
<1> QED
  BY <1>1, <1>2, PTL DEF AllSpec

\* Starting and stopping the updater at any moment, with answers under way, leaves
\* one loop, and one more at most for each start without a stop before it, which is
\* what a start that does not look for a running loop allows; the count of requests
\* is never below zero nor above the number of requests.
THEOREM RequestsAreSound == AllSpec => []RequestsSound
<1>1. ASSUME IInv, CountExact
      PROVE  TypeOK
  <2>1. /\ IsFiniteSet(Under) /\ Cardinality(Under) \in Nat
        /\ IsFiniteSet(Countable) /\ Cardinality(Countable) \in Nat
        /\ activeRequestCount \in Int
    BY <1>1, UnderFinite, CountableFinite DEF IInv, Kinds
  <2>2. Cardinality(Countable) <= Cardinality(Requests) /\ Cardinality(Requests) \in Nat
    <3>1. Countable \subseteq Requests
      BY <1>1 DEF IInv, Kinds, Under, Countable
    <3> QED
      BY <3>1, AjaxRequestAssumption, FS_Subset, FS_CardinalityType
  <2>3. activeRequestCount >= Cardinality(Under) /\ activeRequestCount <= Cardinality(Countable)
    BY <1>1 DEF CountExact, Under, Countable
  <2>4. activeRequestCount \in 0..Cardinality(Requests)
    BY <2>1, <2>2, <2>3
  <2> QED
    BY <1>1, <2>4 DEF IInv, Kinds, TypeOK
<1>2. IInv /\ CountExact /\ LoopInv => RequestsSound
  BY <1>1, LoopIsOne DEF RequestsSound, LoopInv
<1> QED
  BY <1>2, EachAlone, RequestsInvariant, CountIsExact, LoopInvariance, PTL

\* Return selects an entry there is; the menu is the answer to the last request
\* when answers keep their order; the element or its form is on the page; and the
\* editor can be opened again when nothing is under way.
THEOREM PageIsUsable == AllSpec => []PageUsable
<1>1. MenusInv => /\ Menu!TypeOK /\ Menu!SelectsAnEntry /\ Menu!ChangedHasTimer
                  /\ part = "menuInOrder" => Menu!ListForLastRequest
  BY DEF MenusInv, MenuInv, LatestInv, Menu!ListForLastRequest
<1>2. EditInv => Editor!TypeOK /\ Editor!EitherShown /\ Editor!NotStuck
  BY DEF EditInv, Editor!TypeOK, Editor!NotStuck, Editor!MayEdit
<1>3. MenusInv /\ EditInv => PageUsable
  BY <1>1, <1>2 DEF PageUsable, Menu!ListForLastRequest, MenuInOrder!ListForLastRequest
<1> QED
  BY <1>3, EachAlone, MenusInvariance, EditInvariance, PTL

\* However long the updater has come to wait, a text that has changed brings it
\* back to the shortest delay: the text it compares is the one it put there.
THEOREM ChangeIsNoticed == AllSpec => Updater!ChangeResetsDelay
<1>1. ASSUME LoopInv, [Updater!Next]_(Updater!vars)
      PROVE  [container' # container /\ container # Updater!NoText => due' = 0]_(Updater!vars)
  <2>1. CASE Updater!UpdateComplete
    <3>1. PICK answer \in Texts :
            \/ container' = answer /\ due' = Updater!DecayAfter(answer)
            \/ container' = container
      BY <2>1 DEF Updater!UpdateComplete
    <3>2. answer # lastText => Updater!DecayAfter(answer) = 0
      BY DEF Updater!DecayAfter
    <3>3. container = lastText
      BY <1>1 DEF LoopInv
    <3> QED
      BY <3>1, <3>2, <3>3
  <2>2. CASE Updater!Start \/ Updater!OnTimerEvent \/ Updater!Stop
    BY <2>2 DEF Updater!Start, Updater!OnTimerEvent, Updater!Stop
  <2> QED
    BY <1>1, <2>1, <2>2 DEF Updater!Next
<1> QED
  BY <1>1, EachAlone, LoopInvariance, PTL DEF Updater!Spec, Updater!ChangeResetsDelay

\* A late answer finds nothing to disturb: it does not change the container of an
\* updater that was stopped, if it was also stopped before each new start, nor open
\* the menu of a field that was left, nor close the form a user edits in.
AnswersDisturbNothing ==
  Updater!QuietWhenStopped /\ Menu!NotOpenedAfterBlur /\ Editor!AnswersLeaveForm

THEOREM AnswersStayAway == AllSpec => AnswersDisturbNothing
<1>1. ASSUME LoopInv, [Updater!Next]_(Updater!vars)
      PROVE  [~running /\ extra = 0 => container' = container]_(Updater!vars)
  <2>1. CASE Updater!UpdateComplete
    <3>1. PICK u \in waiting : u \notin connected => container' = container
      BY <2>1 DEF Updater!UpdateComplete
    <3>2. ~running /\ extra = 0 => u \notin connected
      BY <1>1, <3>1, NoneIsLeft DEF Expected
    <3> QED
      BY <3>1, <3>2
  <2>2. CASE Updater!Start \/ Updater!OnTimerEvent \/ Updater!Stop
    BY <2>2 DEF Updater!Start, Updater!OnTimerEvent, Updater!Stop
  <2> QED
    BY <1>1, <2>1, <2>2 DEF Updater!Next
<1>2. ASSUME MenuInv, Menu!Next \/ MenuInOrder!OnObserverEvent, ~focus, menu = "hidden"
      PROVE  menu' = "hidden"
  <2>1. ~hasFocus
    BY <1>2 DEF MenuInv
  <2>2. CASE Menu!OnComplete
    BY <1>2, <2>1, <2>2 DEF Menu!OnComplete, Menu!Accepts
  <2>3. CASE Menu!OnObserverEvent \/ MenuInOrder!OnObserverEvent
    BY <1>2, <2>3
       DEF Menu!OnObserverEvent, MenuInOrder!OnObserverEvent, Menu!Hidden, MenuInOrder!Hidden
  <2>4. CASE \/ Menu!Type \/ Menu!KeyReturn \/ Menu!KeyEsc \/ Menu!KeyUpDown
             \/ Menu!OnHover \/ Menu!OnClick \/ Menu!OnBlur \/ Menu!FadeEnds
    BY <1>2, <2>4
       DEF Menu!Type, Menu!KeyReturn, Menu!KeyEsc, Menu!KeyUpDown, Menu!OnHover,
           Menu!OnClick, Menu!OnBlur, Menu!FadeEnds
  <2>5. CASE Menu!Focus \/ Menu!BlurTimer
    BY <1>2, <2>5 DEF Menu!Focus, Menu!BlurTimer, Menu!Hidden, Menu!screen
  <2> QED
    BY <1>2, <2>2, <2>3, <2>4, <2>5 DEF Menu!Next
<1>3. ASSUME MenusInv, [AllNext]_allVars
      PROVE  [~focus /\ menu = "hidden" => menu' = "hidden"]_(Menu!vars)
  <2>1. CASE UNCHANGED menuVars
    BY <2>1 DEF menuVars, Menu!vars
  <2>2. CASE Menu!Next \/ MenuInOrder!Next
    BY <1>2, <1>3, <2>2, SameKeys DEF MenusInv
  <2> QED
    BY <1>3, <2>1, <2>2 DEF AllNext, Moves, allVars
<1>4. ASSUME EditInv, [Editor!Next]_(Editor!vars)
      PROVE  [(saves' < saves \/ loads' < loads) /\ form # "none" => form' # "none"]_(Editor!vars)
  <2>1. CASE Editor!LoadedExternalText
    BY <2>1 DEF Editor!LoadedExternalText
  <2>2. CASE Editor!Saved \/ Editor!SaveFails
    <3>1. form = "none"
      BY <1>4, <2>2 DEF Editor!Saved, Editor!SaveFails, EditInv
    <3> QED
      BY <3>1
  <2>3. saves \in Nat /\ loads \in Nat
    BY <1>4 DEF EditInv, Editor!TypeOK
  <2>4. CASE Editor!EnterEditMode
    BY <2>4 DEF Editor!EnterEditMode
  <2>5. CASE Editor!Cancel \/ Editor!Submit \/ Editor!Dispose
    <3>1. loads' = loads /\ saves' \in {saves, saves + 1}
      BY <2>5 DEF Editor!Cancel, Editor!Submit, Editor!Dispose
    <3> QED
      BY <2>3, <3>1
  <2> QED
    BY <1>4, <2>1, <2>2, <2>4, <2>5 DEF Editor!Next
<1> QED
  BY <1>1, <1>3, <1>4, EachAlone, LoopInvariance, MenusInvariance, EditInvariance, PTL
     DEF AllSpec, Updater!Spec, Editor!Spec, AnswersDisturbNothing,
         Updater!QuietWhenStopped, Menu!NotOpenedAfterBlur, Editor!AnswersLeaveForm
=============================================================================
