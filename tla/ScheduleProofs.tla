---------------------------- MODULE ScheduleProofs -----------------------------
(***************************************************************************)
(* Proofs about Schedule, for every set of connections and every value of  *)
(* the ticks, timeouts and backoffs, and that its clock and loop implement *)
(* the safety part of Redial.                                              *)
(***************************************************************************)
EXTENDS Schedule, FiniteSetTheorems, WellFoundedInduction, TLAPS

(* Between passes no step is under way; a pass takes time only while it    *)
(* runs.                                                                   *)
LoopInv ==
  /\ loop # "pass" => busy = Idle
  /\ loop = "sleep" => worked = 0

(* An edit that a pass in progress came too late for has its nudge.        *)
EditInv ==
  edited # {} /\ loop # "start" =>
    nudge \/ telling \/ (loop = "sleep" /\ timer <= RetryTick)

(* What the passes that failed add to the wait of a connection.            *)
Extra(m) == m * (RetryTick + PassTime)

(* How long the connection whose history is kept may have been due: since  *)
(* the pass went by it, or since Run went to sleep and before.             *)
Passed == loop = "pass" /\ Followed \notin todo

LingerInv ==
  /\ idle > 0 => Expired(Followed)
  /\ Passed => idle <= worked
  /\ loop = "sleep" => idle + timer <= Tick + PassTime + Extra(missed)
  /\ loop # "sleep" => idle <= Tick + PassTime + worked + Extra(missed)

(* While its backoff is the one Run slept for, the timer ends with it, or  *)
(* less than a second after it.                                            *)
BackoffInv == pending =>
  /\ phase[Followed] # "connecting"
  /\ loop = "sleep" => idle + timer < retry[Followed] + Second
  /\ loop # "sleep" => idle < worked + Second

Inv == TypeOK /\ LoopInv /\ EditInv /\ LingerInv /\ BackoffInv

-----------------------------------------------------------------------------
(* Powers of two *)

(* A power of two counts the subsets of 1..n. *)
LEMMA PowerIsPositive ==
  ASSUME NEW n \in Nat
  PROVE  2^n \in Nat \ {0}
  <1>1. IsFiniteSet(1..n) /\ Cardinality(1..n) = n
    BY FS_Interval
  <1>2. IsFiniteSet(SUBSET (1..n)) /\ Cardinality(SUBSET (1..n)) = 2^n
    BY <1>1, FS_SUBSET
  <1>3. SUBSET (1..n) # {}
    OBVIOUS
  <1> QED BY <1>2, <1>3, FS_CardinalityType, FS_EmptySet

(* A nonempty set of natural numbers has a least element. *)
LEMMA LeastElement ==
  ASSUME NEW T \in SUBSET Nat, T # {}
  PROVE  \E x \in T : \A y \in T : x <= y
  <1>1. PICK x \in T : \A y \in T : ~(<<y, x>> \in OpToRel(<, Nat))
    BY NatLessThanWellFounded, WFMin
  <1>2. \A y \in T : ~(y < x)
    BY <1>1 DEF OpToRel
  <1> QED BY <1>2

-----------------------------------------------------------------------------
(* Types *)

Phases == {"disconnected", "connecting", "up", "failed"}

DeadlinesType ==
  /\ phase \in [Names -> Phases]
  /\ failures \in [Names -> 0..(MaxShift + 1)]
  /\ retry \in [Names -> 0..MaxRedialDelay]
  /\ dialed \in [Names -> 0..DialTimeout]

LEMMA ConstantsType ==
  /\ Tick \in Nat \ {0} /\ RetryTick \in Nat \ {0} /\ DialTimeout \in Nat \ {0}
  /\ MinRedialDelay \in Nat \ {0} /\ MaxRedialDelay \in Nat \ {0} /\ Second \in Nat \ {0}
  /\ MaxShift \in Nat /\ PassTime \in Nat /\ MaxMissed \in Nat
  /\ RetryTick <= Tick /\ Second <= RetryTick /\ MinRedialDelay <= MaxRedialDelay
  /\ Followed \in Names
  BY ScheduleAssumption

(* A backoff runs, and not for longer than the longest. *)
LEMMA RedialDelayType ==
  ASSUME NEW f \in 1..(MaxShift + 1)
  PROVE  redialDelay(f) \in 1..MaxRedialDelay
  <1>1. Least(f - 1, MaxShift) \in Nat
    BY ConstantsType DEF Least
  <1> DEFINE power == 2^Least(f - 1, MaxShift)
  <1>2. power \in Nat \ {0}
    BY <1>1, PowerIsPositive
  <1> HIDE DEF power
  <1>3. MinRedialDelay * power \in Nat \ {0}
    BY <1>2, ConstantsType
  <1>4. Least(MinRedialDelay * power, MaxRedialDelay) \in 1..MaxRedialDelay
    BY <1>3, ConstantsType DEF Least
  <1> QED BY <1>4 DEF redialDelay, power

(* The timer is set for no later than any backoff that runs, or a second. *)
LEMMA NextRetryType ==
  ASSUME retry \in [Names -> 0..MaxRedialDelay]
  PROVE  /\ nextRetry \in Nat
         /\ \A n \in Running : nextRetry <= Most(Second, retry[n])
  <1> DEFINE T == {Tick} \cup {retry[n] : n \in Running}
  <1>1. T \in SUBSET Nat /\ T # {}
    <2>1. \A n \in Running : retry[n] \in Nat
      BY ConstantsType DEF Running
    <2> QED BY <2>1, ConstantsType
  <1>2. Min(T) \in T /\ \A y \in T : Min(T) <= y
    <2>1. \E x \in T : \A y \in T : x <= y
      BY <1>1, LeastElement
    <2> HIDE DEF T
    <2> QED BY <2>1 DEF Min
  <1>3. Min(T) \in Nat
    BY <1>1, <1>2
  <1>4. nextRetry = Most(Second, Min(T))
    BY DEF nextRetry
  <1>5. \A n \in Running : retry[n] \in T
    OBVIOUS
  <1>6. \A n \in Running : retry[n] \in Nat
    BY ConstantsType DEF Running
  <1> HIDE DEF T
  <1>7. ASSUME NEW n \in Running PROVE nextRetry <= Most(Second, retry[n])
    BY <1>2, <1>3, <1>4, <1>5, <1>6, ConstantsType DEF Most
  <1> QED BY <1>3, <1>4, <1>7, ConstantsType DEF Most

LEMMA SetType ==
  ASSUME DeadlinesType, NEW n \in Names, NEW p \in Phases, NEW f \in 0..(MaxShift + 1),
         NEW r \in 0..MaxRedialDelay, Set(n, p, f, r)
  PROVE  DeadlinesType'
  <1>1. 0 \in 0..DialTimeout /\ DialTimeout \in 0..DialTimeout
    BY ConstantsType
  <1>2. (IF p = "connecting" THEN 0 ELSE DialTimeout) \in 0..DialTimeout
    BY <1>1
  <1> QED BY <1>2 DEF Set, DeadlinesType

LEMMA OneMoreType ==
  ASSUME NEW f \in 0..(MaxShift + 1)
  PROVE  OneMore(f) \in 1..(MaxShift + 1)
  BY ConstantsType DEF OneMore, Least

LEMMA FailedType ==
  ASSUME DeadlinesType, NEW n \in Names, Failed(n)
  PROVE  /\ DeadlinesType'
         /\ phase' = [phase EXCEPT ![n] = "failed"]
         /\ \E r \in 1..MaxRedialDelay : retry' = [retry EXCEPT ![n] = r]
         /\ dialed' = [dialed EXCEPT ![n] = DialTimeout]
  <1> DEFINE f == OneMore(failures[n])
  <1>1. failures[n] \in 0..(MaxShift + 1)
    BY DEF DeadlinesType
  <1>2. f \in 1..(MaxShift + 1)
    BY <1>1, OneMoreType
  <1>3. redialDelay(f) \in 1..MaxRedialDelay
    BY <1>2, RedialDelayType
  <1>4. Set(n, "failed", f, redialDelay(f))
    BY DEF Failed
  <1> HIDE DEF f
  <1>5. f \in 0..(MaxShift + 1) /\ redialDelay(f) \in 0..MaxRedialDelay /\ "failed" \in Phases
    BY <1>2, <1>3, ConstantsType DEF Phases
  <1> QED BY <1>3, <1>4, <1>5, SetType DEF Set

LEMMA Type_Deadlines ==
  ASSUME DeadlinesType, [Next]_vars
  PROVE  DeadlinesType'
  <1>1. 0 \in 0..(MaxShift + 1) /\ 0 \in 0..MaxRedialDelay
        /\ MinRedialDelay \in 0..MaxRedialDelay
        /\ DialTimeout \in 0..DialTimeout
    BY ConstantsType
  <1>2. \A p \in {"disconnected", "connecting", "up", "failed"} : p \in Phases
    BY DEF Phases
  <1>3. \A n \in Names : failures[n] \in 0..(MaxShift + 1) /\ retry[n] \in 0..MaxRedialDelay
    BY DEF DeadlinesType
  <1>4. ASSUME NEW n \in Names, StepEnds(n) PROVE DeadlinesType'
    BY <1>1, <1>2, <1>3, <1>4, SetType, FailedType DEF StepEnds
  <1>5. ASSUME NEW n \in Names, PPPUp(n) \/ PPPDown(n) PROVE DeadlinesType'
    BY <1>1, <1>2, <1>3, <1>5, SetType DEF PPPUp, PPPDown
  <1>6. ASSUME NEW n \in Names, PPPUpFails(n) \/ Unhealthy(n) PROVE DeadlinesType'
    BY <1>6, FailedType DEF PPPUpFails, Unhealthy
  <1>7. CASE Start
    BY <1>1, <1>2, <1>7 DEF Start, Dropped, DeadlinesType
  <1>8. CASE Clock
    <2>1. \A r \in 0..MaxRedialDelay : Down(r) \in 0..MaxRedialDelay
      BY ConstantsType DEF Down
    <2>2. \A t \in 0..DialTimeout : Least(t + 1, DialTimeout) \in 0..DialTimeout
      BY ConstantsType DEF Least
    <2>3. /\ retry' = [n \in Names |-> Down(retry[n])]
          /\ dialed' = [n \in Names |-> Least(dialed[n] + 1, DialTimeout)]
          /\ UNCHANGED <<phase, failures>>
      BY <1>8 DEF Clock
    <2>4. retry' \in [Names -> 0..MaxRedialDelay]
      BY <2>1, <2>3 DEF DeadlinesType
    <2>5. dialed' \in [Names -> 0..DialTimeout]
      BY <2>2, <2>3 DEF DeadlinesType
    <2> QED BY <2>3, <2>4, <2>5 DEF DeadlinesType
  <1>9. CASE UNCHANGED deadlines
    BY <1>9 DEF deadlines, DeadlinesType
  <1> QED BY <1>4, <1>5, <1>6, <1>7, <1>8, <1>9
          DEF Next, Run, Others, vars, Wake, StartFails, PassEnds, Sleep, Step, StepsTo, Tell,
              Invalidate, Edit

(* What the steps of Run do to the loop; hooks and handlers leave it alone. *)
LEMMA SleepType ==
  ASSUME TypeOK, NEW wait \in {Tick, RetryTick}, Sleep(wait)
  PROVE  /\ timer' \in 0..Tick /\ timer' <= wait /\ timer' <= nextRetry
         /\ loop' = "sleep" /\ todo' = {} /\ worked' = 0
  <1>1. nextRetry \in Nat
    BY NextRetryType DEF TypeOK
  <1>2. wait \in Nat /\ wait <= Tick
    BY ConstantsType
  <1>3. timer' = Least(wait, nextRetry)
    BY DEF Sleep
  <1>4. timer' \in 0..Tick /\ timer' <= wait /\ timer' <= nextRetry
    BY <1>1, <1>2, <1>3, ConstantsType DEF Least
  <1> QED BY <1>4 DEF Sleep

LEMMA Type_Run ==
  ASSUME TypeOK, [Next]_vars
  PROVE  /\ loop' \in {"start", "pass", "sleep"} /\ todo' \in SUBSET Names
         /\ busy' \in {Idle} \cup {Doing(op, n) : op \in {"dial", "fail"}, n \in Names}
         /\ worked' \in 0..PassTime /\ timer' \in 0..Tick
  <1> DEFINE Busy == {Idle} \cup {Doing(op, n) : op \in {"dial", "fail"}, n \in Names}
             Goal == /\ loop' \in {"start", "pass", "sleep"} /\ todo' \in SUBSET Names
                     /\ busy' \in Busy
                     /\ worked' \in 0..PassTime /\ timer' \in 0..Tick
  <1>1. /\ loop \in {"start", "pass", "sleep"} /\ todo \in SUBSET Names /\ busy \in Busy
        /\ worked \in 0..PassTime /\ timer \in 0..Tick
        /\ 0 \in 0..PassTime /\ 0 \in 0..Tick
    BY ConstantsType DEF TypeOK
  <1>2. Idle \in Busy /\ \A n \in Names : Doing("dial", n) \in Busy /\ Doing("fail", n) \in Busy
    OBVIOUS
  <1> HIDE DEF Busy
  <1>3. ASSUME Wake PROVE Goal
    BY <1>1, <1>3 DEF Wake
  <1>4. ASSUME Start PROVE Goal
    BY <1>1, <1>4 DEF Start
  <1>5. ASSUME StartFails PROVE Goal
    BY <1>1, <1>5, SleepType DEF StartFails, Sleep
  <1>6. ASSUME PassEnds PROVE Goal
    BY <1>1, <1>6, SleepType DEF PassEnds, Sleep
  <1>7. ASSUME NEW n \in Names, Step(n) PROVE Goal
    <2>1. busy' \in Busy
      <3>1. busy' = Idle \/ busy' = Doing("fail", n) \/ busy' = Doing("dial", n)
        BY <1>7 DEF Step, StepsTo
      <3> QED BY <1>2, <3>1
    <2> QED BY <1>1, <1>7, <2>1 DEF Step, StepsTo
  <1>8. ASSUME NEW n \in Names, StepEnds(n) PROVE Goal
    BY <1>1, <1>2, <1>8 DEF StepEnds
  <1>9. ASSUME Clock PROVE Goal
    <2>1. timer' = Down(timer) /\ UNCHANGED <<loop, todo, busy>>
      BY <1>9 DEF Clock
    <2>2. worked' = 0 \/ (worked < PassTime /\ worked' = worked + 1)
      BY <1>9 DEF Clock, MayTick
    <2>3. timer' \in 0..Tick
      <3>1. timer \in 0..Tick
        BY <1>1
      <3> QED BY <2>1, <3>1, ConstantsType DEF Down
    <2>4. worked' \in 0..PassTime
      <3>1. worked \in 0..PassTime
        BY <1>1
      <3> QED BY <2>2, <3>1, ConstantsType
    <2> QED BY <1>1, <2>1, <2>3, <2>4
  <1>10. ASSUME UNCHANGED <<loop, todo, busy, worked, timer>> PROVE Goal
    BY <1>1, <1>10
  <1> HIDE DEF Goal
  <1>11. Goal
    BY <1>3, <1>4, <1>5, <1>6, <1>7, <1>8, <1>9, <1>10
       DEF Next, Run, run, Others, vars, Tell, Invalidate, PPPUp, PPPUpFails, PPPDown,
           Unhealthy, Edit
  <1> QED BY <1>11 DEF Goal, Busy

LEMMA Type_Channel ==
  ASSUME TypeOK, [Next]_vars
  PROVE  nudge' \in BOOLEAN /\ telling' \in BOOLEAN /\ edited' \in SUBSET Names
  <1>1. nudge \in BOOLEAN /\ telling \in BOOLEAN /\ edited \in SUBSET Names
    BY DEF TypeOK
  <1>2. nudge' = nudge \/ nudge' = FALSE \/ nudge' = TRUE
    BY DEF Next, Run, run, Others, vars, channel, Wake, Start, StartFails, PassEnds, Sleep,
           Step, StepsTo, StepEnds, Tell, Invalidate, PPPUp, PPPUpFails, PPPDown, Unhealthy,
           Edit, Nudge, Clock
  <1>3. telling' = telling \/ telling' = FALSE \/ telling' = TRUE
    BY DEF Next, Run, run, Others, vars, channel, Wake, Start, StartFails, PassEnds, Sleep,
           Step, StepsTo, StepEnds, Tell, Invalidate, PPPUp, PPPUpFails, PPPDown, Unhealthy,
           Edit, Nudge, Clock
  <1>4. \/ edited' = edited \/ edited' = {} \/ edited' = Names
        \/ \E n \in Names : edited' = edited \cup {n}
    BY DEF Next, Run, run, Others, vars, channel, Wake, Start, StartFails, PassEnds, Sleep,
           Step, StepsTo, StepEnds, Tell, Invalidate, PPPUp, PPPUpFails, PPPDown, Unhealthy,
           Edit, Nudge, Clock
  <1>5. nudge' \in BOOLEAN
    BY <1>1, <1>2
  <1>6. telling' \in BOOLEAN
    BY <1>1, <1>3
  <1>7. edited' \in SUBSET Names
    BY <1>1, <1>4
  <1> QED BY <1>5, <1>6, <1>7

LEMMA Type_History ==
  ASSUME TypeOK, [Next]_vars
  PROVE  idle' \in Nat /\ pending' \in BOOLEAN /\ missed' \in 0..MaxMissed
  <1>1. idle \in Nat /\ pending \in BOOLEAN
    BY DEF TypeOK
  <1>2. idle' = idle \/ idle' = 0 \/ idle' = idle + 1
    BY DEF Next, Run, run, Others, vars, history, Wake, Start, StartFails, PassEnds, Seen,
           Sleep, Step, StepsTo, StepEnds, Tell, Invalidate, PPPUp, PPPUpFails, PPPDown,
           Unhealthy, Edit, Clock
  <1>3. \/ pending' = pending
        \/ \E ns : pending' = (pending /\ Followed \notin ns)
        \/ pending' = (Followed \in Running /\ phase[Followed] # "connecting")
    BY DEF Next, Run, run, Others, vars, history, Wake, Start, StartFails, PassEnds, Seen,
           Sleep, Step, StepsTo, StepEnds, Tell, Invalidate, PPPUp, PPPUpFails, PPPDown,
           Unhealthy, Edit, Clock
  <1>4. pending' \in BOOLEAN
    BY <1>1, <1>3
  <1>5. \/ missed' = missed \/ missed' = 0
        \/ missed < MaxMissed /\ missed' = missed + 1
    BY DEF Next, Run, run, Others, vars, history, Wake, Start, StartFails, PassEnds, Seen,
           Sleep, Step, StepsTo, StepEnds, Tell, Invalidate, PPPUp, PPPUpFails, PPPDown,
           Unhealthy, Edit, Clock
  <1>6. missed' \in 0..MaxMissed
    BY <1>5, ConstantsType DEF TypeOK
  <1> QED BY <1>1, <1>2, <1>4, <1>6

LEMMA Type_Next ==
  ASSUME TypeOK, [Next]_vars
  PROVE  TypeOK'
  <1>1. DeadlinesType'
    BY Type_Deadlines DEF TypeOK, DeadlinesType, Phases
  <1> QED BY <1>1, Type_Run, Type_Channel, Type_History DEF TypeOK, DeadlinesType, Phases

-----------------------------------------------------------------------------
(* The loop and the channel *)

LEMMA LoopInv_Next ==
  ASSUME LoopInv, [Next]_vars
  PROVE  LoopInv'
  BY DEF LoopInv, Next, Run, run, Others, vars, Wake, Start, StartFails, PassEnds, Sleep, Step,
         StepsTo, StepEnds, Tell, Invalidate, PPPUp, PPPUpFails, PPPDown, Unhealthy, Edit,
         Clock, Doing, Idle

LEMMA EditInv_Next ==
  ASSUME TypeOK, EditInv, [Next]_vars
  PROVE  EditInv'
  <1> USE DEF EditInv
  <1>1. timer \in Nat /\ loop \in {"start", "pass", "sleep"}
    BY ConstantsType DEF TypeOK
  <1>2. CASE Wake
    BY <1>2 DEF Wake
  <1>3. CASE Start
    BY <1>3 DEF Start
  <1>4. CASE StartFails
    BY <1>4, SleepType DEF StartFails
  <1>5. CASE PassEnds
    BY <1>1, <1>5 DEF PassEnds, Sleep, channel
  <1>6. CASE \E n \in Names : Step(n) \/ StepEnds(n)
    BY <1>6 DEF Step, StepsTo, StepEnds, channel
  <1>7. CASE Tell \/ Invalidate
    BY <1>7 DEF Tell, Invalidate, Nudge
  <1>8. CASE \E n \in Names : Edit(n)
    BY <1>8 DEF Edit
  <1>9. CASE \E n \in Names : PPPUp(n) \/ PPPUpFails(n)
    BY <1>9 DEF PPPUp, PPPUpFails, run, channel
  <1>10. CASE \E n \in Names : PPPDown(n) \/ Unhealthy(n)
    BY <1>10 DEF PPPDown, Unhealthy, Nudge
  <1>11. CASE Clock
    <2>1. Down(timer) <= timer
      BY <1>1 DEF Down
    <2>2. timer' = Down(timer) /\ Down(timer) \in Nat /\ UNCHANGED <<loop, channel>>
      BY <1>1, <1>11 DEF Clock, Down
    <2>3. timer <= RetryTick => timer' <= RetryTick
      BY <1>1, <2>1, <2>2, ConstantsType
    <2> QED BY <2>2, <2>3 DEF channel
  <1>12. CASE UNCHANGED vars
    BY <1>12 DEF vars, run, channel
  <1> QED BY <1>2, <1>3, <1>4, <1>5, <1>6, <1>7, <1>8, <1>9, <1>10, <1>11, <1>12
          DEF Next, Run, Others

-----------------------------------------------------------------------------
(* The history of one connection *)

(* The wait that failed passes add, and what one more adds to it. *)
LEMMA ExtraType ==
  ASSUME NEW m \in Nat
  PROVE  Extra(m) \in Nat /\ Extra(m + 1) = Extra(m) + RetryTick + PassTime
  BY ConstantsType DEF Extra

LEMMA ExtraNat ==
  ASSUME TypeOK, TypeOK'
  PROVE  Extra(missed) \in Nat /\ Extra(missed') \in Nat
  <1>1. missed \in Nat /\ missed' \in Nat
    BY ConstantsType DEF TypeOK
  <1> QED BY <1>1, ExtraType

(* A step that does nothing about the connection, or sees its deadline, as *)
(* long as it does nothing to the loop, keeps what is known of it.         *)
LEMMA KeepsHistory ==
  ASSUME TypeOK, TypeOK', LingerInv, BackoffInv,
         UNCHANGED <<loop, timer, worked>>,
         Followed \in todo' <=> Followed \in todo,
         \/ idle' = 0 /\ ~pending'
         \/ /\ UNCHANGED history
            /\ phase'[Followed] = phase[Followed]
            /\ retry'[Followed] = retry[Followed]
            /\ dialed'[Followed] = dialed[Followed]
  PROVE  LingerInv' /\ BackoffInv'
  <1>1. /\ worked \in Nat /\ timer \in 0..Tick /\ Tick \in Nat /\ PassTime \in Nat
        /\ Second \in Nat \ {0} /\ Extra(missed') \in Nat
    BY ConstantsType, ExtraNat DEF TypeOK
  <1>2. CASE idle' = 0 /\ ~pending'
    <2>1. idle' + timer <= Tick + PassTime + Extra(missed')
      BY <1>1, <1>2
    <2>2. idle' <= worked /\ idle' <= Tick + PassTime + worked + Extra(missed')
      BY <1>1, <1>2
    <2> QED BY <1>2, <2>1, <2>2 DEF LingerInv, BackoffInv, Passed
  <1>3. CASE /\ UNCHANGED history
             /\ phase'[Followed] = phase[Followed]
             /\ retry'[Followed] = retry[Followed]
             /\ dialed'[Followed] = dialed[Followed]
    BY <1>3 DEF LingerInv, BackoffInv, Passed, Expired, Extra, history
  <1> QED BY <1>2, <1>3

LEMMA SetKeeps ==
  ASSUME TypeOK, TypeOK', LingerInv, BackoffInv,
         NEW n \in Names, NEW p, NEW f, NEW r, Set(n, p, f, r), Seen({n}),
         UNCHANGED <<loop, timer, worked, todo>>
  PROVE  LingerInv' /\ BackoffInv'
  <1>1. CASE n = Followed
    BY <1>1, KeepsHistory DEF Seen
  <1>2. CASE n # Followed
    <2>1. /\ phase'[Followed] = phase[Followed] /\ retry'[Followed] = retry[Followed]
          /\ dialed'[Followed] = dialed[Followed]
      BY <1>2, ConstantsType DEF Set, TypeOK
    <2>2. UNCHANGED <<idle, missed>>
      BY <1>2 DEF Seen
    <2>3. UNCHANGED pending
      <3>1. pending' = (pending /\ Followed \notin {n})
        BY DEF Seen
      <3> QED BY <1>2, <3>1 DEF TypeOK
    <2> QED BY <2>1, <2>2, <2>3, KeepsHistory DEF history
  <1> QED BY <1>1, <1>2

LEMMA History_Hooks ==
  ASSUME TypeOK, TypeOK', LingerInv, BackoffInv, NEW n \in Names,
         PPPUp(n) \/ PPPUpFails(n) \/ PPPDown(n) \/ Unhealthy(n) \/ StepEnds(n)
  PROVE  LingerInv' /\ BackoffInv'
  <1>1. \E p, f, r : Set(n, p, f, r)
    BY DEF PPPUp, PPPUpFails, PPPDown, Unhealthy, StepEnds, Failed
  <1>2. Seen({n}) /\ UNCHANGED <<loop, timer, worked, todo>>
    BY DEF PPPUp, PPPUpFails, PPPDown, Unhealthy, StepEnds, run
  <1> QED BY <1>1, <1>2, SetKeeps

LEMMA History_Edits ==
  ASSUME TypeOK, TypeOK', LingerInv, BackoffInv,
         \/ Tell \/ Invalidate \/ (\E n \in Names : Edit(n)) \/ UNCHANGED vars
  PROVE  LingerInv' /\ BackoffInv'
  <1>1. UNCHANGED <<deadlines, run, history>>
    BY DEF Tell, Invalidate, Edit, vars
  <1> QED BY <1>1, KeepsHistory DEF deadlines, run

LEMMA History_Step ==
  ASSUME TypeOK, TypeOK', LingerInv, BackoffInv, NEW n \in Names, Step(n)
  PROVE  LingerInv' /\ BackoffInv'
  <1> DEFINE Same == /\ phase'[Followed] = phase[Followed]
                     /\ retry'[Followed] = retry[Followed]
                     /\ dialed'[Followed] = dialed[Followed]
  <1>1. /\ UNCHANGED <<deadlines, loop, worked, timer>> /\ loop = "pass"
        /\ todo' = todo \ {n}
        /\ IF Expired(n) THEN Seen({n}) ELSE UNCHANGED history
    BY DEF Step, StepsTo
  <1>2. CASE n = Followed /\ Expired(n)
    <2>1. idle' = 0 /\ ~pending'
      BY <1>1, <1>2 DEF Seen
    <2>2. Extra(missed') \in Nat /\ worked \in Nat /\ Tick \in Nat /\ PassTime \in Nat
      BY ConstantsType, ExtraNat DEF TypeOK
    <2>3. UNCHANGED <<loop, worked>> /\ loop = "pass"
      BY <1>1
    <2> QED BY <2>1, <2>2, <2>3 DEF LingerInv, BackoffInv
  <1>3. CASE n = Followed /\ ~Expired(n)
    <2>1. idle = 0
      BY <1>3 DEF LingerInv, TypeOK
    <2>2. idle' = 0 /\ UNCHANGED pending
      BY <1>1, <1>3, <2>1 DEF history
    <2>3. /\ Second \in Nat \ {0} /\ worked \in Nat /\ Tick \in Nat /\ PassTime \in Nat
          /\ Extra(missed') \in Nat
      BY ConstantsType, ExtraNat DEF TypeOK
    <2>4. UNCHANGED <<deadlines, loop, worked>> /\ loop = "pass"
      BY <1>1
    <2>5. LingerInv'
      BY <2>2, <2>3, <2>4 DEF LingerInv
    <2>6. BackoffInv'
      BY <2>2, <2>3, <2>4 DEF BackoffInv, deadlines
    <2> QED BY <2>5, <2>6
  <1>4. CASE n # Followed
    <2>1. UNCHANGED <<idle, missed>>
      BY <1>1, <1>4 DEF Seen, history
    <2>2. UNCHANGED pending
      <3>1. pending' = pending \/ pending' = (pending /\ Followed \notin {n})
        BY <1>1 DEF Seen, history
      <3> QED BY <1>4, <3>1 DEF TypeOK
    <2>3. Followed \in todo' <=> Followed \in todo
      BY <1>1, <1>4
    <2> QED BY <1>1, <2>1, <2>2, <2>3, KeepsHistory DEF history, deadlines
  <1> QED BY <1>2, <1>3, <1>4

LEMMA History_Wake ==
  ASSUME TypeOK, TypeOK', LoopInv, LingerInv, BackoffInv, Wake
  PROVE  LingerInv' /\ BackoffInv'
  <1>1. /\ loop = "sleep" /\ loop' = "start" /\ worked' = 0 /\ UNCHANGED <<deadlines, history>>
    BY DEF Wake, LoopInv
  <1>2. /\ timer \in Nat /\ idle \in Nat /\ Tick \in Nat /\ PassTime \in Nat
        /\ Second \in Nat \ {0} /\ retry[Followed] \in Nat /\ Extra(missed) \in Nat
    BY ConstantsType, ExtraNat DEF TypeOK
  <1>3. LingerInv'
    <2>1. UNCHANGED Extra(missed)
      BY <1>1 DEF history, Extra
    <2> QED BY <1>1, <1>2, <2>1 DEF LingerInv, Passed, Expired, deadlines, history
  <1>4. ASSUME pending PROVE idle < Second
    <2>1. idle > 0 => retry[Followed] = 0
      BY <1>4 DEF LingerInv, BackoffInv, Expired
    <2> QED BY <1>1, <1>2, <1>4, <2>1 DEF BackoffInv
  <1>5. BackoffInv'
    BY <1>1, <1>2, <1>4 DEF BackoffInv, deadlines, history
  <1> QED BY <1>3, <1>5

LEMMA History_Start ==
  ASSUME TypeOK, TypeOK', LingerInv, BackoffInv, Start
  PROVE  LingerInv' /\ BackoffInv'
  <1>1. /\ loop = "start" /\ loop' = "pass" /\ Followed \in todo' /\ UNCHANGED worked
        /\ Dropped(edited) /\ Seen(edited)
    BY ConstantsType DEF Start
  <1>2. /\ worked \in Nat /\ idle \in Nat /\ Tick \in Nat /\ PassTime \in Nat
        /\ Second \in Nat \ {0} /\ Extra(missed') \in Nat
    BY ConstantsType, ExtraNat DEF TypeOK
  <1>3. \/ idle' = 0 /\ ~pending'
        \/ /\ UNCHANGED <<idle, missed>> /\ (pending' => pending)
           /\ phase'[Followed] = phase[Followed] /\ retry'[Followed] = retry[Followed]
           /\ dialed'[Followed] = dialed[Followed]
    BY <1>1, ConstantsType DEF Dropped, Seen
  <1>4. idle' > 0 => Expired(Followed)'
    BY <1>2, <1>3 DEF LingerInv, Expired
  <1>5. idle' <= Tick + PassTime + worked' + Extra(missed')
    BY <1>1, <1>2, <1>3 DEF LingerInv, Extra
  <1>6. LingerInv'
    BY <1>1, <1>4, <1>5 DEF LingerInv, Passed
  <1>7. BackoffInv'
    BY <1>1, <1>2, <1>3 DEF BackoffInv
  <1> QED BY <1>6, <1>7

(* The timer is set for less than a second after the backoff that runs. *)
LEMMA SleepHistory ==
  ASSUME TypeOK, TypeOK', NEW wait \in {Tick, RetryTick}, Sleep(wait),
         UNCHANGED idle, idle > 0 => Expired(Followed),
         idle > 0 => idle + wait <= Tick + PassTime + Extra(missed')
  PROVE  LingerInv' /\ BackoffInv'
  <1>1. /\ timer' \in 0..Tick /\ timer' <= nextRetry /\ loop' = "sleep" /\ worked' = 0
    BY SleepType
  <1>2. /\ Tick \in Nat /\ PassTime \in Nat /\ Second \in Nat \ {0}
        /\ retry[Followed] \in Nat /\ retry \in [Names -> 0..MaxRedialDelay]
        /\ idle \in Nat /\ RetryTick \in Nat /\ timer' <= wait /\ Extra(missed') \in Nat
        /\ wait \in Nat /\ wait <= Tick
    BY ConstantsType, SleepType, ExtraNat DEF TypeOK
  <1>3. UNCHANGED deadlines /\ pending' = (Followed \in Running /\ phase[Followed] # "connecting")
    BY DEF Sleep
  <1>4. LingerInv'
    <2>1. idle' + timer' <= Tick + PassTime + Extra(missed')
      BY <1>1, <1>2
    <2> QED BY <1>1, <1>3, <2>1 DEF LingerInv, Passed, Expired, deadlines
  <1>5. ASSUME pending' PROVE idle' + timer' < retry[Followed] + Second
    <2>1. retry[Followed] > 0 /\ phase[Followed] # "connecting" /\ Followed \in Running
      BY <1>3, <1>5 DEF Running
    <2>2. idle' = 0
      BY <1>2, <2>1 DEF Expired
    <2>3. nextRetry \in Nat /\ nextRetry <= Most(Second, retry[Followed])
      BY <1>2, <2>1, NextRetryType
    <2>4. Most(Second, retry[Followed]) < retry[Followed] + Second
      BY <1>2, <2>1 DEF Most
    <2>5. Most(Second, retry[Followed]) \in Nat
      BY <1>2 DEF Most
    <2> QED BY <1>1, <1>2, <2>2, <2>3, <2>4, <2>5
  <1>6. BackoffInv'
    BY <1>1, <1>3, <1>5 DEF BackoffInv, deadlines
  <1> QED BY <1>4, <1>6

LEMMA History_Sleep ==
  ASSUME TypeOK, TypeOK', LingerInv, PassEnds \/ StartFails
  PROVE  LingerInv' /\ BackoffInv'
  <1>1. /\ idle \in Nat /\ worked \in 0..PassTime /\ Tick \in Nat /\ PassTime \in Nat
        /\ RetryTick \in Nat /\ RetryTick <= Tick /\ missed \in Nat /\ Extra(missed') \in Nat
    BY ConstantsType, ExtraNat DEF TypeOK
  <1>2. idle > 0 => Expired(Followed)
    BY DEF LingerInv
  <1>3. CASE PassEnds
    <2>1. /\ Sleep(Tick) \/ Sleep(RetryTick)
          /\ UNCHANGED idle /\ Passed
      BY <1>3 DEF PassEnds, Passed
    <2>2. idle <= PassTime
      BY <1>1, <2>1 DEF LingerInv
    <2>3. idle + Tick <= Tick + PassTime + Extra(missed')
      BY <1>1, <2>2
    <2>4. idle + RetryTick <= Tick + PassTime + Extra(missed')
      BY <1>1, <2>2, <2>3
    <2> QED BY <1>2, <2>1, <2>3, <2>4, SleepHistory
  <1>4. CASE StartFails
    <2>1. Sleep(RetryTick) /\ UNCHANGED idle /\ loop = "start"
      BY <1>4 DEF StartFails
    <2>2. ASSUME idle > 0 PROVE idle + RetryTick <= Tick + PassTime + Extra(missed')
      <3>1. missed' = missed + 1
        BY <1>2, <1>4, <2>2 DEF StartFails
      <3>2. Extra(missed') = Extra(missed) + RetryTick + PassTime /\ Extra(missed) \in Nat
        BY <1>1, <3>1, ExtraType
      <3>3. idle <= Tick + PassTime + worked + Extra(missed)
        BY <2>1 DEF LingerInv
      <3> QED BY <1>1, <3>2, <3>3
    <2> QED BY <1>2, <2>1, <2>2, SleepHistory
  <1> QED BY <1>3, <1>4

LEMMA History_Clock ==
  ASSUME TypeOK, TypeOK', LingerInv, BackoffInv, Clock
  PROVE  LingerInv' /\ BackoffInv'
  <1>1. /\ timer \in Nat /\ idle \in Nat /\ worked \in Nat /\ Tick \in Nat /\ PassTime \in Nat
        /\ Second \in Nat \ {0} /\ retry[Followed] \in Nat /\ DialTimeout \in Nat
        /\ dialed[Followed] \in 0..DialTimeout /\ pending \in BOOLEAN /\ Extra(missed) \in Nat
    BY ConstantsType, ExtraNat DEF TypeOK
  <1>2. /\ UNCHANGED <<loop, todo, pending, phase, Extra(missed)>>
        /\ idle' = IF Expired(Followed) THEN idle + 1 ELSE 0
        /\ retry'[Followed] = Down(retry[Followed])
        /\ dialed'[Followed] = Least(dialed[Followed] + 1, DialTimeout)
    BY ConstantsType DEF Clock, Extra
  <1>3. loop = "sleep" => timer > 0 /\ timer' = timer - 1
    BY <1>1 DEF Clock, MayTick, Down
  <1>4. loop # "sleep" => worked' = worked + 1
    BY DEF Clock
  <1>5. Expired(Followed) => Expired(Followed)'
    <2>1. phase[Followed] = "connecting" /\ dialed[Followed] >= DialTimeout
            => dialed'[Followed] >= DialTimeout
      BY <1>1, <1>2 DEF Least
    <2>2. retry[Followed] = 0 => retry'[Followed] = 0
      BY <1>2 DEF Down
    <2> QED BY <1>2, <2>1, <2>2 DEF Expired
  <1>6. idle' <= idle + 1 /\ idle' \in Nat /\ (idle' > 0 => Expired(Followed))
    BY <1>1, <1>2
  <1>7. LingerInv'
    <2>1. idle' > 0 => Expired(Followed)'
      BY <1>5, <1>6
    <2>2. Passed' => idle' <= worked'
      BY <1>1, <1>2, <1>4, <1>6 DEF LingerInv, Passed
    <2>3. loop' = "sleep" => idle' + timer' <= Tick + PassTime + Extra(missed')
      BY <1>1, <1>2, <1>3, <1>6 DEF LingerInv
    <2>4. loop' # "sleep" => idle' <= Tick + PassTime + worked' + Extra(missed')
      BY <1>1, <1>2, <1>4, <1>6 DEF LingerInv
    <2> QED BY <2>1, <2>2, <2>3, <2>4 DEF LingerInv
  <1>8. BackoffInv'
    <2>1. CASE pending /\ loop = "sleep"
      <3>1. phase[Followed] # "connecting" /\ idle + timer < retry[Followed] + Second
        BY <2>1 DEF BackoffInv
      <3>2. CASE retry[Followed] = 0
        BY <1>1, <1>2, <1>3, <1>6, <2>1, <3>1, <3>2 DEF BackoffInv, Down
      <3>3. CASE retry[Followed] > 0
        <4>1. idle' = 0 /\ retry'[Followed] = retry[Followed] - 1
          BY <1>2, <3>1, <3>3 DEF Expired, Down
        <4> QED BY <1>1, <1>2, <1>3, <2>1, <3>1, <3>3, <4>1 DEF BackoffInv
      <3> QED BY <1>1, <3>2, <3>3
    <2>2. CASE pending /\ loop # "sleep"
      BY <1>1, <1>2, <1>4, <1>6, <2>2 DEF BackoffInv
    <2>3. CASE ~pending
      BY <1>2, <2>3 DEF BackoffInv
    <2> QED BY <2>1, <2>2, <2>3
  <1> QED BY <1>7, <1>8

LEMMA History_Next ==
  ASSUME TypeOK, TypeOK', LoopInv, LingerInv, BackoffInv, [Next]_vars
  PROVE  LingerInv' /\ BackoffInv'
  BY History_Hooks, History_Edits, History_Step, History_Wake, History_Start, History_Sleep,
     History_Clock DEF Next, Run, Others

-----------------------------------------------------------------------------
(* Invariants *)

LEMMA Inv_Init == Init => Inv
  <1> SUFFICES ASSUME Init PROVE Inv
    OBVIOUS
  <1>1. /\ 0 \in 0..(MaxShift + 1) /\ 0 \in 0..MaxRedialDelay /\ DialTimeout \in 0..DialTimeout
        /\ 0 \in 0..PassTime /\ 0 \in 0..Tick /\ 0 <= Tick + PassTime + 0 + 0
        /\ 0 \in 0..MaxMissed /\ 0 * (RetryTick + PassTime) = 0
    BY ConstantsType
  <1>2. TypeOK
    <2>1. nudge \in BOOLEAN /\ telling \in BOOLEAN /\ pending \in BOOLEAN
      BY DEF Init
    <2> QED BY <1>1, <2>1 DEF Init, TypeOK
  <1>3. LoopInv /\ EditInv /\ LingerInv /\ BackoffInv
    BY <1>1 DEF Init, LoopInv, EditInv, LingerInv, BackoffInv, Passed, Extra
  <1> QED BY <1>2, <1>3 DEF Inv

LEMMA Inv_Next == Inv /\ [Next]_vars => Inv'
  BY Type_Next, LoopInv_Next, EditInv_Next, History_Next DEF Inv

(* The invariant holds in every reachable state. *)
LEMMA InvHolds == Spec => []Inv
  <1> QED BY Inv_Init, Inv_Next, PTL DEF Spec

(* Every deadline stays within its timeout or its longest backoff, the     *)
(* timer of Run within the slow tick, whatever the shifts and caps are.    *)
THEOREM TypeCorrect == Spec => []TypeOK
  <1>1. Inv => TypeOK
    BY DEF Inv
  <1> QED BY <1>1, InvHolds, PTL

(* Run sleeps long over no edit: the nudge is in the channel or about to   *)
(* be sent, or the pass that failed is tried again soon.                   *)
THEOREM EditsAreNotSleptOver == Spec => []EditIsNotSleptOver
  <1>1. Inv => EditIsNotSleptOver
    BY DEF Inv, EditInv, EditIsNotSleptOver
  <1> QED BY <1>1, InvHolds, PTL

(* A backoff that Run slept for is taken up within the second that the     *)
(* timer is set for at least, and the pass that follows.                   *)
THEOREM BackoffsWake == Spec => []BackoffWakes
  <1>1. ASSUME Inv PROVE BackoffWakes
    <2> SUFFICES ASSUME pending, Expired(Followed) PROVE idle < Second + PassTime
      BY DEF BackoffWakes
    <2>1. /\ worked \in 0..PassTime /\ timer \in Nat /\ idle \in Nat /\ Second \in Nat
          /\ PassTime \in Nat
      BY <1>1, ConstantsType DEF Inv, TypeOK
    <2>2. retry[Followed] = 0
      BY <1>1 DEF Inv, BackoffInv, Expired
    <2>3. \/ idle + timer < 0 + Second
          \/ idle < worked + Second
      BY <1>1, <2>2 DEF Inv, BackoffInv
    <2> QED BY <2>1, <2>3
  <1> QED BY <1>1, InvHolds, PTL

(* No connection is due for longer than a slow tick and two passes, and a  *)
(* retry tick and a pass more for each pass that failed while it was due.  *)
THEOREM NothingLingersLong == Spec => []NothingLingers
  <1>1. ASSUME Inv PROVE NothingLingers
    <2>1. /\ worked \in 0..PassTime /\ timer \in Nat /\ idle \in Nat /\ Tick \in Nat
          /\ PassTime \in Nat /\ Extra(missed) \in Nat
      BY <1>1, ConstantsType, ExtraType DEF Inv, TypeOK
    <2>2. \/ idle + timer <= Tick + PassTime + Extra(missed)
          \/ idle <= Tick + PassTime + worked + Extra(missed)
      BY <1>1 DEF Inv, LingerInv
    <2>3. idle <= Tick + 2 * PassTime + Extra(missed)
      BY <2>1, <2>2
    <2> QED BY <2>3 DEF NothingLingers, Extra
  <1> QED BY <1>1, InvHolds, PTL

-----------------------------------------------------------------------------
(* Schedule implements Redial *)

IsWaiting(p, d, r) == IF p = "connecting" THEN d < DialTimeout ELSE r > 0

Waiting(n) == IsWaiting(phase[n], dialed[n], retry[n])

LEMMA TruthValues ==
  ASSUME NEW p, NEW d, NEW r, NEW f, f = [n \in Names |-> IsWaiting(p[n], d[n], r[n])]
  PROVE  /\ f \in [Names -> BOOLEAN]
         /\ \A n \in Names : f[n] <=> IsWaiting(p[n], d[n], r[n])
  <1>1. ASSUME NEW n \in Names PROVE IsWaiting(p[n], d[n], r[n]) \in BOOLEAN
    <2>1. (d[n] < DialTimeout) \in BOOLEAN /\ (r[n] > 0) \in BOOLEAN
      OBVIOUS
    <2> QED BY <2>1 DEF IsWaiting
  <1>2. \A n \in Names : f[n] = IsWaiting(p[n], d[n], r[n])
    OBVIOUS
  <1>3. f \in [Names -> BOOLEAN]
    BY <1>1
  <1>4. \A n \in Names : f[n] <=> IsWaiting(p[n], d[n], r[n])
    BY <1>2, Zenon
  <1> QED BY <1>3, <1>4

LEMMA WaitsOf ==
  /\ Waits \in [Names -> BOOLEAN] /\ Waits' \in [Names -> BOOLEAN]
  /\ \A n \in Names : (Waits[n] <=> Waiting(n)) /\ (Waits'[n] <=> Waiting(n)')
  <1>1. /\ Waits = [n \in Names |-> IsWaiting(phase[n], dialed[n], retry[n])]
        /\ Waits' = [n \in Names |-> IsWaiting(phase'[n], dialed'[n], retry'[n])]
    BY DEF Waits, IsWaiting
  <1> QED BY <1>1, TruthValues DEF Waiting

(* Functions to truth values that agree everywhere are equal. *)
LEMMA WaitsAre ==
  ASSUME NEW f \in [Names -> BOOLEAN], \A m \in Names : Waits'[m] <=> f[m]
  PROVE  Waits' = f
  <1>1. Waits' \in [Names -> BOOLEAN]
    BY WaitsOf
  <1> QED BY <1>1

LEMMA WaitsSet ==
  ASSUME TypeOK, NEW n \in Names, NEW p, NEW f, NEW r, Set(n, p, f, r)
  PROVE  /\ p = "connecting" => Waits' = [Waits EXCEPT ![n] = TRUE]
         /\ p # "connecting" => Waits' = [Waits EXCEPT ![n] = r > 0]
         /\ phase' = [phase EXCEPT ![n] = p]
  <1>1. /\ phase' = [phase EXCEPT ![n] = p]
        /\ retry' = [retry EXCEPT ![n] = r]
        /\ dialed' = [dialed EXCEPT ![n] = IF p = "connecting" THEN 0 ELSE DialTimeout]
    BY DEF Set
  <1>2. \A m \in Names : m # n => (Waits'[m] <=> Waits[m])
    BY <1>1, WaitsOf DEF Waiting, IsWaiting, TypeOK
  <1>3. /\ p = "connecting" => Waits'[n]
        /\ p # "connecting" => (Waits'[n] <=> r > 0)
    BY <1>1, ConstantsType, WaitsOf DEF Waiting, IsWaiting, TypeOK
  <1>4. Waits \in [Names -> BOOLEAN]
    BY WaitsOf
  <1>5. ASSUME NEW w \in BOOLEAN, Waits'[n] <=> w PROVE Waits' = [Waits EXCEPT ![n] = w]
    <2> DEFINE g == [Waits EXCEPT ![n] = w]
    <2>1. g \in [Names -> BOOLEAN] /\ (\A m \in Names : m # n => g[m] = Waits[m]) /\ g[n] = w
      BY <1>4
    <2> HIDE DEF g
    <2>2. \A m \in Names : Waits'[m] <=> g[m]
      BY <1>2, <1>5, <2>1
    <2>3. Waits' = g
      BY <2>1, <2>2, WaitsAre
    <2> QED BY <2>3 DEF g
  <1>6. p = "connecting" => Waits' = [Waits EXCEPT ![n] = TRUE]
    BY <1>3, <1>5
  <1>7. (r > 0) \in BOOLEAN
    OBVIOUS
  <1>8. p # "connecting" => Waits' = [Waits EXCEPT ![n] = r > 0]
    BY <1>3, <1>5, <1>7
  <1> QED BY <1>1, <1>6, <1>8

LEMMA WaitsFailed ==
  ASSUME TypeOK, NEW n \in Names, Failed(n)
  PROVE  R!Set(n, "failed", TRUE)
  <1> DEFINE f == OneMore(failures[n])
  <1>1. f \in 1..(MaxShift + 1)
    BY OneMoreType DEF TypeOK
  <1>2. redialDelay(f) > 0
    BY <1>1, RedialDelayType, ConstantsType
  <1>3. Set(n, "failed", f, redialDelay(f))
    BY DEF Failed
  <1> HIDE DEF f
  <1>4. /\ Waits' = [Waits EXCEPT ![n] = redialDelay(f) > 0]
        /\ phase' = [phase EXCEPT ![n] = "failed"]
    BY <1>3, WaitsSet
  <1>5. (redialDelay(f) > 0) = TRUE
    BY <1>2
  <1> QED BY <1>4, <1>5 DEF R!Set

(* A step that changes no deadline and takes up nothing is none of Redial. *)
LEMMA Stutter ==
  ASSUME UNCHANGED <<deadlines, busy>>
  PROVE  UNCHANGED R!vars
  BY DEF R!vars, deadlines, Waits

LEMMA Refines_Hooks ==
  ASSUME TypeOK, NEW n \in Names, PPPUp(n) \/ PPPUpFails(n) \/ PPPDown(n) \/ Unhealthy(n)
  PROVE  R!Comes(n) \/ R!Goes(n) \/ R!Fails(n)
  <1>1. UNCHANGED busy
    BY DEF PPPUp, PPPUpFails, PPPDown, Unhealthy, run
  <1>2. CASE PPPUp(n)
    <2>1. Set(n, "up", 0, 0)
      BY <1>2 DEF PPPUp
    <2>2. Waits' = [Waits EXCEPT ![n] = 0 > 0] /\ phase' = [phase EXCEPT ![n] = "up"]
      BY <2>1, WaitsSet
    <2>3. (0 > 0) = FALSE
      OBVIOUS
    <2> QED BY <1>1, <2>2, <2>3 DEF R!Comes, R!Set
  <1>3. CASE PPPDown(n)
    <2>1. Set(n, "disconnected", failures[n], MinRedialDelay)
      BY <1>3 DEF PPPDown
    <2>2. /\ Waits' = [Waits EXCEPT ![n] = MinRedialDelay > 0]
          /\ phase' = [phase EXCEPT ![n] = "disconnected"]
      BY <2>1, WaitsSet
    <2>3. (MinRedialDelay > 0) = TRUE
      BY ConstantsType
    <2> QED BY <1>1, <2>2, <2>3 DEF R!Goes, R!Set
  <1>4. CASE PPPUpFails(n) \/ Unhealthy(n)
    BY <1>1, <1>4, WaitsFailed DEF PPPUpFails, Unhealthy, R!Fails
  <1> QED BY <1>2, <1>3, <1>4

(* What step finds due waits no longer. *)
LEMMA Refines_Step ==
  ASSUME TypeOK, NEW n \in Names, Step(n)
  PROVE  R!TakesUp(n) \/ UNCHANGED R!vars
  <1>1. CASE Expired(n)
    <2>1. /\ busy = Idle /\ UNCHANGED deadlines
          /\ busy' = Doing(IF phase[n] = "connecting" THEN "fail" ELSE "dial", n)
      BY <1>1 DEF Step, StepsTo
    <2>2. ~Waits[n] /\ phase[n] # "up"
      BY <1>1, ConstantsType, WaitsOf DEF Expired, Waiting, IsWaiting, TypeOK
    <2>3. UNCHANGED <<phase, Waits>>
      BY <2>1 DEF deadlines, Waits
    <2> QED BY <2>1, <2>2, <2>3 DEF R!TakesUp, R!Idle, R!Fail, R!Dial, Idle, Doing
  <1>2. CASE ~Expired(n)
    BY <1>2, Stutter DEF Step, StepsTo
  <1> QED BY <1>1, <1>2

LEMMA Refines_StepEnds ==
  ASSUME TypeOK, NEW n \in Names, StepEnds(n)
  PROVE  R!TimesOut(n) \/ R!Dialled(n)
  <1>1. busy' = Idle
    BY DEF StepEnds
  <1>2. CASE busy \in {Doing("dial", n), Doing("fail", n)} /\ Failed(n)
    BY <1>1, <1>2, WaitsFailed
       DEF R!TimesOut, R!Dialled, R!Idle, R!Fail, R!Dial, Idle, Doing
  <1>3. CASE busy = Doing("dial", n) /\ Set(n, "connecting", failures[n], retry[n])
    <2>1. R!Set(n, "connecting", TRUE)
      BY <1>3, WaitsSet DEF R!Set
    <2> QED BY <1>1, <1>3, <2>1 DEF R!Dialled, R!Idle, R!Dial, Idle, Doing
  <1> QED BY <1>2, <1>3 DEF StepEnds

LEMMA Refines_Start ==
  ASSUME TypeOK, LoopInv, Start
  PROVE  R!StartOver
  <1>1. busy = Idle /\ busy' = Idle /\ edited \in SUBSET Names /\ Dropped(edited)
    BY DEF Start, LoopInv, TypeOK
  <1> DEFINE g == [n \in Names |-> IF n \in edited THEN FALSE ELSE Waits[n]]
  <1>2. \A n \in Names : Waits'[n] <=> g[n]
    <2>1. ASSUME NEW n \in Names, n \in edited PROVE ~Waits'[n]
      BY <1>1, <2>1, ConstantsType, WaitsOf DEF Waiting, IsWaiting, Dropped
    <2>2. ASSUME NEW n \in Names, n \notin edited PROVE Waits'[n] <=> Waits[n]
      BY <1>1, <2>2, WaitsOf DEF Waiting, IsWaiting, Dropped
    <2> QED BY <2>1, <2>2
  <1>3. g \in [Names -> BOOLEAN]
    BY WaitsOf
  <1>4. Waits' = g
    <2> HIDE DEF g
    <2> QED BY <1>2, <1>3, WaitsAre
  <1> QED BY <1>1, <1>4 DEF R!StartOver, R!Idle, Idle, Dropped

(* A tick only ends waits. *)
LEMMA Refines_Clock ==
  ASSUME TypeOK, Clock
  PROVE  \E ns \in SUBSET Names : R!Elapses(ns)
  <1> DEFINE ns == {n \in Names : ~Waits'[n]}
             g == [n \in Names |-> IF n \in ns THEN FALSE ELSE Waits[n]]
  <1>1. ASSUME NEW n \in Names, Waits'[n] PROVE Waits[n]
    <2>1. /\ retry'[n] = Down(retry[n]) /\ dialed'[n] = Least(dialed[n] + 1, DialTimeout)
          /\ phase'[n] = phase[n]
      BY DEF Clock
    <2>2. retry[n] \in Nat /\ dialed[n] \in Nat /\ DialTimeout \in Nat
      BY ConstantsType DEF TypeOK
    <2>3. (retry'[n] > 0 => retry[n] > 0) /\ (dialed'[n] < DialTimeout => dialed[n] < DialTimeout)
      BY <2>1, <2>2 DEF Down, Least
    <2> QED BY <1>1, <2>1, <2>3, WaitsOf DEF Waiting, IsWaiting
  <1>2. \A n \in Names : Waits'[n] <=> g[n]
    BY <1>1
  <1>3. g \in [Names -> BOOLEAN]
    BY WaitsOf
  <1>4. Waits' = g
    <2> HIDE DEF g
    <2> QED BY <1>2, <1>3, WaitsAre
  <1>5. UNCHANGED <<phase, busy>> /\ ns \in SUBSET Names
    BY DEF Clock
  <1>6. R!Elapses(ns)
    BY <1>4, <1>5 DEF R!Elapses
  <1> QED BY <1>5, <1>6

LEMMA Refines_Init == Init => R!Init
  <1> SUFFICES ASSUME Init PROVE R!Init
    OBVIOUS
  <1>1. \A n \in Names : ~Waits[n]
    BY ConstantsType, WaitsOf DEF Init, Waiting, IsWaiting
  <1>2. Waits = [n \in Names |-> FALSE]
    <2>1. \A n \in Names : Waits[n] = FALSE
      BY <1>1 DEF Waits
    <2> QED BY <2>1 DEF Waits
  <1> QED BY <1>2 DEF Init, R!Init, R!Idle, Idle

LEMMA Refines_Next == Inv /\ [Next]_vars => [R!Next]_(R!vars)
  <1> SUFFICES ASSUME Inv, [Next]_vars PROVE R!Next \/ UNCHANGED R!vars
    OBVIOUS
  <1> USE DEF Inv
  <1>1. CASE Wake \/ StartFails \/ PassEnds
    BY <1>1, Stutter DEF Wake, StartFails, PassEnds, Sleep
  <1>2. CASE Start
    BY <1>2, Refines_Start DEF R!Next
  <1>3. ASSUME NEW n \in Names, Step(n) PROVE R!Next \/ UNCHANGED R!vars
    BY <1>3, Refines_Step DEF R!Next
  <1>4. ASSUME NEW n \in Names, StepEnds(n) PROVE R!Next
    BY <1>4, Refines_StepEnds DEF R!Next
  <1>5. ASSUME NEW n \in Names, PPPUp(n) \/ PPPUpFails(n) \/ PPPDown(n) \/ Unhealthy(n)
        PROVE  R!Next
    BY <1>5, Refines_Hooks DEF R!Next
  <1>6. CASE Tell \/ Invalidate \/ (\E n \in Names : Edit(n)) \/ UNCHANGED vars
    BY <1>6, Stutter DEF Tell, Invalidate, Edit, vars, run
  <1>7. CASE Clock
    BY <1>7, Refines_Clock DEF R!Next
  <1> QED BY <1>1, <1>2, <1>3, <1>4, <1>5, <1>6, <1>7 DEF Next, Run, Others

(* With its clock, channel and loop the schedule redials as Redial says:   *)
(* only what waits no longer is taken up, one connection at a time, and    *)
(* every failure and every lost session starts a new wait.                 *)
THEOREM ImplementsRedialSafety == Spec => R!Safety
  <1> QED BY InvHolds, Refines_Init, Refines_Next, PTL DEF Spec, R!Safety
=============================================================================
