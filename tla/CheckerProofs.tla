----------------------------- MODULE CheckerProofs -----------------------------
(***************************************************************************)
(* Proofs about Checker, for any number of connections, of checks the web  *)
(* UI runs at the same time, and of failures before a tunnel is torn down. *)
(***************************************************************************)
EXTENDS Checker, FiniteSetTheorems, TLAPS

Places == {"idle", "ping", "reset", "count", "trip", "unhealthy"}

(* The checks that have counted n to the limit and are about to reset it:  *)
(* meanwhile other checks of n go on counting.                             *)
Tripping(n) == {c \in Checkers : At(c, "trip") /\ call[c].name = n}

CountInv ==
  /\ failures \in [Names -> Nat]
  /\ \A n \in Names : failures[n] < FailureLimit + Cardinality(Tripping(n))

CallInv == \A c \in Checkers :
  IF At(c, "idle") THEN call[c].name = "" ELSE call[c].name \in Names

(* Names whose count may not be that of pings of their own in a row. *)
Unsure == mixed \cup inherited

(* A name whose checks did not overlap since its count was last cleared is *)
(* checked by one of them at most, and its count is that of a row.         *)
RowInv ==
  /\ \A n \in Names : row[n] = FailureLimit => n \in earned
  /\ \A n \in Names \ Unsure :
       /\ \A c, d \in Checkers : call[c].name = n /\ call[d].name = n => c = d
       /\ (\A c \in Checkers : call[c].name = n => ~At(c, "reset"))
            => failures[n] <= row[n]
       /\ \A c \in Checkers : call[c].name = n =>
            /\ At(c, "count") => failures[n] < row[n]
            /\ At(c, "trip") => n \in earned

TypeInv ==
  /\ conns \in SUBSET Names /\ up \in SUBSET Names /\ dead \in SUBSET Names
  /\ failures \in [Names -> Nat]
  /\ row \in [Names -> 0..FailureLimit]
  /\ earned \in SUBSET Names /\ mixed \in SUBSET Names /\ inherited \in SUBSET Names
  /\ todo \in SUBSET Names
  /\ call \in [Checkers -> [pc: Places, name: Names \cup {""}]]
  /\ changes \in 0..MaxChanges

Inv == TypeInv /\ CallInv /\ CountInv /\ RowInv

-----------------------------------------------------------------------------
(* The checks that are about to reset a count *)

LEMMA TrippingIsFinite ==
  ASSUME NEW n
  PROVE  /\ IsFiniteSet(Tripping(n)) /\ Cardinality(Tripping(n)) \in Nat
         /\ Cardinality(Tripping(n)) <= Cardinality(Requests) + 1
  <1>1. IsFiniteSet(Checkers) /\ Cardinality(Checkers) = Cardinality(Requests) + 1
    BY CheckerAssumption, FS_AddElement DEF Checkers
  <1>2. Tripping(n) \in SUBSET Checkers
    BY DEF Tripping
  <1> QED BY <1>1, <1>2, FS_Subset, FS_CardinalityType

(* Whoever trips goes on doing so, except c. *)
LEMMA TrippingGrows ==
  ASSUME NEW n, NEW c, \A d \in Checkers \ {c} : d \in Tripping(n) => d \in Tripping(n)'
  PROVE  /\ c \notin Tripping(n) =>
              Cardinality(Tripping(n)') >= Cardinality(Tripping(n))
         /\ c \notin Tripping(n) /\ c \in Tripping(n)' =>
              Cardinality(Tripping(n)') >= Cardinality(Tripping(n)) + 1
  <1> DEFINE T == Tripping(n)
             U == Tripping(n)'
  <1>1. IsFiniteSet(T) /\ Cardinality(T) \in Nat
    BY TrippingIsFinite
  <1>2. IsFiniteSet(U) /\ Cardinality(U) \in Nat
    <2>1. IsFiniteSet(Checkers)
      BY CheckerAssumption, FS_AddElement DEF Checkers
    <2>2. U \in SUBSET Checkers
      BY DEF Tripping
    <2> QED BY <2>1, <2>2, FS_Subset, FS_CardinalityType
  <1>3. T \subseteq Checkers
    BY DEF Tripping
  <1>4. c \notin T => T \subseteq U
    BY <1>3
  <1> HIDE DEF T, U
  <1>5. c \notin T => Cardinality(U) >= Cardinality(T)
    BY <1>1, <1>2, <1>4, FS_Subset
  <1>6. c \notin T /\ c \in U => Cardinality(U) >= Cardinality(T) + 1
    <2>1. SUFFICES ASSUME c \notin T, c \in U PROVE Cardinality(U) >= Cardinality(T) + 1
      OBVIOUS
    <2>2. T \cup {c} \in SUBSET U
      BY <1>4, <2>1
    <2>3. Cardinality(T \cup {c}) = Cardinality(T) + 1
      BY <1>1, <2>1, FS_AddElement
    <2>4. Cardinality(T \cup {c}) <= Cardinality(U)
      BY <1>2, <2>2, FS_Subset
    <2> QED BY <1>1, <1>2, <2>3, <2>4
  <1> QED BY <1>5, <1>6 DEF T, U

-----------------------------------------------------------------------------
(* Inv is inductive *)

LEMMA LimitType == FailureLimit \in Nat \ {0} /\ MaxChanges \in Nat
  BY CheckerAssumption

LEMMA Inv_Init ==
  ASSUME Init
  PROVE  Inv
  <1>1. TypeInv
    <2>1. Idle \in [pc: Places, name: Names \cup {""}]
      BY DEF Idle, Places
    <2>2. call \in [Checkers -> [pc: Places, name: Names \cup {""}]]
      BY <2>1 DEF Init
    <2>3. changes \in 0..MaxChanges
      BY LimitType DEF Init
    <2>4. 0 \in 0..FailureLimit
      BY LimitType
    <2>5. row \in [Names -> 0..FailureLimit] /\ failures \in [Names -> Nat]
      BY <2>4 DEF Init
    <2> QED BY <2>2, <2>3, <2>5 DEF TypeInv, Init
  <1>2. CallInv
    BY DEF CallInv, Idle, At, Init
  <1>3. CountInv
    <2>1. SUFFICES ASSUME NEW n \in Names
                   PROVE  failures[n] < FailureLimit + Cardinality(Tripping(n))
      BY <1>1 DEF CountInv, TypeInv
    <2>2. failures[n] = 0 /\ Cardinality(Tripping(n)) \in Nat
      BY TrippingIsFinite DEF Init
    <2> QED BY <2>2, LimitType
  <1>4. RowInv
    <2>1. \A n \in Names : failures[n] = 0 /\ row[n] = 0
      BY DEF Init
    <2>2. \A c \in Checkers : call[c].name = ""
      BY DEF Init, Idle
    <2>3. \A c \in Checkers : call[c].name \notin Names
      BY <2>2, CheckerAssumption
    <2>4. 0 # FailureLimit /\ 0 <= 0
      BY LimitType
    <2> QED BY <2>1, <2>3, <2>4 DEF RowInv
  <1> QED BY <1>1, <1>2, <1>3, <1>4 DEF Inv

LEMMA CallType ==
  ASSUME call \in [Checkers -> [pc: Places, name: Names \cup {""}]], CallInv,
         NEW c \in Checkers, NEW to \in Places \ {"idle"}, call[c].name \in Names,
         Return(c) \/ Goto(c, to)
  PROVE  call' \in [Checkers -> [pc: Places, name: Names \cup {""}]] /\ CallInv'
  <1>1. CASE Return(c)
    <2>1. Idle \in [pc: Places, name: Names \cup {""}]
      BY DEF Idle, Places
    <2>2. call' = [call EXCEPT ![c] = Idle]
      BY <1>1 DEF Return
    <2> QED BY <2>1, <2>2 DEF CallInv, At, Idle
  <1>2. CASE Goto(c, to)
    BY <1>2 DEF Goto, CallInv, At
  <1> QED BY <1>1, <1>2

LEMMA TypeInv_Next ==
  ASSUME TypeInv, CallInv, [Next]_vars
  PROVE  TypeInv' /\ CallInv'
  <1>0. 0 \in 0..FailureLimit
    BY LimitType
  <1> USE DEF TypeInv, world, history, checks
  <1>1. CASE CheckAll
    <2>1. failures' \in [Names -> Nat]
      BY <1>1 DEF CheckAll, Cleared
    <2>2. row' \in [Names -> 0..FailureLimit]
      <3>1. row' = [n \in Names |-> IF n \in Settled THEN 0 ELSE row[n]]
        BY <1>1 DEF CheckAll
      <3> QED BY <1>0, <3>1
    <2>3. /\ earned' \in SUBSET Names /\ mixed' \in SUBSET Names /\ inherited' \in SUBSET Names
          /\ todo' \in SUBSET Names /\ UNCHANGED <<world, call>>
      BY <1>1 DEF CheckAll
    <2> QED BY <2>1, <2>2, <2>3 DEF CallInv, At
  <1>2. ASSUME NEW c \in Checkers, NEW n \in Names, At(c, "idle"), Status(c, n),
               todo' \in SUBSET Names, UNCHANGED <<world, failures>>
        PROVE  TypeInv' /\ CallInv'
    <2>1. PICK to \in {"ping", "reset"} : call' = [call EXCEPT ![c] = [pc |-> to, name |-> n]]
      BY <1>2 DEF Status
    <2>2. [pc |-> to, name |-> n] \in [pc: Places, name: Names \cup {""}]
      BY DEF Places
    <2>3. call' \in [Checkers -> [pc: Places, name: Names \cup {""}]] /\ CallInv'
      BY <2>1, <2>2 DEF CallInv, At
    <2>4. mixed' \in SUBSET Names /\ UNCHANGED <<row, earned, inherited>>
      BY <1>2 DEF Status
    <2> QED BY <1>2, <2>3, <2>4
  <1>3. CASE CheckNext
    <2>1. PICK n \in todo : Status(Loop, n) /\ todo' = todo \ {n}
      BY <1>3 DEF CheckNext
    <2>2. Loop \in Checkers /\ n \in Names /\ todo' \in SUBSET Names
      BY <2>1 DEF Checkers
    <2> QED BY <1>2, <1>3, <2>1, <2>2 DEF CheckNext
  <1>4. ASSUME NEW r \in Requests, CheckNow(r) PROVE TypeInv' /\ CallInv'
    <2>1. PICK n \in conns : Status(r, n)
      BY <1>4 DEF CheckNow
    <2>2. r \in Checkers /\ n \in Names
      BY <2>1 DEF Checkers
    <2> QED BY <1>2, <1>4, <2>1, <2>2 DEF CheckNow
  <1>5. ASSUME NEW c \in Checkers, Continue(c) PROVE TypeInv' /\ CallInv'
    <2> DEFINE n == call[c].name
    <2>1. n \in Names
      BY <1>5 DEF Continue, Answered, Unanswered, Reset, Count, Trip, Unhealthy, CallInv, At
    <2>2. \E to \in Places \ {"idle"} : Return(c) \/ Goto(c, to)
      <3>1. Return(c) \/ Goto(c, "reset") \/ Goto(c, "count") \/ Goto(c, "trip")
            \/ Goto(c, "unhealthy")
        BY <1>5 DEF Continue, Answered, Unanswered, Reset, Count, Trip, Unhealthy
      <3>2. \A to \in {"reset", "count", "trip", "unhealthy"} : to \in Places \ {"idle"}
        BY DEF Places
      <3> QED BY <3>1, <3>2
    <2>3. call' \in [Checkers -> [pc: Places, name: Names \cup {""}]] /\ CallInv'
      BY <2>1, <2>2, CallType
    <2>4. failures' \in [Names -> Nat]
      <3>1. \/ failures' = failures
            \/ failures' = [failures EXCEPT ![n] = failures[n] + 1]
            \/ failures' = [m \in Names |-> IF m \in {n} THEN 0 ELSE failures[m]]
        BY <1>5 DEF Continue, Answered, Unanswered, Reset, Count, Trip, Unhealthy, Cleared
      <3>2. failures \in [Names -> Nat]
        OBVIOUS
      <3> HIDE DEF n, TypeInv
      <3>3. failures[n] + 1 \in Nat
        BY <2>1, <3>2
      <3> QED BY <3>1, <3>2, <3>3
    <2>5. row' \in [Names -> 0..FailureLimit]
      <3>1. \/ row' = row \/ row' = [row EXCEPT ![n] = 0]
            \/ row' = [row EXCEPT ![n] = IF @ < FailureLimit THEN @ + 1 ELSE @]
        BY <1>5 DEF Continue, Answered, Unanswered, Reset, Count, Trip, Unhealthy, StartsOver
      <3>2. row[n] \in 0..FailureLimit
        BY <2>1
      <3> HIDE DEF n
      <3>3. PICK k \in 0..FailureLimit : row' = [row EXCEPT ![n] = k]
        <4> HIDE DEF TypeInv
        <4>1. row[n] < FailureLimit => row[n] + 1 \in 0..FailureLimit
          BY <3>2, LimitType
        <4>2. 0 \in 0..FailureLimit
          BY LimitType
        <4>3. CASE row' = [row EXCEPT ![n] = IF @ < FailureLimit THEN @ + 1 ELSE @]
          <5>1. CASE row[n] < FailureLimit
            BY <4>1, <4>3, <5>1
          <5>2. CASE ~(row[n] < FailureLimit)
            BY <3>2, <4>3, <5>2
          <5> QED BY <5>1, <5>2
        <4>4. row' = row => row' = [row EXCEPT ![n] = row[n]]
          BY DEF TypeInv
        <4> QED BY <3>1, <3>2, <4>2, <4>3, <4>4
      <3> QED BY <3>3
    <2>6. earned' \in SUBSET Names /\ mixed' \in SUBSET Names /\ inherited' \in SUBSET Names
      BY <1>5, <2>1
         DEF Continue, Answered, Unanswered, Reset, Count, Trip, Unhealthy, StartsOver
    <2>7. UNCHANGED <<conns, dead, changes, todo>> /\ up' \in SUBSET Names
      BY <1>5 DEF Continue, Answered, Unanswered, Reset, Count, Trip, Unhealthy
    <2> HIDE DEF n
    <2> QED BY <2>3, <2>4, <2>5, <2>6, <2>7
  <1>6. ASSUME NEW n \in Names,
               Switch(n) \/ Falter(n) \/ Delete(n) \/ Create(n) \/ Disconnect(n)
        PROVE  TypeInv' /\ CallInv'
    <2>1. UNCHANGED <<failures, mixed, todo, call>>
      BY <1>6 DEF Switch, Falter, Delete, Create, Disconnect
    <2>4. row' \in [Names -> 0..FailureLimit]
      <3>1. row' = row \/ row' = [row EXCEPT ![n] = 0]
        BY <1>6 DEF Switch, Falter, Delete, Create, Disconnect
      <3> QED BY <1>0, <3>1
    <2>5. earned' \in SUBSET Names /\ inherited' \in SUBSET Names
      BY <1>6 DEF Switch, Falter, Delete, Create, Disconnect
    <2>2. conns' \in SUBSET Names /\ up' \in SUBSET Names /\ dead' \in SUBSET Names
      BY <1>6 DEF Switch, Falter, Delete, Create, Disconnect
    <2>3. changes' \in 0..MaxChanges
      <3>1. changes' = changes \/ (changes < MaxChanges /\ changes' = changes + 1)
        BY <1>6 DEF Switch, Falter, Delete, Create, Disconnect, Change
      <3>2. changes \in 0..MaxChanges
        OBVIOUS
      <3> HIDE DEF TypeInv
      <3> QED BY <3>1, <3>2, LimitType
    <2> QED BY <2>1, <2>2, <2>3, <2>4, <2>5 DEF CallInv, At
  <1>7. CASE UNCHANGED vars
    BY <1>7 DEF vars, CallInv, At
  <1> QED BY <1>1, <1>3, <1>4, <1>5, <1>6, <1>7 DEF Next

LEMMA CountInv_Next ==
  ASSUME TypeInv, CallInv, CountInv, [Next]_vars
  PROVE  CountInv'
  <1> USE LimitType
  <1>1. failures \in [Names -> Nat] /\ \A n \in Names : Cardinality(Tripping(n)) \in Nat
    BY TrippingIsFinite DEF TypeInv
  <1>2. \A n \in Names : Cardinality(Tripping(n)') \in Nat
    <2>1. SUFFICES ASSUME NEW n \in Names PROVE Cardinality(Tripping(n)') \in Nat
      OBVIOUS
    <2>2. IsFiniteSet(Checkers)
      BY CheckerAssumption, FS_AddElement DEF Checkers
    <2>3. Tripping(n)' \in SUBSET Checkers
      BY DEF Tripping
    <2> QED BY <2>2, <2>3, FS_Subset, FS_CardinalityType
  <1>3. call \in [Checkers -> [pc: Places, name: Names \cup {""}]]
    BY DEF TypeInv
  <1>4. ASSUME \A n \in Names : failures'[n] = 0 \/ failures'[n] = failures[n],
               failures' \in [Names -> Nat],
               \A n \in Names : failures'[n] # 0 =>
                 Cardinality(Tripping(n)') >= Cardinality(Tripping(n))
        PROVE  CountInv'
    <2>1. SUFFICES ASSUME NEW n \in Names
                   PROVE  failures'[n] < FailureLimit + Cardinality(Tripping(n)')
      BY <1>4 DEF CountInv
    <2>2. failures[n] \in Nat /\ Cardinality(Tripping(n)) \in Nat
          /\ Cardinality(Tripping(n)') \in Nat
      BY <1>1, <1>2
    <2>3. CASE failures'[n] = 0
      BY <2>2, <2>3
    <2>4. CASE failures'[n] # 0
      <3>1. failures[n] < FailureLimit + Cardinality(Tripping(n))
        BY DEF CountInv
      <3> QED BY <1>4, <2>2, <2>4, <3>1
    <2> QED BY <2>3, <2>4
  <1>5. ASSUME NEW c \in Checkers, call[c].pc # "trip",
               \A d \in Checkers \ {c} : call'[d] = call[d],
               \A n \in Names : failures'[n] = 0 \/ failures'[n] = failures[n],
               failures' \in [Names -> Nat]
        PROVE  CountInv'
    <2>1. \A n \in Names : c \notin Tripping(n)
          /\ \A d \in Checkers \ {c} : d \in Tripping(n) => d \in Tripping(n)'
      BY <1>5 DEF Tripping, At
    <2>2. \A n \in Names : Cardinality(Tripping(n)') >= Cardinality(Tripping(n))
      BY <2>1, TrippingGrows
    <2> QED BY <1>4, <1>5, <2>2
  <1>6. CASE CheckAll
    <2>1. call' = call /\ failures' = [n \in Names |-> IF n \in Pruned THEN 0 ELSE failures[n]]
      BY <1>6 DEF CheckAll, Cleared
    <2>2. At(Loop, "idle") /\ Loop \in Checkers
      BY <1>6 DEF CheckAll, Checkers
    <2> QED BY <1>1, <1>5, <2>1, <2>2 DEF At
  <1>7. ASSUME NEW c \in Checkers, NEW n \in Names, At(c, "idle"), Status(c, n),
               failures' = failures
        PROVE  CountInv'
    BY <1>1, <1>3, <1>5, <1>7 DEF Status, At
  <1>8. CASE CheckNext
    BY <1>7, <1>8 DEF CheckNext, Checkers, TypeInv
  <1>9. ASSUME NEW r \in Requests, CheckNow(r) PROVE CountInv'
    BY <1>7, <1>9 DEF CheckNow, Checkers, TypeInv
  <1>10. ASSUME NEW c \in Checkers, Answered(c) \/ Unanswered(c) \/ Unhealthy(c)
         PROVE  CountInv'
    <2>1. /\ call[c].pc # "trip" /\ failures' = failures
          /\ \A d \in Checkers \ {c} : call'[d] = call[d]
      BY <1>3, <1>10 DEF Answered, Unanswered, Unhealthy, At, Goto, Return
    <2> QED BY <1>1, <1>5, <2>1
  <1>11. ASSUME NEW c \in Checkers, Reset(c) PROVE CountInv'
    <2>1. /\ call[c].pc # "trip"
          /\ failures' = [n \in Names |-> IF n \in {call[c].name} THEN 0 ELSE failures[n]]
          /\ \A d \in Checkers \ {c} : call'[d] = call[d]
      BY <1>3, <1>11 DEF Reset, At, Return, Cleared
    <2> QED BY <1>1, <1>5, <2>1
  <1>12. ASSUME NEW c \in Checkers, Trip(c) PROVE CountInv'
    <2>1. /\ call' = [call EXCEPT ![c].pc = "unhealthy"]
          /\ failures' = [n \in Names |-> IF n \in {call[c].name} THEN 0 ELSE failures[n]]
      BY <1>12 DEF Trip, Goto, Cleared
    <2>2. ASSUME NEW n \in Names, n # call[c].name
          PROVE  Cardinality(Tripping(n)') >= Cardinality(Tripping(n))
      <3>1. c \notin Tripping(n)
            /\ \A d \in Checkers \ {c} : d \in Tripping(n) => d \in Tripping(n)'
        BY <1>3, <2>1, <2>2 DEF Tripping, At
      <3> QED BY <3>1, TrippingGrows
    <2> QED BY <1>1, <1>4, <2>1, <2>2
  <1>13. ASSUME NEW c \in Checkers, Count(c) PROVE CountInv'
    <2>1. PICK n \in Names :
            /\ call[c].name = n /\ call[c].pc = "count"
            /\ failures' = [failures EXCEPT ![n] = @ + 1]
            /\ IF failures'[n] >= FailureLimit
               THEN call' = [call EXCEPT ![c].pc = "trip"]
               ELSE call' = [call EXCEPT ![c] = Idle]
      BY <1>13 DEF Count, At, Goto, Return, CallInv
    <2>2. \A m \in Names : c \notin Tripping(m)
            /\ \A d \in Checkers \ {c} : d \in Tripping(m) => d \in Tripping(m)'
      BY <1>3, <2>1 DEF Tripping, At
    <2>3. failures' \in [Names -> Nat] /\ \A m \in Names \ {n} : failures'[m] = failures[m]
      BY <1>1, <2>1
    <2>4. ASSUME NEW m \in Names \ {n}
          PROVE  failures'[m] < FailureLimit + Cardinality(Tripping(m)')
      <3>1. Cardinality(Tripping(m)') >= Cardinality(Tripping(m))
        BY <2>2, TrippingGrows
      <3>2. failures[m] < FailureLimit + Cardinality(Tripping(m)) /\ failures'[m] = failures[m]
        BY <2>3 DEF CountInv
      <3>3. failures[m] \in Nat /\ Cardinality(Tripping(m)) \in Nat
            /\ Cardinality(Tripping(m)') \in Nat
        BY <1>1, <1>2
      <3> QED BY <3>1, <3>2, <3>3
    <2>5. failures'[n] < FailureLimit + Cardinality(Tripping(n)')
      <3>1. failures'[n] = failures[n] + 1 /\ failures[n] \in Nat
            /\ Cardinality(Tripping(n)) \in Nat /\ Cardinality(Tripping(n)') \in Nat
        BY <1>1, <1>2, <2>1
      <3>2. CASE failures'[n] < FailureLimit
        BY <3>1, <3>2
      <3>3. CASE failures'[n] >= FailureLimit
        <4>1. c \in Tripping(n)'
          BY <1>3, <2>1, <3>3 DEF Tripping, At
        <4>2. Cardinality(Tripping(n)') >= Cardinality(Tripping(n)) + 1
          BY <2>2, <4>1, TrippingGrows
        <4>3. failures[n] < FailureLimit + Cardinality(Tripping(n))
          BY DEF CountInv
        <4> QED BY <3>1, <4>2, <4>3
      <3> QED BY <3>1, <3>2, <3>3
    <2> QED BY <2>3, <2>4, <2>5 DEF CountInv
  <1>14. ASSUME UNCHANGED <<failures, call>> PROVE CountInv'
    BY <1>14 DEF CountInv, Tripping, At
  <1> QED BY <1>6, <1>8, <1>9, <1>10, <1>11, <1>12, <1>13, <1>14
          DEF Next, Continue, vars, checks, Switch, Falter, Delete, Create, Disconnect

(* RowInv, of one name. *)
Checks(c, n) == call[c].name = n

RowOf(n) ==
  /\ row[n] = FailureLimit => n \in earned
  /\ n \notin Unsure =>
       /\ \A c, d \in Checkers : Checks(c, n) /\ Checks(d, n) => c = d
       /\ (\A c \in Checkers : Checks(c, n) => ~At(c, "reset")) => failures[n] <= row[n]
       /\ \A c \in Checkers : Checks(c, n) =>
            /\ At(c, "count") => failures[n] < row[n]
            /\ At(c, "trip") => n \in earned

(* A step of a check of another name, and one of the only check of n. *)
LEMMA RowOf_Other ==
  ASSUME NEW n \in Names, NEW c \in Checkers, RowOf(n), ~Checks(c, n), ~Checks(c, n)',
         \A d \in Checkers \ {c} : call'[d] = call[d],
         failures'[n] = failures[n], row'[n] = row[n],
         n \in earned <=> n \in earned', n \in Unsure <=> n \in Unsure'
  PROVE  RowOf(n)'
  BY DEF RowOf, Checks, At

LEMMA RowOf_Same ==
  ASSUME NEW n \in Names, NEW c \in Checkers,
         n \notin Unsure' => \A d \in Checkers \ {c} : ~Checks(d, n),
         \A d \in Checkers \ {c} : call'[d] = call[d],
         row'[n] = FailureLimit => n \in earned',
         n \notin Unsure' =>
           /\ (Checks(c, n) => ~At(c, "reset"))' => failures'[n] <= row'[n]
           /\ Checks(c, n)' /\ At(c, "count")' => failures'[n] < row'[n]
           /\ Checks(c, n)' /\ At(c, "trip")' => n \in earned'
  PROVE  RowOf(n)'
  <1>1. n \notin Unsure' => \A d \in Checkers : Checks(d, n)' => d = c
    BY DEF Checks
  <1> QED BY <1>1 DEF RowOf

(* One that is checked by nobody that trips is below the limit. *)
LEMMA BelowLimit ==
  ASSUME CountInv, NEW n \in Names, \A c \in Checkers : ~(At(c, "trip") /\ call[c].name = n)
  PROVE  failures[n] < FailureLimit
  <1>1. Tripping(n) = {}
    BY DEF Tripping
  <1>2. Cardinality(Tripping(n)) = 0
    BY <1>1, FS_EmptySet
  <1>3. failures[n] < FailureLimit + Cardinality(Tripping(n))
    BY DEF CountInv
  <1> QED BY <1>2, <1>3, LimitType

LEMMA RowInv_Next ==
  ASSUME Inv, [Next]_vars
  PROVE  RowInv'
  <1> SUFFICES ASSUME NEW n \in Names PROVE RowOf(n)'
    BY DEF RowInv, RowOf, Checks
  <1>1. /\ failures \in [Names -> Nat] /\ row \in [Names -> 0..FailureLimit]
        /\ call \in [Checkers -> [pc: Places, name: Names \cup {""}]]
    BY DEF Inv, TypeInv
  <1>2. RowOf(n)
    BY DEF Inv, RowInv, RowOf, Checks
  <1>3. failures[n] \in Nat /\ row[n] \in Nat /\ row[n] <= FailureLimit
    <2>1. failures[n] \in Nat /\ row[n] \in 0..FailureLimit
      BY <1>1
    <2> QED BY <2>1, LimitType
  <1>4. "" # n /\ Idle.name = "" /\ Idle.pc = "idle"
    BY CheckerAssumption DEF Idle
  <1>13. 0 # FailureLimit
    BY LimitType
  <1>5. CASE CheckAll
    <2>1. /\ call' = call /\ row'[n] = IF n \in Settled THEN 0 ELSE row[n]
          /\ failures'[n] = IF n \in Names \ conns THEN 0 ELSE failures[n]
          /\ earned' = earned \ Settled /\ Unsure' = Unsure \ Settled
      BY <1>1, <1>5 DEF CheckAll, Cleared, Pruned, Unsure
    <2>2. CASE n \in Settled
      <3>1. \A c \in Checkers : ~Checks(c, n) /\ ~Checks(c, n)'
        BY <2>1, <2>2 DEF Settled, Checked, Checks
      <3>2. failures'[n] = 0 /\ row'[n] = 0 /\ 0 # FailureLimit /\ 0 <= 0
        BY <2>1, <2>2, LimitType DEF Settled
      <3> QED BY <3>1, <3>2 DEF RowOf
    <2>3. CASE n \notin Settled /\ failures'[n] = failures[n]
      BY <1>2, <2>1, <2>3 DEF RowOf, Checks, At
    <2>4. CASE n \notin Settled /\ failures'[n] = 0
      <3>1. 0 <= row[n]
        BY <1>3
      <3>2. failures[n] < row[n] => 0 < row[n]
        BY <1>3
      <3> QED BY <1>2, <2>1, <2>4, <3>1, <3>2 DEF RowOf, Checks, At
    <2> QED BY <2>1, <2>2, <2>3, <2>4
  <1>6. ASSUME NEW c \in Checkers, NEW m \in Names, At(c, "idle"), Status(c, m),
               UNCHANGED failures
        PROVE  RowOf(n)'
    <2>1. ~Checks(c, n)
      BY <1>4, <1>6 DEF Inv, CallInv, Checks
    <2>2. /\ call'[c].name = m /\ call'[c].pc \in {"ping", "reset"}
          /\ \A d \in Checkers \ {c} : call'[d] = call[d]
          /\ UNCHANGED <<failures, row, earned, inherited>>
      BY <1>1, <1>6 DEF Status
    <2>3. CASE n # m
      <3>1. n \in Unsure' <=> n \in Unsure
        BY <1>6, <2>2, <2>3 DEF Status, Unsure
      <3> QED BY <1>2, <2>1, <2>2, <2>3, <3>1, RowOf_Other DEF Checks
    <2>4. CASE n = m
      <3>1. n \notin Unsure' => n \notin Unsure /\ \A d \in Checkers \ {c} : ~Checks(d, n)
        BY <1>6, <2>2, <2>4 DEF Status, Shares, Checks, Unsure
      <3>2. n \notin Unsure' => failures[n] <= row[n]
        BY <1>2, <2>1, <3>1 DEF RowOf
      <3>3. row[n] = FailureLimit => n \in earned
        BY <1>2 DEF RowOf
      <3> QED BY <2>2, <3>1, <3>2, <3>3, RowOf_Same DEF At
    <2> QED BY <2>3, <2>4
  <1>7. CASE CheckNext
    BY <1>6, <1>7 DEF CheckNext, Checkers, Inv, TypeInv
  <1>8. ASSUME NEW r \in Requests, CheckNow(r) PROVE RowOf(n)'
    BY <1>6, <1>8 DEF CheckNow, Checkers, Inv, TypeInv
  <1>9. ASSUME NEW c \in Checkers, Continue(c), ~Checks(c, n) PROVE RowOf(n)'
    <2> DEFINE m == call[c].name
    <2>1. m # n
      BY <1>9 DEF Checks
    <2>2. call' = [call EXCEPT ![c] = Idle] \/ \E to : call' = [call EXCEPT ![c].pc = to]
      BY <1>9 DEF Continue, Answered, Unanswered, Reset, Count, Trip, Unhealthy, Return, Goto
    <2>3. \A d \in Checkers \ {c} : call'[d] = call[d]
      BY <1>1, <2>2
    <2>4. call'[c].name \in {"", m}
      BY <1>1, <1>4, <2>2
    <2>5. /\ row'[n] = row[n] /\ (n \in earned <=> n \in earned')
          /\ n \in Unsure <=> n \in Unsure'
      BY <1>1, <1>9, <2>1
         DEF Continue, Answered, Unanswered, Reset, Count, Trip, Unhealthy, history,
             StartsOver, Unsure
    <2>6. failures'[n] = failures[n]
      BY <1>1, <1>9, <2>1
         DEF Continue, Answered, Unanswered, Reset, Count, Trip, Unhealthy, Cleared
    <2>7. ~Checks(c, n)'
      BY <1>4, <2>1, <2>4 DEF Checks
    <2> QED BY <1>2, <1>9, <2>3, <2>5, <2>6, <2>7, RowOf_Other
  <1>10. ASSUME NEW c \in Checkers, Continue(c), Checks(c, n) PROVE RowOf(n)'
    <2>1. n \notin Unsure => \A d \in Checkers \ {c} : ~Checks(d, n)
      BY <1>2, <1>10 DEF RowOf
    <2>2. row[n] = FailureLimit => n \in earned
      BY <1>2 DEF RowOf
    <2>9. ASSUME failures'[n] = 0, StartsOver(c, n),
                 \A d \in Checkers \ {c} : call'[d] = call[d],
                 Checks(c, n)' => ~At(c, "count")' /\ ~At(c, "trip")'
          PROVE  RowOf(n)'
      <3>0. row' = [row EXCEPT ![n] = 0]
        BY <2>9 DEF StartsOver
      <3>1. row'[n] = 0 /\ 0 # FailureLimit /\ 0 <= 0
        <4>1. row'[n] = 0
          BY <1>1, <3>0
        <4> QED BY <1>13, <4>1
      <3>2. n \notin Unsure' => n \notin Unsure \/ ~Shares(c, n)
        BY <2>9 DEF StartsOver, Unsure
      <3>3. n \notin Unsure' => \A d \in Checkers \ {c} : ~Checks(d, n)
        BY <2>1, <3>2 DEF Shares, Checks
      <3> QED BY <2>9, <3>1, <3>3, RowOf_Same
    <2>3. CASE Answered(c)
      <3>1. /\ call'[c].pc = "reset" /\ call'[c].name = n
            /\ \A d \in Checkers \ {c} : call'[d] = call[d]
            /\ row'[n] = 0 /\ UNCHANGED <<failures, earned, Unsure>>
        BY <1>1, <1>10, <2>3 DEF Answered, Goto, Checks, Unsure
      <3>2. 0 # FailureLimit
        BY LimitType
      <3> QED BY <2>1, <3>1, <3>2, RowOf_Same DEF Checks, At
    <2>4. CASE Unanswered(c)
      <3>1. /\ call[c].pc = "ping" /\ UNCHANGED <<failures, Unsure>>
            /\ call'[c].pc = "count" /\ call'[c].name = n
            /\ \A d \in Checkers \ {c} : call'[d] = call[d]
            /\ row'[n] = IF row[n] < FailureLimit THEN row[n] + 1 ELSE row[n]
            /\ earned' = IF row'[n] = FailureLimit THEN earned \cup {n} ELSE earned
        BY <1>1, <1>10, <2>4 DEF Unanswered, Goto, Checks, At, Unsure
      <3>2. row'[n] = FailureLimit => n \in earned'
        BY <3>1
      <3>3. n \notin Unsure => failures[n] <= row[n]
        BY <1>2, <2>1, <3>1 DEF RowOf, At
      <3>4. n \notin Unsure => failures[n] < FailureLimit
        <4>1. n \notin Unsure => \A d \in Checkers : ~(At(d, "trip") /\ call[d].name = n)
          BY <2>1, <3>1 DEF Checks, At
        <4> QED BY <4>1, BelowLimit DEF Inv
      <3>5. n \notin Unsure => failures[n] < row'[n] /\ failures[n] <= row'[n]
        BY <1>3, <3>1, <3>3, <3>4, LimitType
      <3> QED BY <2>1, <3>1, <3>2, <3>5, RowOf_Same DEF At
    <2>5. CASE Reset(c)
      <3>1. /\ failures'[n] = 0 /\ StartsOver(c, n)
            /\ call'[c] = Idle /\ \A d \in Checkers \ {c} : call'[d] = call[d]
        BY <1>1, <1>10, <2>5 DEF Reset, Return, Cleared, Checks
      <3> QED BY <1>4, <3>1, <2>9 DEF Checks, At
    <2>6. CASE Count(c)
      <3>1. call[c].name = n /\ call[c].pc = "count"
        BY <1>10, <2>6 DEF Checks, Count, At
      <3>2. /\ UNCHANGED <<row, earned, Unsure>>
            /\ failures'[n] = failures[n] + 1
            /\ IF failures'[n] >= FailureLimit
               THEN call' = [call EXCEPT ![c].pc = "trip"]
               ELSE call' = [call EXCEPT ![c] = Idle]
        BY <1>1, <2>6, <3>1 DEF Count, Return, Goto, history, Unsure
      <3>3. \A d \in Checkers \ {c} : call'[d] = call[d]
        BY <1>1, <3>2
      <3>4. \/ failures'[n] >= FailureLimit /\ call'[c].pc = "trip"
            \/ call'[c].pc = "idle" /\ call'[c].name = ""
        BY <1>1, <1>4, <3>2
      <3>5. n \notin Unsure => failures[n] < row[n]
        BY <1>2, <1>10, <3>1 DEF RowOf, At
      <3>6. n \notin Unsure => failures'[n] <= row[n]
        BY <1>3, <3>2, <3>5
      <3>7. n \notin Unsure /\ failures'[n] >= FailureLimit => n \in earned
        BY <1>3, <2>2, <3>2, <3>6, LimitType
      <3> QED BY <1>4, <2>1, <2>2, <3>2, <3>3, <3>4, <3>6, <3>7, RowOf_Same DEF Checks, At
    <2>7. CASE Trip(c)
      <3>1. /\ failures'[n] = 0 /\ StartsOver(c, n)
            /\ call'[c].pc = "unhealthy"
            /\ \A d \in Checkers \ {c} : call'[d] = call[d]
        BY <1>1, <1>10, <2>7 DEF Trip, Goto, Cleared, Checks
      <3> QED BY <3>1, <2>9 DEF At
    <2>8. CASE Unhealthy(c)
      <3>1. /\ call[c].pc = "unhealthy" /\ call'[c] = Idle
            /\ \A d \in Checkers \ {c} : call'[d] = call[d]
            /\ UNCHANGED <<failures, row, earned, Unsure>>
        BY <1>1, <2>8 DEF Unhealthy, Return, history, At, Unsure
      <3>2. n \notin Unsure => failures[n] <= row[n]
        BY <1>2, <2>1, <3>1 DEF RowOf, At
      <3> QED BY <1>4, <2>1, <2>2, <3>1, <3>2, RowOf_Same DEF Checks, At
    <2> QED BY <1>10, <2>3, <2>4, <2>5, <2>6, <2>7, <2>8 DEF Continue
  <1>11. ASSUME UNCHANGED <<failures, history, call>> PROVE RowOf(n)'
    BY <1>2, <1>11 DEF RowOf, Checks, At, history, Unsure
  <1>12. ASSUME NEW m \in Names, Delete(m) PROVE RowOf(n)'
    <2>1. /\ UNCHANGED <<failures, mixed, call>> /\ row' = [row EXCEPT ![m] = 0]
          /\ earned' = earned \ {m}
          /\ inherited' = IF failures[m] > 0 \/ m \in todo \/ Checked(m)
                          THEN inherited \cup {m} ELSE inherited
      BY <1>12 DEF Delete
    <2>2. CASE n # m
      <3>1. /\ row'[n] = row[n] /\ (n \in earned <=> n \in earned')
            /\ n \in Unsure <=> n \in Unsure'
        BY <1>1, <2>1, <2>2 DEF Unsure
      <3> QED BY <1>2, <2>1, <3>1 DEF RowOf, Checks, At
    <2>3. CASE n = m
      <3>1. row'[n] = 0 /\ 0 # FailureLimit /\ 0 <= 0
        <4>1. row'[n] = 0
          BY <1>1, <2>1, <2>3
        <4> QED BY <1>13, <4>1
      <3>2. n \notin Unsure' => failures[n] = 0 /\ ~Checked(n)
        BY <1>3, <2>1, <2>3 DEF Unsure
      <3>3. n \notin Unsure' => \A c \in Checkers : ~Checks(c, n)'
        BY <2>1, <3>2 DEF Checked, Checks
      <3> QED BY <2>1, <3>1, <3>2, <3>3 DEF RowOf
    <2> QED BY <2>2, <2>3
  <1> QED BY <1>5, <1>7, <1>8, <1>9, <1>10, <1>11, <1>12
          DEF Next, vars, checks, Switch, Falter, Create, Disconnect, history

(* The invariant holds in every reachable state. *)
LEMMA InvHolds == Spec => []Inv
  <1>1. Inv /\ [Next]_vars => Inv'
    BY TypeInv_Next, CountInv_Next, RowInv_Next DEF Inv
  <1> QED BY Inv_Init, <1>1, PTL DEF Spec

-----------------------------------------------------------------------------
(* What Checker promises *)

(* However many checks of one connection overlap, its count passes the     *)
(* limit by no more than one for each of them.                             *)
THEOREM TypeCorrect == Spec => []TypeOK
  <1>1. ASSUME Inv PROVE TypeOK
    <2>1. ASSUME NEW n \in Names
          PROVE  failures[n] \in 0..(FailureLimit + Cardinality(Requests))
      <3>1. /\ Cardinality(Tripping(n)) \in Nat
            /\ Cardinality(Tripping(n)) <= Cardinality(Requests) + 1
        BY TrippingIsFinite
      <3>2. Cardinality(Requests) \in Nat
        BY CheckerAssumption, FS_CardinalityType
      <3>3. failures[n] \in Nat /\ failures[n] < FailureLimit + Cardinality(Tripping(n))
        BY <1>1 DEF Inv, CountInv
      <3> QED BY <3>1, <3>2, <3>3, LimitType
    <2>2. failures \in [Names -> 0..(FailureLimit + Cardinality(Requests))]
      BY <1>1, <2>1 DEF Inv, CountInv
    <2> QED BY <1>1, <2>2 DEF Inv, TypeInv, TypeOK, Places
  <1> QED BY <1>1, InvHolds, PTL

(* The manager is told that a tunnel is unhealthy only after FailureLimit  *)
(* pings of its connection in a row failed, unless checks of it overlapped *)
(* or the name was another connection's when the last tick pruned.         *)
THEOREM TripsAreEarned == Spec => []TripIsEarned
  <1>1. ASSUME Inv PROVE TripIsEarned
    <2>1. SUFFICES ASSUME NEW c \in Checkers, At(c, "trip")
                   PROVE  call[c].name \in earned \cup Unsure
      BY DEF TripIsEarned, Unsure
    <2>2. call[c].name \in Names
      BY <1>1, <2>1 DEF Inv, CallInv, At
    <2> QED BY <1>1, <2>1, <2>2 DEF Inv, RowInv
  <1> QED BY <1>1, InvHolds, PTL
=============================================================================
