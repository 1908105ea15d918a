----------------------------- MODULE ProcessProofs -----------------------------
(***************************************************************************)
(* Proofs about Process and the Supervisor it runs, for every set of       *)
(* daemons, every backoff, every number of migrations and every retention. *)
(***************************************************************************)
EXTENDS Process, FiniteSetTheorems, TLAPS

-----------------------------------------------------------------------------
(* Powers of two *)

(* A power of two counts the subsets of 1..n. *)
LEMMA PowerIsPositive ==
  ASSUME NEW n \in Nat
  PROVE  2^n \in Nat \ {0}
  <1>1. IsFiniteSet(1..n) /\ Cardinality(1..n) = n
    BY FS_Interval
  <1>2. IsFiniteSet(SUBSET (1..n)) /\ Cardinality(SUBSET (1..n)) = 2^n
    BY <1>1, FS_SUBSET
  <1>3. SUBSET (1..n) # {}
    OBVIOUS
  <1> QED BY <1>2, <1>3, FS_CardinalityType, FS_EmptySet

(* The subsets of 1..(n + 1) are those of 1..n, without and with n + 1. *)
LEMMA PowerDoubles ==
  ASSUME NEW n \in Nat
  PROVE  2^(n + 1) = 2 * 2^n
  <1> DEFINE Without == SUBSET (1..n)
             With == {s \cup {n + 1} : s \in Without}
             f == [s \in Without |-> s \cup {n + 1}]
  <1>1. /\ IsFiniteSet(1..n) /\ Cardinality(1..n) = n
        /\ IsFiniteSet(1..(n + 1)) /\ Cardinality(1..(n + 1)) = n + 1
    BY FS_Interval
  <1>2. IsFiniteSet(Without) /\ Cardinality(Without) = 2^n
    BY <1>1, FS_SUBSET
  <1>3. Cardinality(SUBSET (1..(n + 1))) = 2^(n + 1)
    BY <1>1, FS_SUBSET
  <1>4. \A s \in Without : n + 1 \notin s
    OBVIOUS
  <1>5. f \in Bijection(Without, With)
    <2>1. ASSUME NEW s \in Without, NEW t \in Without, f[s] = f[t] PROVE s = t
      <3>1. s \cup {n + 1} = t \cup {n + 1}
        BY <2>1
      <3>2. s = (s \cup {n + 1}) \ {n + 1} /\ t = (t \cup {n + 1}) \ {n + 1}
        BY <1>4
      <3> QED BY <3>1, <3>2
    <2>2. f \in [Without -> With] /\ \A t \in With : \E s \in Without : f[s] = t
      OBVIOUS
    <2> HIDE DEF Without, With, f
    <2> QED BY <2>1, <2>2 DEF Bijection, Injection, Surjection, IsInjective
  <1>6. IsFiniteSet(With) /\ Cardinality(With) = 2^n
    BY <1>2, <1>5, FS_Bijection DEF ExistsBijection
  <1>7. Without \cap With = {}
    BY <1>4
  <1>8. SUBSET (1..(n + 1)) = Without \cup With
    <2>1. ASSUME NEW u \in SUBSET (1..(n + 1)), n + 1 \notin u PROVE u \in Without
      BY <2>1
    <2>2. ASSUME NEW u \in SUBSET (1..(n + 1)), n + 1 \in u PROVE u \in With
      <3>1. u \ {n + 1} \in Without /\ u = (u \ {n + 1}) \cup {n + 1}
        BY <2>2
      <3> QED BY <3>1
    <2>3. ASSUME NEW s \in Without
          PROVE s \subseteq 1..(n + 1) /\ s \cup {n + 1} \subseteq 1..(n + 1)
      <3>1. \A k \in s : k \in 1..(n + 1)
        OBVIOUS
      <3>2. n + 1 \in 1..(n + 1)
        OBVIOUS
      <3> QED BY <3>1, <3>2
    <2>4. SUBSET (1..(n + 1)) \subseteq Without \cup With
      BY <2>1, <2>2
    <2>5. Without \subseteq SUBSET (1..(n + 1))
      BY <2>3
    <2>6. ASSUME NEW t \in With PROVE t \in SUBSET (1..(n + 1))
      <3>1. PICK s \in Without : t = s \cup {n + 1}
        OBVIOUS
      <3> HIDE DEF Without, With
      <3> QED BY <3>1, <2>3
    <2> HIDE DEF Without, With
    <2> QED BY <2>4, <2>5, <2>6
  <1>9. Cardinality(Without \cup With) = Cardinality(Without) + Cardinality(With) - Cardinality(Without \cap With)
    BY <1>2, <1>6, FS_Union
  <1> HIDE DEF Without, With
  <1>10. 2^n \in Nat
    BY PowerIsPositive
  <1>11. Cardinality(Without \cap With) = 0
    BY <1>7, FS_EmptySet
  <1>12. 2^(n + 1) = 2^n + 2^n - 0
    BY <1>2, <1>3, <1>6, <1>8, <1>9, <1>11
  <1> QED BY <1>10, <1>12

-----------------------------------------------------------------------------
(* The supervisor *)

Where == {"launch", "running", "reaping", "waiting", "returned"}

(* A reader meets the end of its pipe only when nobody can write to it any *)
(* more, and supervise goes on to Wait only when both have.                *)
PipesClose == \A d \in Daemons :
  /\ \A s \in S!Streams : pc[d] = "running" /\ reader[d][s] = "eof" => writers[d] = {}
  /\ pc[d] = "reaping" => writers[d] = {}

(* The backoff and the streak agree all the time, not only in the wait. *)
BackoffIsPower == \A d \in Daemons :
  backoff[d] = S!Least(MinBackoff * 2^streak[d], MaxBackoff)

SupervisorInv == S!TypeOK /\ S!OneInstance /\ PipesClose /\ BackoffIsPower

LEMMA SupervisorInv_Fresh ==
  ASSUME S!Init
  PROVE  SupervisorInv
  <1>1. /\ pc = [d \in Daemons |-> "launch"]
        /\ backoff = [d \in Daemons |-> MinBackoff]
        /\ streak = [d \in Daemons |-> 0]
        /\ alive = [d \in Daemons |-> FALSE]
        /\ writers = [d \in Daemons |-> {}]
        /\ pipe = [d \in Daemons |-> [s \in S!Streams |-> 0]]
        /\ reader = [d \in Daemons |-> [s \in S!Streams |-> "eof"]]
        /\ cancelled = FALSE
    BY DEF S!Init, S!Fresh
  <1>2. S!TypeOK
    <2>1. pipe \in [Daemons -> [S!Streams -> 0..PipeSize]]
      BY <1>1, ProcessAssumption
    <2>2. reader \in [Daemons -> [S!Streams -> {"scan", "drain", "eof"}]]
      BY <1>1
    <2>3. writers \in [Daemons -> SUBSET {"daemon", "child"}]
      BY <1>1
    <2>4. alive \in [Daemons -> BOOLEAN] /\ cancelled \in BOOLEAN
      BY <1>1
    <2>5. pc \in [Daemons -> {"launch", "running", "reaping", "waiting", "returned"}]
      BY <1>1
    <2>6. backoff \in [Daemons -> MinBackoff..MaxBackoff] /\ streak \in [Daemons -> Nat]
      BY <1>1, ProcessAssumption
    <2> QED BY <2>1, <2>2, <2>3, <2>4, <2>5, <2>6 DEF S!TypeOK
  <1>3. S!OneInstance /\ PipesClose
    BY <1>1 DEF S!OneInstance, PipesClose
  <1>4. BackoffIsPower
    <2>1. 2^0 = 1
      OBVIOUS
    <2>2. MinBackoff * 2^0 = MinBackoff
      BY <2>1, ProcessAssumption
    <2> QED BY <1>1, <2>2, ProcessAssumption DEF BackoffIsPower, S!Least
  <1> QED BY <1>2, <1>3, <1>4 DEF SupervisorInv

LEMMA SupervisorInv_Ends ==
  ASSUME S!Ends
  PROVE  SupervisorInv'
  <1>1. /\ pc' = [d \in Daemons |-> "launch"]
        /\ backoff' = [d \in Daemons |-> MinBackoff]
        /\ streak' = [d \in Daemons |-> 0]
        /\ alive' = [d \in Daemons |-> FALSE]
        /\ writers' = [d \in Daemons |-> {}]
        /\ pipe' = [d \in Daemons |-> [s \in S!Streams |-> 0]]
        /\ reader' = [d \in Daemons |-> [s \in S!Streams |-> "eof"]]
        /\ cancelled' = FALSE
    BY DEF S!Ends, S!Fresh
  <1>2. S!TypeOK'
    <2>1. pipe' \in [Daemons -> [S!Streams -> 0..PipeSize]]
      BY <1>1, ProcessAssumption
    <2>2. reader' \in [Daemons -> [S!Streams -> {"scan", "drain", "eof"}]]
      BY <1>1
    <2>3. writers' \in [Daemons -> SUBSET {"daemon", "child"}]
      BY <1>1
    <2>4. alive' \in [Daemons -> BOOLEAN] /\ cancelled' \in BOOLEAN
      BY <1>1
    <2>5. pc' \in [Daemons -> {"launch", "running", "reaping", "waiting", "returned"}]
      BY <1>1
    <2>6. backoff' \in [Daemons -> MinBackoff..MaxBackoff] /\ streak' \in [Daemons -> Nat]
      BY <1>1, ProcessAssumption
    <2> QED BY <2>1, <2>2, <2>3, <2>4, <2>5, <2>6 DEF S!TypeOK
  <1>3. S!OneInstance' /\ PipesClose'
    BY <1>1 DEF S!OneInstance, PipesClose
  <1>4. BackoffIsPower'
    <2>1. 2^0 = 1
      OBVIOUS
    <2>2. MinBackoff * 2^0 = MinBackoff
      BY <2>1, ProcessAssumption
    <2> QED BY <1>1, <2>2, ProcessAssumption DEF BackoffIsPower, S!Least
  <1> QED BY <1>2, <1>3, <1>4 DEF SupervisorInv

LEMMA SupervisorInv_Type ==
  ASSUME S!TypeOK, NEW d \in Daemons, S!Steps(d)
  PROVE  S!TypeOK'
  <1> USE DEF S!TypeOK, S!process, S!output
  <1>1. CASE S!Launch(d)
    BY <1>1, ProcessAssumption DEF S!Launch, S!At, S!Goto
  <1>2. CASE S!LaunchFails(d) \/ S!Reap(d)
    <2>1. PICK stable \in BOOLEAN : S!Returned(d, stable)
      BY <1>2 DEF S!LaunchFails, S!Reap
    <2>2. PICK where \in Where : pc' = [pc EXCEPT ![d] = where]
      BY <2>1 DEF S!Returned, S!Goto, Where
    <2>3. PICK b \in MinBackoff..MaxBackoff, k \in Nat :
            backoff' = [backoff EXCEPT ![d] = b] /\ streak' = [streak EXCEPT ![d] = k]
      <3>1. backoff[d] \in MinBackoff..MaxBackoff /\ streak[d] \in Nat
        OBVIOUS
      <3>2. MinBackoff \in MinBackoff..MaxBackoff /\ 0 \in Nat
        BY ProcessAssumption
      <3>3. CASE cancelled \/ ~stable
        <4>1. backoff' = [backoff EXCEPT ![d] = backoff[d]]
              /\ streak' = [streak EXCEPT ![d] = streak[d]]
          BY <2>1, <3>3 DEF S!Returned, S!Rest
        <4> QED BY <3>1, <4>1
      <3>4. CASE ~cancelled /\ stable
        BY <2>1, <3>2, <3>4 DEF S!Returned, S!Rest
      <3> QED BY <3>3, <3>4
    <2>4. UNCHANGED <<alive, writers, pipe, reader, cancelled>>
      BY <1>2 DEF S!LaunchFails, S!Reap
    <2> QED BY <2>2, <2>3, <2>4 DEF Where
  <1>3. CASE S!StreamsEnd(d) \/ S!Stop(d)
    BY <1>3 DEF S!StreamsEnd, S!Stop, S!At, S!Goto
  <1>4. CASE S!BackedOff(d)
    BY <1>4, ProcessAssumption DEF S!BackedOff, S!At, S!Goto, S!Least
  <1>5. ASSUME NEW s \in S!Streams, S!Scan(d, s) PROVE S!TypeOK'
    <2>1. pipe[d] \in [S!Streams -> 0..PipeSize]
          /\ reader[d] \in [S!Streams -> {"scan", "drain", "eof"}]
      OBVIOUS
    <2>2. pipe' \in [Daemons -> [S!Streams -> 0..PipeSize]]
      <3>1. CASE pipe[d][s] > 0 /\ pipe' = [pipe EXCEPT ![d][s] = @ - 1]
        <4>1. [pipe[d] EXCEPT ![s] = @ - 1] \in [S!Streams -> 0..PipeSize]
          BY <2>1, <3>1, ProcessAssumption
        <4> QED BY <3>1, <4>1
      <3> QED BY <1>5, <3>1 DEF S!Scan, S!Read, S!EndOfFile
    <2>3. reader' \in [Daemons -> [S!Streams -> {"scan", "drain", "eof"}]]
      <3>1. ASSUME NEW to \in {"drain", "eof"}, reader' = [reader EXCEPT ![d][s] = to]
            PROVE reader' \in [Daemons -> [S!Streams -> {"scan", "drain", "eof"}]]
        <4>1. [reader[d] EXCEPT ![s] = to] \in [S!Streams -> {"scan", "drain", "eof"}]
          BY <2>1
        <4> QED BY <3>1, <4>1
      <3> QED BY <1>5, <3>1 DEF S!Scan, S!Read, S!EndOfFile, S!AfterOverlong
    <2>4. UNCHANGED <<pc, backoff, streak, alive, writers, cancelled>>
      BY <1>5 DEF S!Scan, S!Read, S!EndOfFile
    <2> QED BY <2>2, <2>3, <2>4
  <1>6. ASSUME NEW s \in S!Streams, S!Write(d, s) PROVE S!TypeOK'
    <2>1. pipe[d] \in [S!Streams -> 0..PipeSize] /\ pipe[d][s] # PipeSize
      BY <1>6 DEF S!Write, S!Blocked
    <2>2. [pipe[d] EXCEPT ![s] = @ + 1] \in [S!Streams -> 0..PipeSize]
      <3> HIDE DEF S!TypeOK
      <3>1. pipe[d][s] \in 0..PipeSize /\ PipeSize \in Nat
        BY <2>1, ProcessAssumption
      <3>2. pipe[d][s] + 1 \in 0..PipeSize
        BY <2>1, <3>1
      <3> QED BY <2>1, <3>2
    <2>3. pipe' = [pipe EXCEPT ![d] = [pipe[d] EXCEPT ![s] = @ + 1]]
      BY <1>6 DEF S!Write
    <2> QED BY <1>6, <2>2, <2>3 DEF S!Write
  <1>7. CASE S!Fork(d) \/ S!Detach(d) \/ S!ChildExits(d)
    <2>1. PICK w \in SUBSET {"daemon", "child"} : writers' = [writers EXCEPT ![d] = w]
      <3>1. writers[d] \in SUBSET {"daemon", "child"}
        OBVIOUS
      <3> QED BY <1>7, <3>1 DEF S!Fork, S!Detach, S!ChildExits
    <2>2. UNCHANGED <<pc, backoff, streak, alive, pipe, reader, cancelled>>
      BY <1>7 DEF S!Fork, S!Detach, S!ChildExits
    <2> QED BY <2>1, <2>2
  <1>8. CASE S!Exits(d) \/ S!Kill(d)
    <2>1. /\ alive' = [alive EXCEPT ![d] = FALSE]
          /\ writers' = [writers EXCEPT ![d] = @ \ {"daemon"}]
          /\ UNCHANGED <<pc, backoff, streak, pipe, reader, cancelled>>
      BY <1>8 DEF S!Exits, S!Kill, S!Gone
    <2>2. alive' \in [Daemons -> BOOLEAN]
      BY <2>1
    <2>3. writers' \in [Daemons -> SUBSET {"daemon", "child"}]
      BY <2>1
    <2> QED BY <2>1, <2>2, <2>3
  <1> QED BY <1>1, <1>2, <1>3, <1>4, <1>5, <1>6, <1>7, <1>8
             DEF S!Steps, S!Supervise, S!Daemon

LEMMA SupervisorInv_Instance ==
  ASSUME S!TypeOK, S!OneInstance, PipesClose, NEW d \in Daemons, S!Steps(d)
  PROVE  S!OneInstance' /\ PipesClose'
  <1> USE DEF S!TypeOK, S!process, S!output, S!OneInstance, PipesClose
  <1>1. CASE S!Launch(d)
    BY <1>1 DEF S!Launch, S!At, S!Goto
  <1>2. CASE S!LaunchFails(d) \/ S!Reap(d)
    BY <1>2 DEF S!LaunchFails, S!Reap, S!At, S!Goto, S!Returned, S!Rest
  <1>3. CASE S!StreamsEnd(d) \/ S!Stop(d)
    BY <1>3 DEF S!StreamsEnd, S!Stop, S!At, S!Goto, S!Streams
  <1>4. CASE S!BackedOff(d)
    BY <1>4 DEF S!BackedOff, S!At, S!Goto
  <1>5. ASSUME NEW s \in S!Streams, S!Scan(d, s) PROVE S!OneInstance' /\ PipesClose'
    <2>1. CASE S!Read(d, s)
      <3>1. \A e \in Daemons : \A t \in S!Streams :
              reader'[e][t] = "eof" => reader[e][t] = "eof"
        BY <2>1, SMTT(30) DEF S!Read, S!AfterOverlong
      <3> QED BY <2>1, <3>1 DEF S!Read
    <2>2. CASE S!EndOfFile(d, s)
      <3>1. \A e \in Daemons : \A t \in S!Streams :
              reader'[e][t] = "eof" => reader[e][t] = "eof" \/ writers[e] = {}
        BY <2>2 DEF S!EndOfFile
      <3> QED BY <2>2, <3>1 DEF S!EndOfFile
    <2> QED BY <1>5, <2>1, <2>2 DEF S!Scan
  <1>6. CASE \E s \in S!Streams : S!Write(d, s)
    BY <1>6 DEF S!Write
  <1>7. CASE S!Fork(d) \/ S!Detach(d) \/ S!ChildExits(d)
    BY <1>7 DEF S!Fork, S!Detach, S!ChildExits
  <1>8. CASE S!Exits(d) \/ S!Kill(d)
    <2>1. /\ alive' = [alive EXCEPT ![d] = FALSE]
          /\ writers' = [writers EXCEPT ![d] = @ \ {"daemon"}]
          /\ UNCHANGED <<pc, reader>>
      BY <1>8 DEF S!Exits, S!Kill, S!Gone
    <2> QED BY <2>1
  <1> QED BY <1>1, <1>2, <1>3, <1>4, <1>5, <1>6, <1>7, <1>8
             DEF S!Steps, S!Supervise, S!Daemon

LEMMA SupervisorInv_Backoff ==
  ASSUME S!TypeOK, BackoffIsPower, NEW d \in Daemons, S!Steps(d)
  PROVE  BackoffIsPower'
  <1> USE DEF S!TypeOK
  <1>1. ASSUME NEW stable \in BOOLEAN, S!Returned(d, stable) PROVE BackoffIsPower'
    <2>1. 2^0 = 1
      OBVIOUS
    <2>2. S!Least(MinBackoff * 2^0, MaxBackoff) = MinBackoff
      BY <2>1, ProcessAssumption DEF S!Least
    <2> QED BY <1>1, <2>2 DEF BackoffIsPower, S!Returned, S!Rest
  <1>2. CASE S!BackedOff(d)
    <2> DEFINE power == 2^streak[d]
    <2>1. power \in Nat \ {0} /\ 2^(streak[d] + 1) = 2 * power
      BY PowerIsPositive, PowerDoubles
    <2>2. backoff[d] = S!Least(MinBackoff * power, MaxBackoff)
      BY DEF BackoffIsPower
    <2>3. CASE backoff[d] = MaxBackoff
      <3>1. backoff' = backoff /\ streak' = streak
        BY <1>2, <2>3, ProcessAssumption DEF S!BackedOff, S!Least
      <3> QED BY <3>1 DEF BackoffIsPower
    <2>4. CASE backoff[d] # MaxBackoff
      <3> HIDE DEF power
      <3>1. backoff[d] = MinBackoff * power
        BY <2>2, <2>4 DEF S!Least
      <3>2. MinBackoff * (2 * power) = 2 * (MinBackoff * power)
        BY <2>1, ProcessAssumption
      <3>3. S!Least(2 * backoff[d], MaxBackoff)
              = S!Least(MinBackoff * 2^(streak[d] + 1), MaxBackoff)
        BY <2>1, <3>1, <3>2
      <3>4. /\ backoff' = [backoff EXCEPT ![d] = S!Least(2 * @, MaxBackoff)]
            /\ streak' = [streak EXCEPT ![d] = @ + 1]
        BY <1>2, <2>4 DEF S!BackedOff
      <3>5. \A e \in Daemons \ {d} : backoff'[e] = backoff[e] /\ streak'[e] = streak[e]
        BY <3>4
      <3>6. backoff'[d] = S!Least(MinBackoff * 2^streak'[d], MaxBackoff)
        BY <3>3, <3>4
      <3> QED BY <3>5, <3>6 DEF BackoffIsPower
    <2> QED BY <2>3, <2>4
  <1>3. CASE UNCHANGED <<backoff, streak>>
    BY <1>3 DEF BackoffIsPower
  <1>4. \/ \E stable \in BOOLEAN : S!Returned(d, stable)
        \/ S!BackedOff(d) \/ UNCHANGED <<backoff, streak>>
    BY DEF S!Steps, S!Supervise, S!Daemon, S!Launch, S!LaunchFails, S!StreamsEnd, S!Reap,
           S!Stop, S!Scan, S!Read, S!EndOfFile, S!Fork, S!Detach, S!Exits, S!Kill,
           S!Gone, S!ChildExits, S!Write
  <1> QED BY <1>1, <1>2, <1>3, <1>4

LEMMA SupervisorInv_Step ==
  ASSUME SupervisorInv, NEW d \in Daemons, S!Steps(d)
  PROVE  SupervisorInv'
  BY SupervisorInv_Type, SupervisorInv_Instance, SupervisorInv_Backoff
     DEF SupervisorInv

-----------------------------------------------------------------------------
(* The process *)

Transaction == [by: Openers, schema: [version: Versions, applied: SUBSET (1..MaxVersion)]]

(* Every opener knows a version the database has had, of its own binary;   *)
(* the one with a transaction knows the last, and is about to add the next.*)
DatabaseInv ==
  /\ tx \in Transaction \cup {None}
  /\ schema.applied = 1..schema.version
  /\ \A p \in Openers : At(p, "migrate") =>
       opener[p].version <= schema.version /\ schema.version <= known
  /\ tx # None =>
       /\ At(tx.by, "migrate")
       /\ opener[tx.by].version = schema.version /\ schema.version < known
       /\ tx.schema = [schema EXCEPT !.applied = @ \cup {schema.version + 1}]
  /\ main = "off" => tx = None /\ opener = [p \in Openers |-> Closed]
  /\ main \notin {"off", "open"} => schema.version = known

(* What start has got to, and which part of it is there by then. *)
StartInv ==
  /\ main \in {"hooks", "prerender", "run", "close"} => listening
  /\ main \in {"prerender", "run", "close"} => script
  /\ main \in {"run", "close"} => rendered
  /\ main \notin {"run", "close", "closed"} =>
       \A d \in Daemons : pc[d] = "launch" /\ ~alive[d]
  /\ main \in {"close", "closed"} => \A d \in Daemons : pc[d] = "returned"

LogInv == LogIsKept /\ day \in Days /\ logged \subseteq 0..Retention

Inv == TypeOK /\ SupervisorInv /\ DatabaseInv /\ StartInv /\ LogInv

LEMMA Inv_Init ==
  ASSUME Init
  PROVE  Inv
  <1> USE ProcessAssumption DEF Init
  <1>1. SupervisorInv
    BY SupervisorInv_Fresh
  <1>2. /\ pc = [d \in Daemons |-> "launch"]
        /\ alive = [d \in Daemons |-> FALSE]
    BY DEF S!Init, S!Fresh
  <1>3. TypeOK
    <2>1. opener \in [Openers -> [at: {"none", "version", "migrate"}, version: Versions]]
      BY DEF Closed, Versions
    <2>2. schema \in [version: Versions, applied: SUBSET (1..MaxVersion)]
      BY DEF Versions
    <2>3. day \in Days /\ handle \in Days \cup {None} /\ files \subseteq Days
          /\ logged \subseteq 0..Retention
      BY DEF Days, Oldest
    <2>4. {listening, script, rendered, web} \subseteq BOOLEAN
      OBVIOUS
    <2>5. main \in {"off", "open", "listen", "hooks", "prerender", "run", "close", "closed"}
          /\ known \in 1..MaxVersion
      OBVIOUS
    <2> QED BY <1>1, <2>1, <2>2, <2>3, <2>4, <2>5 DEF TypeOK, SupervisorInv
  <1>4. DatabaseInv
    BY DEF DatabaseInv, At, Closed
  <1>5. StartInv
    BY <1>2 DEF StartInv
  <1>6. LogInv
    BY DEF LogInv, LogIsKept, Days, Oldest
  <1> QED BY <1>1, <1>3, <1>4, <1>5, <1>6 DEF Inv

-----------------------------------------------------------------------------
(* The daemons, and how far start is *)

(* A step leaves the daemons alone, is one of theirs, ends them, or is the *)
(* signal.                                                                 *)
LEMMA DaemonsMove ==
  ASSUME [Next]_vars
  PROVE  \/ UNCHANGED daemons
         \/ \E d \in Daemons : Supervised /\ S!Steps(d)
         \/ main' = "off" /\ S!Ends
         \/ main \in {"prerender", "run"} /\ main' = main /\ S!Cancel
  BY DEF Next, vars, Boot, Start, StartFails, ResetPassword, Signal, Killed, Log, Midnight,
         Opened, Listen, InstallHooks, Prerender, Drained, Close, Exit, Off,
         ReadVersion, Apply, Commit, Reset, ResetEnds, outsideStep, outsideDatabase

LEMMA SupervisorInv_Next ==
  ASSUME SupervisorInv, [Next]_vars
  PROVE  SupervisorInv'
  <1>1. CASE UNCHANGED daemons
    BY <1>1 DEF daemons, SupervisorInv, S!TypeOK, S!OneInstance, PipesClose, BackoffIsPower
  <1>2. CASE \E d \in Daemons : Supervised /\ S!Steps(d)
    BY <1>2, SupervisorInv_Step
  <1>3. CASE S!Ends
    BY <1>3, SupervisorInv_Ends
  <1>4. CASE S!Cancel
    <2>1. UNCHANGED <<pc, backoff, streak, alive, writers, pipe, reader>> /\ cancelled' \in BOOLEAN
      BY <1>4 DEF S!Cancel, S!process, S!output
    <2> QED BY <2>1 DEF SupervisorInv, S!TypeOK, S!OneInstance, PipesClose, BackoffIsPower
  <1> QED BY <1>1, <1>2, <1>3, <1>4, DaemonsMove

(* A daemon that has returned stays so, and a step of another one or of    *)
(* the log leaves what StartInv says of it alone.                          *)
LEMMA StartInv_Next ==
  ASSUME Inv, [Next]_vars
  PROVE  StartInv'
  <1> USE DEF StartInv
  <1>1. ASSUME S!Ends, main' = "off" PROVE StartInv'
    BY <1>1 DEF S!Ends, S!Fresh
  <1>2. ASSUME NEW d \in Daemons, Supervised, S!Steps(d) PROVE StartInv'
    <2>1. UNCHANGED <<main, listening, script, rendered>> /\ main \in {"run", "close", "closed"}
      BY <1>2 DEF Supervised, serving
    <2>2. pc \in [Daemons -> Where]
      BY DEF Inv, TypeOK, S!TypeOK, Where
    <2>3. \A e \in Daemons : pc[e] = "returned" => pc'[e] = "returned"
      BY <1>2, <2>2 DEF S!Steps, S!Supervise, S!Daemon, S!Launch, S!LaunchFails, S!StreamsEnd,
         S!Reap, S!BackedOff, S!Stop, S!Scan, S!Read, S!EndOfFile, S!Fork, S!Detach, S!Exits,
         S!Kill, S!Gone, S!ChildExits, S!Write, S!At, S!Goto, S!Returned
    <2> QED BY <2>1, <2>3, Inv DEF Inv
  <1>3. ASSUME S!Cancel, UNCHANGED <<main, serving>> PROVE StartInv'
    BY <1>3 DEF S!Cancel, S!process, serving, Inv
  <1>4. ASSUME UNCHANGED <<main, serving, daemons>> PROVE StartInv'
    BY <1>4 DEF serving, daemons, Inv
  <1>5. ASSUME NEW version, Boot(version) PROVE StartInv'
    BY <1>5 DEF Boot, daemons, Inv
  <1>6. CASE Opened \/ Listen \/ InstallHooks \/ Prerender \/ Drained \/ Close
    BY <1>6 DEF Opened, Listen, InstallHooks, Prerender, Drained, Close, Step, serving,
                outsideStep, daemons, Inv, S!At
  <1> QED BY <1>1, <1>2, <1>3, <1>4, <1>5, <1>6
          DEF Next, vars, Start, StartFails, ResetPassword, Signal, Killed, Log, Midnight,
              Exit, Off, ReadVersion, Apply, Commit, Reset, ResetEnds, outsideDatabase

-----------------------------------------------------------------------------
(* The log *)

LEMMA LogInv_Next ==
  ASSUME Inv, [Next]_vars
  PROVE  LogInv' /\ handle' \in Days \cup {None} /\ files' \subseteq Days
  <1> USE ProcessAssumption DEF LogInv, LogIsKept, Days, Oldest
  <1>1. /\ LogInv /\ handle \in Days \cup {None} /\ files \subseteq Days
    BY DEF Inv, TypeOK
  <1>2. ASSUME Opens PROVE LogInv' /\ handle' \in Days \cup {None} /\ files' \subseteq Days
    BY <1>1, <1>2 DEF Opens, prune, pruned
  <1>3. CASE Log
    BY <1>1, <1>2, <1>3 DEF Log, OpenFails
  <1>4. CASE \E version \in 1..MaxVersion : Boot(version)
    BY <1>2, <1>4 DEF Boot
  <1>5. CASE Midnight
    <2>1. \A d \in Days : Aged(d) \in Days /\ Aged(d) # 0
      BY DEF Aged
    <2>2. day' \in Days /\ day' # 0 /\ handle' \in Days \cup {None} /\ files' \subseteq Days
      BY <1>1, <1>5, <2>1 DEF Midnight
    <2>3. logged' \subseteq files' /\ logged' \subseteq 0..Retention
      BY <1>1, <1>5, <2>1 DEF Midnight
    <2> QED BY <2>2, <2>3
  <1>6. CASE Off
    BY <1>1, <1>6 DEF Off
  <1>7. ASSUME UNCHANGED log, main' # "off" => main # "off"
        PROVE  LogInv' /\ handle' \in Days \cup {None} /\ files' \subseteq Days
    BY <1>1, <1>7 DEF log
  <1>8. \/ Off \/ Log \/ Midnight \/ \E version \in 1..MaxVersion : Boot(version)
        \/ UNCHANGED log /\ (main' # "off" => main # "off")
    BY DEF Next, vars, Start, StartFails, ResetPassword, Signal, Killed, Supervised, Opened,
           Listen, InstallHooks, Prerender, Drained, Close, Exit, Step, ReadVersion, Apply,
           Commit, Reset, ResetEnds, outsideStep, outsideDatabase
  <1> QED BY <1>3, <1>4, <1>5, <1>6, <1>7, <1>8

-----------------------------------------------------------------------------
(* The database *)

Openings == [at: {"none", "version", "migrate"}, version: Versions]

SchemaType ==
  /\ opener \in [Openers -> Openings]
  /\ schema \in [version: Versions, applied: SUBSET (1..MaxVersion)]
  /\ known \in 1..MaxVersion

LEMMA Database_ReadVersion ==
  ASSUME SchemaType, DatabaseInv, NEW p \in Openers, ReadVersion(p)
  PROVE  SchemaType' /\ DatabaseInv'
  <1>1. /\ opener[p].at = "version" /\ schema.version <= known
        /\ opener' = [opener EXCEPT ![p] = [at |-> "migrate", version |-> schema.version]]
        /\ UNCHANGED <<main, known, schema, tx>>
    BY DEF ReadVersion, At, Then, outsideDatabase
  <1>2. [at |-> "migrate", version |-> schema.version] \in Openings
    BY DEF SchemaType, Openings
  <1>3. SchemaType'
    BY <1>1, <1>2 DEF SchemaType
  <1>4. \A q \in Openers : q # p => opener'[q] = opener[q]
    BY <1>1 DEF SchemaType
  <1>5. opener'[p] = [at |-> "migrate", version |-> schema.version]
    BY <1>1 DEF SchemaType
  <1>6. tx # None => tx.by \in Openers \ {p}
    BY <1>1 DEF DatabaseInv, At, Transaction
  <1>7. main # "off"
    BY <1>1 DEF DatabaseInv, Closed
  <1>8. \A q \in Openers : At(q, "migrate")' =>
          opener'[q].version <= schema.version /\ schema.version <= known
    BY <1>1, <1>4, <1>5 DEF DatabaseInv, At, SchemaType, Versions
  <1>9. tx # None => At(tx.by, "migrate")' /\ opener'[tx.by].version = schema.version
    BY <1>1, <1>4, <1>6 DEF DatabaseInv, At
  <1> QED BY <1>1, <1>3, <1>7, <1>8, <1>9 DEF DatabaseInv

LEMMA Database_Apply ==
  ASSUME SchemaType, DatabaseInv, NEW p \in Openers, Apply(p)
  PROVE  SchemaType' /\ DatabaseInv'
  <1> DEFINE v == opener[p].version + 1
  <1>1. /\ opener[p].at = "migrate" /\ v <= known /\ tx = None /\ v \notin schema.applied
        /\ tx' = [by |-> p, schema |-> [schema EXCEPT !.applied = @ \cup {v}]]
        /\ UNCHANGED <<main, known, opener, schema>>
    BY DEF Apply, At, outsideDatabase
  <1>2. opener[p].version \in Nat /\ schema.version \in Nat /\ known \in Nat
        /\ v \in 1..MaxVersion
    BY <1>1, ProcessAssumption DEF SchemaType, Openings, Versions
  <1>3. v = schema.version + 1
    <2>1. opener[p].version <= schema.version
      BY <1>1 DEF DatabaseInv, At
    <2>2. v \notin 1..schema.version
      BY <1>1 DEF DatabaseInv
    <2> HIDE DEF v
    <2> QED BY <1>2, <2>1, <2>2 DEF v
  <1>4. main # "off"
    BY <1>1 DEF DatabaseInv, Closed
  <1>5. tx' \in Transaction
    <2>1. [schema EXCEPT !.applied = @ \cup {v}]
            \in [version: Versions, applied: SUBSET (1..MaxVersion)]
      BY <1>2 DEF SchemaType
    <2> HIDE DEF v
    <2> QED BY <1>1, <2>1 DEF Transaction
  <1>6. tx'.by = p /\ tx'.schema = [schema EXCEPT !.applied = @ \cup {schema.version + 1}]
    BY <1>1, <1>3
  <1>7. opener[p].version = schema.version /\ schema.version < known
    BY <1>1, <1>2, <1>3
  <1>8. SchemaType'
    BY <1>1 DEF SchemaType
  <1>9. At(p, "migrate")'
    BY <1>1 DEF At
  <1>10. \A q \in Openers : At(q, "migrate")' => At(q, "migrate")
    BY <1>1 DEF At
  <1> HIDE DEF v
  <1> QED BY <1>1, <1>4, <1>5, <1>6, <1>7, <1>8, <1>9, <1>10 DEF DatabaseInv

LEMMA Database_Commit ==
  ASSUME SchemaType, DatabaseInv, NEW p \in Openers, Commit(p)
  PROVE  SchemaType' /\ DatabaseInv'
  <1> DEFINE v == schema.version + 1
  <1>1. /\ tx \in Transaction /\ tx.by = p /\ opener[p].at = "migrate"
        /\ opener[p].version = schema.version /\ schema.version < known
        /\ tx.schema = [schema EXCEPT !.applied = @ \cup {v}]
    BY DEF Commit, Writing, DatabaseInv, At
  <1>2. /\ schema' = [tx.schema EXCEPT !.version = v]
        /\ tx' = None
        /\ opener' = [opener EXCEPT ![p] = [at |-> "migrate", version |-> v]]
        /\ UNCHANGED <<main, known>>
    BY <1>1 DEF Commit, Then, outsideDatabase
  <1>3. schema.version \in Nat /\ v \in 1..MaxVersion /\ known \in Nat /\ v \in Versions
    BY <1>1, ProcessAssumption DEF SchemaType, Versions
  <1>4. schema'.version = v /\ schema'.applied = schema.applied \cup {v}
        /\ schema' \in [version: Versions, applied: SUBSET (1..MaxVersion)]
    <2> HIDE DEF v
    <2> QED BY <1>1, <1>2, <1>3, ZenonT(40) DEF SchemaType
  <1>5. schema'.applied = 1..schema'.version
    <2>1. 1..v = 1..schema.version \cup {v}
      BY <1>3
    <2> HIDE DEF v
    <2> QED BY <1>4, <2>1 DEF DatabaseInv
  <1>6. [at |-> "migrate", version |-> v] \in Openings
    BY <1>3 DEF Openings
  <1>7. SchemaType'
    BY <1>2, <1>4, <1>6 DEF SchemaType
  <1>8. \A q \in Openers : At(q, "migrate")' =>
          opener'[q].version <= schema'.version /\ schema'.version <= known
    <2>1. ASSUME NEW q \in Openers, q # p, At(q, "migrate")'
          PROVE  opener'[q].version <= schema'.version
      <3>1. opener'[q] = opener[q]
        BY <1>2, <2>1 DEF SchemaType
      <3>2. opener[q].version <= schema.version /\ opener[q].version \in Nat
        BY <2>1, <3>1 DEF DatabaseInv, At, SchemaType, Openings, Versions
      <3> QED BY <1>3, <1>4, <3>1, <3>2
    <2>2. opener'[p].version = v
      BY <1>2 DEF SchemaType
    <2>3. v <= known
      BY <1>1, <1>3
    <2>4. v <= v
      BY <1>3
    <2> HIDE DEF v
    <2> QED BY <1>4, <2>1, <2>2, <2>3, <2>4
  <1>9. main \in {"off", "open"}
    BY <1>1, <1>3 DEF DatabaseInv
  <1>10. main # "off"
    BY <1>1 DEF DatabaseInv, Closed
  <1> HIDE DEF v
  <1> QED BY <1>2, <1>5, <1>7, <1>8, <1>9, <1>10 DEF DatabaseInv

LEMMA Database_Next ==
  ASSUME SchemaType, DatabaseInv, [Next]_vars
  PROVE  SchemaType' /\ DatabaseInv'
  <1>1. ASSUME UNCHANGED <<known, opener, schema, tx>>,
               main' = main \/ (main \notin {"off", "open"} /\ main' # "off")
        PROVE  SchemaType' /\ DatabaseInv'
    BY <1>1 DEF SchemaType, DatabaseInv, At
  <1>2. CASE Off
    <2>1. /\ opener' = [p \in Openers |-> Closed] /\ tx' = None /\ main' = "off"
          /\ UNCHANGED <<known, schema>>
      BY <1>2 DEF Off
    <2>2. Closed \in Openings /\ Closed.at = "none"
      BY ProcessAssumption DEF Closed, Openings, Versions
    <2>3. SchemaType'
      BY <2>1, <2>2 DEF SchemaType
    <2> QED BY <2>1, <2>2, <2>3 DEF DatabaseInv, At
  <1>3. ASSUME NEW version \in 1..MaxVersion, Boot(version) PROVE SchemaType' /\ DatabaseInv'
    <2>1. /\ main = "off" /\ main' = "open" /\ known' = version
          /\ opener' = [opener EXCEPT !["main"].at = "version"]
          /\ UNCHANGED <<schema, tx>>
      BY <1>3 DEF Boot
    <2>2. opener = [p \in Openers |-> Closed] /\ tx = None
      BY <2>1 DEF DatabaseInv
    <2>3. /\ opener'["main"] = [at |-> "version", version |-> 0]
          /\ opener'["reset"] = Closed
          /\ opener' \in [Openers -> Openings]
      BY ProcessAssumption, <2>1, <2>2 DEF Openers, Closed, Openings, Versions
    <2>4. \A p \in Openers : ~At(p, "migrate")'
      BY <2>3 DEF Openers, At, Closed
    <2>5. SchemaType'
      BY <1>3, <2>1, <2>3 DEF SchemaType
    <2> QED BY <2>1, <2>2, <2>4, <2>5 DEF DatabaseInv
  <1>4. CASE Reset
    <2>1. /\ main # "off" /\ opener["reset"].at = "none"
          /\ opener' = [opener EXCEPT !["reset"] = [at |-> "version", version |-> 0]]
          /\ UNCHANGED <<main, known, schema, tx>>
      BY <1>4 DEF Reset, At, Then, outsideDatabase
    <2>2. [at |-> "version", version |-> 0] \in Openings
      BY ProcessAssumption DEF Openings, Versions
    <2>3. SchemaType'
      BY <2>1, <2>2 DEF SchemaType
    <2>4. opener'["main"] = opener["main"] /\ opener'["reset"].at = "version"
      BY <2>1 DEF SchemaType, Openers
    <2>5. tx # None => tx.by = "main"
      BY <2>1 DEF DatabaseInv, Transaction, Openers, At
    <2> QED BY <2>1, <2>3, <2>4, <2>5 DEF DatabaseInv, At, Openers
  <1>5. CASE ResetEnds
    <2>1. /\ opener["reset"].at # "none"
          /\ opener' = [opener EXCEPT !["reset"] = Closed]
          /\ tx' = IF Writing("reset") THEN None ELSE tx
          /\ UNCHANGED <<main, known, schema>>
      BY <1>5 DEF ResetEnds, At, Writing, outsideDatabase
    <2>2. Closed \in Openings /\ Closed.at = "none"
      BY ProcessAssumption DEF Closed, Openings, Versions
    <2>3. SchemaType'
      BY <2>1, <2>2 DEF SchemaType
    <2>4. opener'["main"] = opener["main"] /\ opener'["reset"].at = "none"
      BY <2>1, <2>2 DEF SchemaType, Openers
    <2>5. tx' # None => tx' = tx /\ tx.by = "main"
      BY <2>1 DEF DatabaseInv, Transaction, Openers, Writing
    <2>6. main # "off"
      BY <2>1, <2>2 DEF DatabaseInv, Openers
    <2>7. \A p \in Openers : At(p, "migrate")' => At(p, "migrate") /\ opener'[p] = opener[p]
      BY <2>4 DEF Openers, At
    <2> QED BY <2>1, <2>3, <2>4, <2>5, <2>6, <2>7 DEF DatabaseInv, At
  <1>6. CASE Opened
    <2>1. /\ main = "open" /\ main' = "listen"
          /\ opener["main"] = [at |-> "migrate", version |-> known]
          /\ opener' = [opener EXCEPT !["main"] = Closed]
          /\ UNCHANGED <<known, schema, tx>>
      BY <1>6 DEF Opened, Step, outsideStep
    <2>2. Closed \in Openings /\ Closed.at = "none"
      BY ProcessAssumption DEF Closed, Openings, Versions
    <2>3. SchemaType'
      BY <2>1, <2>2 DEF SchemaType
    <2>4. schema.version = known
      <3>1. known <= schema.version /\ schema.version <= known
        BY <2>1 DEF DatabaseInv, At, Openers
      <3>2. known \in Nat /\ schema.version \in Nat
        BY DEF SchemaType, Versions
      <3> QED BY <3>1, <3>2
    <2>5. tx = None
      <3>1. known \in Nat /\ ~(known < known)
        BY DEF SchemaType
      <3> QED BY <2>4, <3>1 DEF DatabaseInv
    <2>6. opener'["reset"] = opener["reset"] /\ opener'["main"].at = "none"
      BY <2>1, <2>2 DEF SchemaType, Openers
    <2>7. \A p \in Openers : At(p, "migrate")' => At(p, "migrate") /\ opener'[p] = opener[p]
      BY <2>6 DEF Openers, At
    <2> QED BY <2>1, <2>3, <2>4, <2>5, <2>7 DEF DatabaseInv
  <1>7. CASE \E p \in Openers : ReadVersion(p) \/ Apply(p) \/ Commit(p)
    BY <1>7, Database_ReadVersion, Database_Apply, Database_Commit
  <1>8. CASE Listen \/ InstallHooks \/ Prerender \/ Drained \/ Close
    BY <1>1, <1>8 DEF Listen, InstallHooks, Prerender, Drained, Close, Step, outsideStep
  <1>9. CASE UNCHANGED vars \/ Signal \/ Log \/ Midnight \/ Supervised
    <2>1. UNCHANGED <<main, known, opener, schema, tx>>
      BY <1>9 DEF vars, Signal, Log, Midnight, Supervised, database
    <2> QED BY <1>1, <2>1
  <1>10. \A p \in {"main", "reset"} : p \in Openers
    BY DEF Openers
  <1> QED BY <1>2, <1>3, <1>4, <1>5, <1>6, <1>7, <1>8, <1>9, <1>10
          DEF Next, Start, StartFails, ResetPassword, Killed, Exit

-----------------------------------------------------------------------------
(* The process *)

LEMMA MainType_Next ==
  ASSUME TypeOK, [Next]_vars
  PROVE  /\ main' \in {"off", "open", "listen", "hooks", "prerender", "run", "close", "closed"}
         /\ {listening', script', rendered', web'} \subseteq BOOLEAN
  <1> DEFINE Places == {"off", "open", "listen", "hooks", "prerender", "run", "close", "closed"}
  <1>1. main \in Places /\ {listening, script, rendered, web} \subseteq BOOLEAN
    BY DEF TypeOK
  <1> DEFINE Flags == {listening', script', rendered', web'} \subseteq BOOLEAN
  <1>2. CASE Off
    BY <1>1, <1>2 DEF Off
  <1>3. CASE \E version \in 1..MaxVersion : Boot(version)
    BY <1>1, <1>3 DEF Boot
  <1>4. CASE Opened \/ Listen \/ InstallHooks \/ Prerender \/ Drained \/ Close
    BY <1>1, <1>4 DEF Opened, Listen, InstallHooks, Prerender, Drained, Close, Step, serving
  <1>5. ASSUME UNCHANGED <<main, serving>> PROVE main' \in Places /\ Flags
    BY <1>1, <1>5 DEF serving
  <1>6. \/ Off \/ (\E version \in 1..MaxVersion : Boot(version))
        \/ Opened \/ Listen \/ InstallHooks \/ Prerender \/ Drained \/ Close
        \/ UNCHANGED <<main, serving>>
    BY DEF Next, vars, Start, StartFails, ResetPassword, Signal, Killed, Supervised, Log,
           Midnight, Exit, ReadVersion, Apply, Commit, Reset, ResetEnds, outsideDatabase
  <1> QED BY <1>2, <1>3, <1>4, <1>5, <1>6

LEMMA Inv_Next ==
  ASSUME Inv, [Next]_vars
  PROVE  Inv'
  <1>1. SupervisorInv'
    BY SupervisorInv_Next DEF Inv
  <1>2. SchemaType' /\ DatabaseInv'
    BY Database_Next DEF Inv, TypeOK, SchemaType, Openings
  <1>3. LogInv' /\ handle' \in Days \cup {None} /\ files' \subseteq Days
    BY LogInv_Next
  <1>4. StartInv'
    BY StartInv_Next
  <1>5. TypeOK'
    <2>1. /\ main' \in {"off", "open", "listen", "hooks", "prerender", "run", "close", "closed"}
          /\ {listening', script', rendered', web'} \subseteq BOOLEAN
      BY MainType_Next DEF Inv
    <2> QED BY <1>1, <1>2, <1>3, <2>1
            DEF TypeOK, SchemaType, Openings, LogInv, SupervisorInv
  <1> QED BY <1>1, <1>2, <1>3, <1>4, <1>5 DEF Inv

(* The invariant holds in every reachable state. *)
LEMMA InvHolds == Spec => []Inv
  <1> QED BY Inv_Init, Inv_Next, PTL DEF Spec

-----------------------------------------------------------------------------
(* What Process promises *)

(* Every variable keeps its type, with any number of daemons, migrations   *)
(* and days: no pipe holds more lines than it can, and no backoff passes   *)
(* the maximum.                                                            *)
THEOREM TypeCorrect == Spec => []TypeOK
  <1>1. Inv => TypeOK
    BY DEF Inv
  <1> QED BY <1>1, InvHolds, PTL

(* The database has had exactly the migrations its user_version stands     *)
(* for, however start and reset-password interleave in db.Open, fail and   *)
(* are killed; past db.Open the process runs on those it knows.            *)
THEOREM SchemaWhole == Spec => []SchemaIsWhole
  <1>1. Inv => SchemaIsWhole
    BY DEF Inv, DatabaseInv, SchemaIsWhole
  <1> QED BY <1>1, InvHolds, PTL

(* While a daemon runs, its files are rendered, the scripts of pppd are    *)
(* installed, and the listener they name is open.                          *)
THEOREM DaemonsServed == Spec => []DaemonsAreServed
  <1>1. ASSUME Inv PROVE DaemonsAreServed
    <2>1. SUFFICES ASSUME NEW d \in Daemons, alive[d]
                   PROVE  rendered /\ script /\ listening
      BY DEF DaemonsAreServed
    <2>2. main \in {"run", "close", "closed"}
      BY <1>1, <2>1 DEF Inv, StartInv
    <2>3. main \notin {"close", "closed"}
      BY <1>1, <2>1 DEF Inv, StartInv, SupervisorInv, S!OneInstance
    <2> QED BY <1>1, <2>2, <2>3 DEF Inv, StartInv
  <1> QED BY <1>1, InvHolds, PTL

(* supervise starts a daemon, or is done with it, only when the instance   *)
(* before is gone and nobody can still write to its pipes.                 *)
THEOREM OneInstanceAtATime == Spec => []OneInstance
  <1>1. Inv => OneInstance
    BY DEF Inv, SupervisorInv, OneInstance
  <1> QED BY <1>1, InvHolds, PTL

(* The wait before a restart is the minimum, doubled once for every        *)
(* restart since the last stable run, up to the maximum.                   *)
THEOREM WaitsFollowStreak == Spec => []WaitFollowsStreak
  <1>1. Inv => WaitFollowsStreak
    BY DEF Inv, SupervisorInv, BackoffIsPower, WaitFollowsStreak, S!WaitFollowsStreak
  <1> QED BY <1>1, InvHolds, PTL

(* What was logged in the days that are kept is still there, and a line    *)
(* that finds today's file noted finds it open.                            *)
THEOREM LogKept == Spec => []LogIsKept
  <1>1. Inv => LogIsKept
    BY DEF Inv, LogInv
  <1> QED BY <1>1, InvHolds, PTL
=============================================================================
