-------------------------------- MODULE Checker --------------------------------
(***************************************************************************)
(* The health checker of tsv-vpn (internal/health/check.go): a ticker      *)
(* pings through every tunnel that is up, the web UI's check button does   *)
(* the same for one connection from a goroutine of its own, and after      *)
(* FailureLimit failures the manager is told that the tunnel is unhealthy. *)
(*                                                                         *)
(* The lock of the checker covers one update of the failure counts, so an  *)
(* action is a read of the manager or the store, a ping, or one update.    *)
(***************************************************************************)
EXTENDS Naturals, FiniteSets

CONSTANTS
  Names,         \* connection names
  Requests,      \* checks the web UI runs at the same time
  FailureLimit,  \* failureLimit
  MaxChanges     \* bound: changes of tunnels, and connections created

Loop == "loop"
Checkers == Requests \cup {Loop}

ASSUME CheckerAssumption ==
  /\ FailureLimit \in Nat \ {0} /\ MaxChanges \in Nat
  /\ IsFiniteSet(Names) /\ IsFiniteSet(Requests) /\ Loop \notin Requests
  /\ "" \notin Names

VARIABLES
  conns,     \* names of the connections in the store
  up,        \* names whose tunnel is up
  dead,      \* names whose health check address does not answer
  failures,  \* c.failures; an absent name counts 0
  row,       \* history: failed pings since an answered one or a cleared count
  earned,    \* history: FailureLimit pings of a connection failed in a row
  mixed,     \* history: names whose count may be of checks that overlapped
  inherited, \* history: names whose count may be of a deleted connection
  todo,      \* the connections CheckAll has left to check
  call,      \* the checks in progress
  changes    \* changes so far

vars == <<conns, up, dead, failures, row, earned, mixed, inherited, todo, call, changes>>

history == <<row, earned, mixed, inherited>>
world   == <<conns, up, dead, changes>>

Idle == [pc |-> "idle", name |-> ""]

Init ==
  /\ conns = Names /\ up = {} /\ dead = {}
  /\ failures = [n \in Names |-> 0] /\ row = [n \in Names |-> 0]
  /\ earned = {} /\ mixed = {} /\ inherited = {}
  /\ todo = {} /\ call = [c \in Checkers |-> Idle]
  /\ changes = 0

-----------------------------------------------------------------------------
(* Check *)

At(c, pc) == call[c].pc = pc
Goto(c, pc) == call' = [call EXCEPT ![c].pc = pc]
Return(c) == call' = [call EXCEPT ![c] = Idle]

Cleared(ns) == failures' = [n \in Names |-> IF n \in ns THEN 0 ELSE failures[n]]

(* A check of n is in progress, and one besides that of c. *)
Checked(n) == \E d \in Checkers : call[d].name = n
Shares(c, n) == \E d \in Checkers \ {c} : call[d].name = n

(* The count of n is cleared by c, and its history starts over: unless a   *)
(* check of n is under way, or left to do, from before.                    *)
StartsOver(c, n) ==
  /\ row' = [row EXCEPT ![n] = 0] /\ earned' = earned \ {n}
  /\ mixed' = IF Shares(c, n) THEN mixed ELSE mixed \ {n}
  /\ inherited' = IF Shares(c, n) \/ n \in todo THEN inherited ELSE inherited \ {n}

(* Mutant: prune clears the names that still exist. *)
Pruned_Existing == conns

(* prune: the names no connection has. *)
Pruned == Names \ conns

(* Of these nothing is left, not even a check under way. *)
Settled == {n \in Names \ conns : ~Checked(n)}

(* ListConnections and prune. *)
CheckAll ==
  /\ At(Loop, "idle") /\ todo = {}
  /\ todo' = conns
  /\ Cleared(Pruned)
  /\ row' = [n \in Names |-> IF n \in Settled THEN 0 ELSE row[n]]
  /\ earned' = earned \ Settled
  /\ mixed' = mixed \ Settled /\ inherited' = inherited \ Settled
  /\ UNCHANGED <<world, call>>

(* Tunnels.Status: only a tunnel that is up is pinged. *)
Status(c, n) ==
  /\ call' = [call EXCEPT ![c] = [pc |-> IF n \in up THEN "ping" ELSE "reset",
                                  name |-> n]]
  /\ mixed' = IF Shares(c, n) THEN mixed \cup {n} ELSE mixed
  /\ UNCHANGED <<row, earned, inherited>>

CheckNext ==
  /\ At(Loop, "idle")
  /\ \E n \in todo : Status(Loop, n) /\ todo' = todo \ {n}
  /\ UNCHANGED <<world, failures>>

(* The check button of one connection. *)
CheckNow(r) ==
  /\ At(r, "idle")
  /\ \E n \in conns : Status(r, n)
  /\ UNCHANGED <<world, failures, todo>>

Answers(n) == n \in up /\ n \notin dead

(* Mutant: a tunnel that answers keeps its failures. *)
Answered_KeepsCount(c) ==
  /\ At(c, "ping") /\ Answers(call[c].name) /\ Return(c)
  /\ row' = [row EXCEPT ![call[c].name] = 0]
  /\ UNCHANGED <<world, failures, earned, mixed, inherited, todo>>

Answered(c) ==
  /\ At(c, "ping") /\ Answers(call[c].name) /\ Goto(c, "reset")
  /\ row' = [row EXCEPT ![call[c].name] = 0]
  /\ UNCHANGED <<world, failures, earned, mixed, inherited, todo>>

(* A ping over a tunnel that is gone fails too. *)
Unanswered(c) ==
  LET n == call[c].name IN
  /\ At(c, "ping") /\ ~Answers(n) /\ Goto(c, "count")
  /\ row' = [row EXCEPT ![n] = IF @ < FailureLimit THEN @ + 1 ELSE @]
  /\ earned' = IF row'[n] = FailureLimit THEN earned \cup {n} ELSE earned
  /\ UNCHANGED <<world, failures, mixed, inherited, todo>>

Reset(c) ==
  LET n == call[c].name IN
  /\ At(c, "reset") /\ Return(c)
  /\ Cleared({n}) /\ StartsOver(c, n)
  /\ UNCHANGED <<world, todo>>

Count(c) ==
  LET n == call[c].name IN
  /\ At(c, "count")
  /\ failures' = [failures EXCEPT ![n] = @ + 1]
  /\ IF failures'[n] >= FailureLimit THEN Goto(c, "trip") ELSE Return(c)
  /\ UNCHANGED <<world, history, todo>>

(* Mutant: the count is kept when the tunnel is torn down. *)
Trip_KeepsCount(c) ==
  LET n == call[c].name IN
  /\ At(c, "trip") /\ Goto(c, "unhealthy")
  /\ StartsOver(c, n)
  /\ UNCHANGED <<world, failures, todo>>

(* The reset before Unhealthy. *)
Trip(c) ==
  LET n == call[c].name IN
  /\ At(c, "trip") /\ Goto(c, "unhealthy")
  /\ Cleared({n}) /\ StartsOver(c, n)
  /\ UNCHANGED <<world, todo>>

(* Tunnels.Unhealthy: the manager tears the tunnel down. *)
Unhealthy(c) ==
  /\ At(c, "unhealthy") /\ Return(c)
  /\ up' = up \ {call[c].name}
  /\ UNCHANGED <<conns, dead, changes, failures, history, todo>>

-----------------------------------------------------------------------------
(* The operator, the manager and the network *)

checks == <<failures, history, todo, call>>

Change == changes < MaxChanges /\ changes' = changes + 1

Switch(n) ==
  /\ Change
  /\ up' = IF n \in up THEN up \ {n} ELSE up \cup (conns \cap {n})
  /\ UNCHANGED <<conns, dead, checks>>

Falter(n) ==
  /\ Change
  /\ dead' = IF n \in dead THEN dead \ {n} ELSE dead \cup {n}
  /\ UNCHANGED <<conns, up, checks>>

(* The history ends with the connection; its count does not, until prune,  *)
(* nor do the checks of it that are under way or left to do.               *)
Delete(n) ==
  /\ n \in conns /\ conns' = conns \ {n}
  /\ row' = [row EXCEPT ![n] = 0] /\ earned' = earned \ {n}
  /\ inherited' = IF failures[n] > 0 \/ n \in todo \/ Checked(n)
                  THEN inherited \cup {n} ELSE inherited
  /\ UNCHANGED <<up, dead, changes, failures, mixed, todo, call>>

Create(n) ==
  /\ Change
  /\ n \notin conns /\ conns' = conns \cup {n}
  /\ UNCHANGED <<up, dead, checks>>

(* A later pass of the manager disconnects what was deleted. *)
Disconnect(n) ==
  /\ n \notin conns /\ n \in up
  /\ up' = up \ {n}
  /\ UNCHANGED <<conns, dead, changes, checks>>

-----------------------------------------------------------------------------
(* The specification *)

Continue(c) ==
  \/ Answered(c) \/ Unanswered(c) \/ Reset(c) \/ Count(c) \/ Trip(c)
  \/ Unhealthy(c)

Next ==
  \/ CheckAll \/ CheckNext
  \/ \E r \in Requests : CheckNow(r)
  \/ \E c \in Checkers : Continue(c)
  \/ \E n \in Names : \/ Switch(n) \/ Falter(n) \/ Delete(n) \/ Create(n)
                      \/ Disconnect(n)

Spec == Init /\ [][Next]_vars

(* The ticker ticks, a ping has a deadline, and the manager reconciles. *)
FairSpec ==
  /\ Spec
  /\ WF_vars(CheckAll \/ CheckNext) /\ \A c \in Checkers : WF_vars(Continue(c))
  /\ \A n \in Names : WF_vars(Disconnect(n))

TypeOK ==
  /\ conns \in SUBSET Names /\ up \in SUBSET Names /\ dead \in SUBSET Names
  /\ failures \in [Names -> 0..(FailureLimit + Cardinality(Requests))]
  /\ row \in [Names -> 0..FailureLimit]
  /\ earned \in SUBSET Names /\ mixed \in SUBSET Names /\ inherited \in SUBSET Names
  /\ todo \in SUBSET Names
  /\ call \in [Checkers -> [pc: {"idle", "ping", "reset", "count", "trip", "unhealthy"},
                            name: Names \cup {""}]]
  /\ changes \in 0..MaxChanges

-----------------------------------------------------------------------------
(* Properties *)

(* A tunnel is torn down as unhealthy only after FailureLimit pings of its *)
(* own connection in a row failed, and once for each such row: no failure  *)
(* is counted across an answer, unless the button and the ticker checked   *)
(* the connection at the same time since its count was last cleared.  And  *)
(* no failure is inherited, but for the case in which the code disagrees   *)
(* with check.go:158 ("so a reused name does not inherit them"): prune     *)
(* comes with the ticks only, so a connection created under the name of    *)
(* one that was deleted since the last tick has the other's failures, and  *)
(* those of its checks under way.                                          *)
TripIsEarned ==
  \A c \in Checkers : At(c, "trip") => call[c].name \in earned \cup mixed \cup inherited

(* A tunnel that stays up without answering is noticed and torn down.      *)
NoticesDeadTunnel == \A n \in Names :
  (n \in up /\ n \in dead) ~> (n \notin up \/ n \notin dead)
=============================================================================
