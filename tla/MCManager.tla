----------------------------- MODULE MCManager -----------------------------
(***************************************************************************)
(* Instances of Manager for TLC.                                           *)
(***************************************************************************)
EXTENDS Manager, TLC

CONSTANTS a, b, c1, c2, s1, s2, p0, p1, h1, h2, k1

OneSubnetEach == [c \in Configs |-> IF c = c1 THEN {s1} ELSE {s2}]

(* Which faults each run allows, one of each kind, and how many in all. *)
Allow(ks, total) ==
  [k \in Kinds |-> IF k = "any" THEN total ELSE IF k \in ks THEN 1 ELSE 0]

BudgetSessions == Allow({"edit", "off", "slow", "ill", "gone"}, 2)
BudgetConfigs  == Allow({"edit", "off", "xl2tpd", "ctl", "tail", "dns"}, 3)
BudgetOutages  ==
  Allow({"charon", "load", "ike", "xl2tpd", "link", "net", "off", "late"}, 2)
BudgetRestart  == Allow({"charon", "slow"}, 2)

(* Interfaces and hook goroutines are interchangeable. *)
Symmetry == Permutations(Ifaces) \cup Permutations(Hooks)

(* The first quiet state after boot: both daemons are up and have reported *)
(* it, and the reconciler has not run yet.                                 *)
InitBooted ==
  /\ conns = [n \in Names |-> c1]
  /\ resolves = TRUE
  /\ tunnels = Nothing /\ stale = Nothing /\ rendered = Nothing
  /\ advertised = {}
  /\ rpc = "idle" /\ snap = Nothing /\ want = Nothing /\ todo = {}
  /\ frame = [p \in Procs |-> Idle]
  /\ status = [n \in Names |-> "disconnected"]
  /\ disk = [n \in Names |-> Fingerprint(c1, c1)]
  /\ charon = "ready" /\ loaded = Nothing /\ sas = {}
  /\ xl2tpd = "ready" /\ lacs = conns
  /\ calls = [n \in Names |-> "idle"]
  /\ owed = {}
  /\ ppp = [i \in Ifaces |-> None]
  /\ routes = [s \in Subnets |-> None]
  /\ nat = {}
  /\ spent = [k \in Kinds |-> 0]

(* The state main leaves after Prerender, with every connection enabled. *)
InitStart == Init /\ conns = [n \in Names |-> c1]

SpecStart  == InitStart /\ [][Next]_vars
SpecBooted == InitBooted /\ [][Next]_vars
FairBooted == SpecBooted /\ Fairness
=============================================================================
