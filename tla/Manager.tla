------------------------------- MODULE Manager -------------------------------
(***************************************************************************)
(* The tunnel manager of tsv-vpn (internal/tunnel): one reconciler         *)
(* goroutine makes the running tunnels follow the connections stored in    *)
(* SQLite, while pppd's ip-up/ip-down hooks, the health checker and the    *)
(* daemon supervisor call into it from goroutines of their own.            *)
(*                                                                         *)
(* An action is one section of code between two points where another       *)
(* goroutine or process can be seen: a critical section of Manager.mu, one *)
(* external command, or one read of the database.  A call in progress is a *)
(* frame: frame[p] says which function process p is executing, where it    *)
(* is, and the values it read before it released the lock.                 *)
(*                                                                         *)
(* What is around the manager (the operator, DNS, charon, xl2tpd, pppd,    *)
(* the kernel) is modelled by what the manager can see of it.  A fault of  *)
(* kind k happens at most Budget[k] times, and all of them together at     *)
(* most Budget["any"] times; spent counts them.                            *)
(***************************************************************************)
EXTENDS Naturals, FiniteSets

CONSTANTS
  Names,      \* connection names
  Configs,    \* the contents a connection row and its secrets may have
  Subnets,    \* remote subnets
  SubnetsOf,  \* the remote subnets of each member of Configs
  Ifaces,     \* the ppp interfaces
  Hooks,      \* goroutines that serve the hook listener
  Checks,     \* goroutines that run health checks: the ticker's, and requests'
  None,       \* no value: an absent map entry, the empty interface name
  Budget      \* how often a fault of each kind may happen

Rec == "reconciler"
Procs == Hooks \cup Checks \cup {Rec}

(***************************************************************************)
(* Fault kinds.  edit, off: the operator edits (or enables) a connection,  *)
(* or disables one; dns: the gateway name starts or stops resolving;       *)
(* charon, xl2tpd: the daemon exits; load: writing the files or swanctl    *)
(* --load-all fails; ctl: xl2tpd-control fails; ike: swanctl --initiate    *)
(* fails; net: an ip or iptables command fails; late: curl -m 5 gives up   *)
(* on a hook; link: the peer drops a ppp session; slow: a timer fires      *)
(* before the event it is meant to outlast; ill: a health check trips;     *)
(* gone: the browser leaves a check request; tail: tailscale set fails.    *)
(***************************************************************************)
Kinds == {"edit", "off", "dns", "charon", "xl2tpd", "load", "ctl", "ike",
          "net", "late", "link", "slow", "ill", "gone", "tail", "any"}

Phases == {"disconnected", "connecting", "up", "failed"}

(* What fingerprintsOf distinguishes: the row ListConnections returned, the *)
(* row whose secrets ConnectionSecrets read a moment later, and whether the *)
(* gateway resolved.                                                        *)
Rendering == [row: Configs, secret: Configs, addr: BOOLEAN]

(* type state struct.  wait: the dial timeout (while connecting) or the     *)
(* backoff (otherwise) still has to run; the other one is dead in that      *)
(* phase, as every write that changes the phase also sets its timer.        *)
Tunnel == [phase: Phases, iface: Ifaces \cup {None},
           subnets: SUBSET Subnets, wait: BOOLEAN]

(* A pppd: new until it runs ip-up, dead once its device is gone and ip-down *)
(* is still to run; hup when xl2tpd has told it to go.                       *)
Link == [name: Names, st: {"new", "open", "dead"}, hup: BOOLEAN]

(* A call in progress.  obj says where the *state object it points to is    *)
(* now: in the map, among the stale ones disconnect has not read yet, or    *)
(* nowhere anybody will read again.  live: its context is not cancelled.    *)
Ops == {"idle", "up", "down", "fail", "disconnect", "drop", "dial"}

Points == {"idle", "routes", "nat", "up", "probe", "lookup", "unroute", "unnat",
           "failed", "down", "hangup", "remove", "add", "terminate",
           "initiate", "connect", "connecting", "dialfailed", "say"}

Frame == [op: Ops, pc: Points, name: Names \cup {None},
          iface: Ifaces \cup {None}, subnets: SUBSET Subnets,
          obj: {"map", "stale", "gone"}, say: Phases, live: BOOLEAN]

ASSUME ConstantsAssumption ==
  /\ SubnetsOf \in [Configs -> SUBSET Subnets]
  /\ Budget \in [Kinds -> Nat]
  /\ IsFiniteSet(Names)

ASSUME DistinctAssumption ==
  /\ None \notin Names \cup Configs \cup Ifaces \cup Rendering \cup Tunnel \cup Link
  /\ Hooks \cap Checks = {} /\ Rec \notin Hooks \cup Checks

VARIABLES
  conns,      \* the database: configuration of each enabled connection
  resolves,   \* the gateway names resolve
  tunnels,    \* m.tunnels
  stale,      \* objects staleTunnels took out of the map, not yet disconnected
  rendered,   \* m.rendered
  advertised, \* m.advertised, and what tailscaled was last told
  rpc,        \* how far the pass of Reconcile has come
  snap,       \* the enabled connections this pass works from
  want,       \* the fingerprints this pass wants
  todo,       \* the names its current loop has left
  frame,      \* the calls in progress
  status,     \* connection_status.state
  disk,       \* the rendered files
  charon,     \* "down", "starting" (not listening yet), "ready"
  loaded,     \* connections charon has loaded
  sas,        \* IKE_SAs charon has
  xl2tpd,     \* as charon
  lacs,       \* the LACs xl2tpd has
  calls,      \* the L2TP call of each LAC
  owed,       \* daemons whose "started" line has not reached Invalidate
  ppp,        \* the pppd of each interface
  routes,     \* the interface each subnet is routed to
  nat,        \* interfaces that have iptables rules
  spent       \* faults so far

store    == <<conns, resolves>>
memory   == <<tunnels, stale>>
pass     == <<rpc, snap, want, todo>>
ike      == <<charon, loaded, sas>>
l2tp     == <<xl2tpd, lacs, calls>>
kernel   == <<routes, nat>>
vars == <<store, memory, rendered, advertised, pass, frame, status, disk,
          ike, l2tp, owed, ppp, kernel, spent>>

(* What each group of actions leaves alone. *)
outsidePass == <<store, status, charon, sas, l2tp, owed, ppp, kernel>>
outsideCall == <<store, rendered, advertised, pass, disk, ike, l2tp, owed,
  ppp>>
outsideCommand == <<store, memory, rendered, advertised, pass, status, disk,
  charon, loaded, xl2tpd, owed, kernel>>
outsideEvent == <<store, memory, advertised, pass, status, disk, nat>>
outsideOperator == <<stale, rendered, advertised, pass, status, disk, ike,
  l2tp, owed, ppp, kernel>>

Spend(k) ==
  /\ spent[k] < Budget[k] /\ spent["any"] < Budget["any"]
  /\ spent' = [spent EXCEPT ![k] = @ + 1, !["any"] = @ + 1]

Nothing == [n \in Names |-> None]
Keys(f) == {n \in Names : f[n] # None}

-----------------------------------------------------------------------------
(* Frames *)

Idle == [op |-> "idle", pc |-> "idle", name |-> None, iface |-> None,
         subnets |-> {}, obj |-> "gone", say |-> "disconnected", live |-> TRUE]

Call(op, pc, n, i, subnets, obj) ==
  [op |-> op, pc |-> pc, name |-> n, iface |-> i, subnets |-> subnets,
   obj |-> obj, say |-> "disconnected", live |-> TRUE]

At(p, pc) == frame[p].pc = pc
Goto(p, pc) == frame' = [frame EXCEPT ![p].pc = pc]
Return(p) == frame' = [frame EXCEPT ![p] = Idle]
Say(p, phase) == frame' = [frame EXCEPT ![p].pc = "say", ![p].say = phase]

(* Mutant: disconnect trusts terminate to end the session. *)
AfterTearDown_NoControl(op) ==
  CASE op = "fail"       -> "failed"
    [] op = "down"       -> "down"
    [] op = "disconnect" -> "terminate"
    [] OTHER             -> "hangup"

(* What follows tearDownInterface in each function that calls it. *)
AfterTearDown(op) ==
  CASE op = "fail" -> "failed"
    [] op = "down" -> "down"
    [] OTHER       -> "hangup"

(* Mutant: PPPDown leaves the rules to the interface that vanished. *)
TearDown_DownSkips(op, i) ==
  IF i = None \/ op = "down" THEN AfterTearDown(op) ELSE "unroute"

(* Every caller skips tearDownInterface when it knows no interface. *)
TearDown(op, i) == IF i = None THEN AfterTearDown(op) ELSE "unroute"

(* A write through the frame's *state pointer: it reaches the map only if  *)
(* the object is still there.                                              *)
Target(p) ==
  IF frame[p].obj = "map" THEN tunnels[frame[p].name] ELSE stale[frame[p].name]

Put(p, phase, i, wait) ==
  LET t == [phase |-> phase, iface |-> i, subnets |-> Target(p).subnets,
            wait |-> wait]
      n == frame[p].name
  IN /\ tunnels' = IF frame[p].obj = "map"
                   THEN [tunnels EXCEPT ![n] = t] ELSE tunnels
     /\ stale'   = IF frame[p].obj = "stale"
                   THEN [stale EXCEPT ![n] = t] ELSE stale

-----------------------------------------------------------------------------
(* Initial state: main has run Prerender and starts the daemons. *)

Fingerprint(row, secret) == [row |-> row, secret |-> secret, addr |-> resolves]

Init ==
  /\ conns \in [Names -> Configs \cup {None}]
  /\ resolves = TRUE
  /\ tunnels = Nothing
  /\ stale = Nothing
  /\ rendered = Nothing
  /\ advertised = {}
  /\ rpc = "idle"
  /\ snap = Nothing
  /\ want = Nothing
  /\ todo = {}
  /\ frame = [p \in Procs |-> Idle]
  /\ status = [n \in Names |-> "disconnected"]
  /\ disk = [n \in Names |-> IF conns[n] = None THEN None
                             ELSE Fingerprint(conns[n], conns[n])]
  /\ charon = "down" /\ loaded = Nothing /\ sas = {}
  /\ xl2tpd = "down" /\ lacs = Nothing
  /\ calls = [n \in Names |-> "idle"]
  /\ owed = {}
  /\ ppp = [i \in Ifaces |-> None]
  /\ routes = [s \in Subnets |-> None]
  /\ nat = {}
  /\ spent = [k \in Kinds |-> 0]

-----------------------------------------------------------------------------
(* The pass: Reconcile *)

Resting(p) == frame[p] = Idle

EndPass ==
  /\ rpc' = "idle" /\ snap' = Nothing /\ want' = Nothing /\ todo' = {}

Orphans == {n \in Names : conns[n] = None /\ tunnels[n] # None}

(* Frames that point to an object that moves from one place to another. *)
Moved(from, to, ns) ==
  [p \in Procs |-> IF frame[p].obj = from /\ frame[p].name \in ns
                   THEN [frame[p] EXCEPT !.obj = to] ELSE frame[p]]

(* ListConnections and staleTunnels. *)
StartPass ==
  /\ rpc = "idle"
  /\ rpc' = "disconnect"
  /\ snap' = conns
  /\ stale' = [n \in Names |-> IF n \in Orphans THEN tunnels[n] ELSE None]
  /\ tunnels' = [n \in Names |-> IF n \in Orphans THEN None ELSE tunnels[n]]
  /\ frame' = Moved("map", "stale", Orphans)
  /\ UNCHANGED <<outsidePass, rendered, advertised, want, todo, disk, loaded, spent>>

(* disconnect: the snapshot of iface and subnets under the lock. *)
Disconnect(n) ==
  /\ rpc = "disconnect" /\ Resting(Rec) /\ stale[n] # None
  /\ stale' = [stale EXCEPT ![n] = None]
  /\ frame' = [Moved("stale", "gone", {n}) EXCEPT ![Rec] =
                 Call("disconnect", TearDown("disconnect", stale[n].iface), n,
                      stale[n].iface, stale[n].subnets, "gone")]
  /\ UNCHANGED <<outsidePass, tunnels, rendered, advertised, pass, disk, loaded, spent>>

(* Mutant: the fingerprint leaves the secrets out. *)
ChangedTunnels_NoSecret(have, wanted) ==
  {n \in Names : wanted[n] # None /\
     (have[n] = None \/ have[n].row # wanted[n].row
                    \/ have[n].addr # wanted[n].addr)}

ChangedTunnels(have, wanted) ==
  {n \in Names : wanted[n] # None /\ have[n] # wanted[n]}

(* Mutant: the early return forgets connections that went away. *)
Skips_NoLength(have, wanted) == ChangedTunnels(have, wanted) = {}

(* The early return of writeConfigs compares the changed names and the     *)
(* number of fingerprints only.                                            *)
Skips(have, wanted) ==
  /\ ChangedTunnels(have, wanted) = {}
  /\ Cardinality(Keys(have)) = Cardinality(Keys(wanted))

(* desiredTunnels: the secrets and the address are read after the row. *)
Desired ==
  [n \in Names |->
     IF snap[n] = None THEN None
     ELSE Fingerprint(snap[n], IF conns[n] = None THEN snap[n] ELSE conns[n])]

(* writeConfigs up to its early return.  A connection deleted since the    *)
(* snapshot has no secrets to read: desiredTunnels fails, and the pass.    *)
Render ==
  /\ rpc = "disconnect" /\ Resting(Rec) /\ stale = Nothing
  /\ \/ /\ want' = Desired
        /\ rpc' = IF Skips(rendered, want') THEN "step" ELSE "write"
        /\ todo' = IF Skips(rendered, want') THEN Keys(snap)
                   ELSE ChangedTunnels(rendered, want')
        /\ snap' = snap
     \/ /\ \E n \in Names : snap[n] # None /\ conns[n] = None
        /\ EndPass
  /\ UNCHANGED <<outsidePass, memory, rendered, advertised, frame, disk, loaded, spent>>

(* Write replaces the files one by one; a failure may leave either version. *)
WriteFiles ==
  /\ rpc = "write"
  /\ \/ /\ disk' = want
        /\ rpc' = "load"
        /\ UNCHANGED <<snap, want, todo, spent>>
     \/ /\ Spend("load")
        /\ disk' \in {disk, want}
        /\ EndPass
  /\ UNCHANGED <<outsidePass, memory, rendered, advertised, frame, loaded>>

(* swanctl --load-all: charon takes what the files say and unloads the rest. *)
LoadAll ==
  /\ rpc = "load"
  /\ \/ /\ charon = "ready"
        /\ loaded' = disk
        /\ rpc' = "commit"
        /\ UNCHANGED <<snap, want, todo, spent>>
     \/ /\ charon # "ready"
        /\ EndPass
        /\ UNCHANGED <<loaded, spent>>
     \/ /\ charon = "ready"
        /\ Spend("load")
        /\ loaded' \in {loaded, disk}
        /\ EndPass
  /\ UNCHANGED <<outsidePass, memory, rendered, advertised, frame, disk>>

Commit ==
  /\ rpc = "commit"
  /\ rendered' = want
  /\ rpc' = "drop"
  /\ UNCHANGED <<outsidePass, memory, advertised, snap, want, todo, frame, disk, loaded, spent>>

(* drop, then Remove and Add of the LAC; a tunnel the map does not have is *)
(* only pushed.                                                            *)
Dropped(t) == [t EXCEPT !.phase = "disconnected", !.iface = None, !.wait = FALSE]

Drop(n) ==
  /\ rpc = "drop" /\ Resting(Rec) /\ n \in todo
  /\ todo' = todo \ {n}
  /\ IF tunnels[n] = None
     THEN /\ frame' = [frame EXCEPT ![Rec] =
                         Call("drop", "remove", n, None, {}, "gone")]
          /\ tunnels' = tunnels
     ELSE /\ frame' = [frame EXCEPT ![Rec] =
                         Call("drop", TearDown("drop", tunnels[n].iface), n,
                              tunnels[n].iface, tunnels[n].subnets, "map")]
          /\ tunnels' = [tunnels EXCEPT ![n] = Dropped(@)]
  /\ UNCHANGED <<outsidePass, stale, rendered, advertised, rpc, snap, want, disk, loaded, spent>>

StepAll ==
  /\ rpc = "drop" /\ Resting(Rec) /\ todo = {}
  /\ rpc' = "step"
  /\ todo' = Keys(snap)
  /\ UNCHANGED <<outsidePass, memory, rendered, advertised, snap, want, frame, disk, loaded, spent>>

(* Mutant: a dial never times out. *)
Stepped_NoTimeout(n, t) ==
  IF t.phase \in {"up", "connecting"} \/ t.wait THEN Idle
  ELSE Call("dial", "hangup", n, None, {}, "map")

(* Mutant: the backoff is not looked at. *)
Stepped_NoBackoff(n, t) ==
  IF t.phase = "up" \/ (t.phase = "connecting" /\ t.wait) THEN Idle
  ELSE IF t.phase = "connecting"
       THEN Call("fail", "lookup", n, t.iface, {}, "map")
       ELSE Call("dial", "hangup", n, None, {}, "map")

(* step: what to do is decided from the phase and the timer read under the *)
(* lock, and done after it is released.                                    *)
Stepped(n, t) ==
  IF t.phase = "up" \/ t.wait THEN Idle
  ELSE IF t.phase = "connecting"
       THEN Call("fail", "lookup", n, t.iface, {}, "map")
       ELSE Call("dial", "hangup", n, None, {}, "map")

(* Mutant: the phase of a new tunnel is left at its zero value. *)
NewTunnel_NoPhase ==
  [phase |-> "", iface |-> None, subnets |-> {}, wait |-> FALSE]

NewTunnel ==
  [phase |-> "disconnected", iface |-> None, subnets |-> {}, wait |-> FALSE]

Step(n) ==
  /\ rpc = "step" /\ Resting(Rec) /\ n \in todo
  /\ todo' = todo \ {n}
  /\ LET old == IF tunnels[n] # None THEN tunnels[n] ELSE NewTunnel
         t == [old EXCEPT !.subnets = SubnetsOf[snap[n]]]
     IN /\ tunnels' = [tunnels EXCEPT ![n] = t]
        /\ frame' = [frame EXCEPT ![Rec] = Stepped(n, t)]
  /\ UNCHANGED <<outsidePass, stale, rendered, advertised, rpc, snap, want, disk, loaded, spent>>

(* advertise.  It reads the database again, so it may be ahead of snap.    *)
AdvertisedRoutes == UNION {SubnetsOf[conns[n]] : n \in Keys(conns)}

Advertise ==
  /\ rpc = "step" /\ Resting(Rec) /\ todo = {}
  /\ EndPass
  /\ \/ advertised' = AdvertisedRoutes /\ spent' = spent
     \/ advertised # AdvertisedRoutes /\ Spend("tail") /\ advertised' = advertised
  /\ UNCHANGED <<outsidePass, memory, rendered, frame, disk, loaded>>

-----------------------------------------------------------------------------
(* Commands and critical sections of the calls in progress *)

(* "ip route del" takes only a route that goes out there. *)
Removed(i, subnets) ==
  [s \in Subnets |-> IF s \in subnets /\ routes[s] = i THEN None ELSE routes[s]]

(* removeRoutes: an error other than alreadyGone stops the loop. *)
RemoveRoutes(p) ==
  /\ At(p, "unroute")
  /\ Goto(p, "unnat")
  /\ \/ /\ frame[p].live
        /\ routes' = Removed(frame[p].iface, frame[p].subnets)
        /\ spent' = spent
     \/ /\ frame[p].live /\ Spend("net")
        /\ \E done \in SUBSET frame[p].subnets : routes' = Removed(frame[p].iface, done)
     \/ /\ ~frame[p].live /\ UNCHANGED <<routes, spent>>
  /\ UNCHANGED <<outsideCall, memory, status, nat>>

DisableNAT(p) ==
  /\ At(p, "unnat")
  /\ Goto(p, AfterTearDown(frame[p].op))
  /\ \/ frame[p].live /\ nat' = nat \ {frame[p].iface} /\ spent' = spent
     \/ frame[p].live /\ Spend("net") /\ nat' = nat
     \/ ~frame[p].live /\ UNCHANGED <<nat, spent>>
  /\ UNCHANGED <<outsideCall, memory, status, routes>>

Alive(i) == ppp[i] # None /\ ppp[i].st # "dead"

Routed(i, subnets) == [s \in Subnets |-> IF s \in subnets THEN i ELSE routes[s]]

Unwind(p) == frame' = [frame EXCEPT ![p].op = "fail", ![p].pc = "lookup"]

(* addRoutes: "ip route replace", subnet by subnet. *)
AddRoutes(p) ==
  LET f == frame[p] IN
  /\ At(p, "routes")
  /\ \/ /\ f.live /\ (Alive(f.iface) \/ f.subnets = {})
        /\ routes' = Routed(f.iface, f.subnets)
        /\ Goto(p, "nat")
        /\ spent' = spent
     \/ /\ ~f.live \/ (~Alive(f.iface) /\ f.subnets # {})
        /\ Unwind(p)
        /\ UNCHANGED <<routes, spent>>
     \/ /\ f.live /\ Alive(f.iface) /\ Spend("net")
        /\ \E done \in SUBSET f.subnets : routes' = Routed(f.iface, done)
        /\ Unwind(p)
  /\ UNCHANGED <<outsideCall, memory, status, nat>>

EnableNAT(p) ==
  LET f == frame[p] IN
  /\ At(p, "nat")
  /\ \/ /\ f.live
        /\ nat' = nat \cup {f.iface}
        /\ Goto(p, "up")
        /\ spent' = spent
     \/ /\ ~f.live /\ Unwind(p) /\ UNCHANGED <<nat, spent>>
     \/ /\ f.live /\ Spend("net")
        /\ nat' \in {nat, nat \cup {f.iface}}
        /\ Unwind(p)
  /\ UNCHANGED <<outsideCall, memory, status, routes>>

(* The second critical sections of PPPUp, PPPDown and fail, and dial's. *)
Came(p) ==
  /\ At(p, "up")
  /\ Put(p, "up", frame[p].iface, FALSE)
  /\ Say(p, "up")

(* Mutant: PPPDown forgets the interface and keeps the phase. *)
Went_KeepsPhase(p) ==
  /\ At(p, "down")
  /\ Put(p, Target(p).phase, None, TRUE)
  /\ Say(p, "disconnected")

Went(p) ==
  /\ At(p, "down")
  /\ Put(p, "disconnected", None, TRUE)
  /\ Say(p, "disconnected")

Failed(p) ==
  /\ At(p, "failed")
  /\ Put(p, "failed", None, TRUE)
  /\ Say(p, "failed")

Connecting(p) ==
  /\ At(p, "connecting")
  /\ Put(p, "connecting", Target(p).iface, TRUE)
  /\ Say(p, "connecting")

DialFailed(p) ==
  /\ At(p, "dialfailed")
  /\ Put(p, "failed", Target(p).iface, TRUE)
  /\ Say(p, "failed")

SetPhase(p) ==
  /\ Came(p) \/ Went(p) \/ Failed(p) \/ Connecting(p) \/ DialFailed(p)
  /\ UNCHANGED <<outsideCall, status, kernel, spent>>

(* Store.SetStatus, after the lock is released.  drop returns to the loop  *)
(* that pushes the LAC.                                                    *)
SetStatus(p) ==
  /\ At(p, "say")
  /\ status' = [status EXCEPT ![frame[p].name] = frame[p].say]
  /\ IF frame[p].op = "drop" THEN Goto(p, "remove") ELSE Return(p)
  /\ UNCHANGED <<outsideCall, memory, kernel, spent>>

(* Unhealthy's own lookup, then the one fail makes. *)
Unhealthy(p) ==
  /\ At(p, "probe")
  /\ LET t == tunnels[frame[p].name] IN
     IF t = None THEN Return(p)
     ELSE frame' = [frame EXCEPT ![p].pc = "lookup", ![p].iface = t.iface]
  /\ UNCHANGED <<outsideCall, memory, status, kernel, spent>>

Fail(p) ==
  /\ At(p, "lookup")
  /\ LET t == tunnels[frame[p].name] IN
     IF t = None THEN Return(p)
     ELSE frame' = [frame EXCEPT ![p].pc = TearDown("fail", frame[p].iface),
                                 ![p].subnets = t.subnets, ![p].obj = "map"]
  /\ UNCHANGED <<outsideCall, memory, status, kernel, spent>>

-----------------------------------------------------------------------------
(* The reconciler's commands to xl2tpd and charon *)

(* A control command fails when xl2tpd is not listening on its pipe, and   *)
(* may fail when it is.                                                    *)
CtlFails == \/ xl2tpd # "ready" /\ spent' = spent
            \/ xl2tpd = "ready" /\ Spend("ctl")

HangUp(n) ==
  /\ calls' = [calls EXCEPT ![n] = "idle"]
  /\ ppp' = [i \in Ifaces |->
               IF ppp[i] # None /\ ppp[i].name = n
               THEN [ppp[i] EXCEPT !.hup = TRUE] ELSE ppp[i]]

(* What follows Control.Disconnect and Control.Remove in each function. *)
AfterHangUp(op) ==
  CASE op = "dial"       -> "initiate"
    [] op = "disconnect" -> "remove"
    [] OTHER             -> "terminate"

AfterRemove(op) == IF op = "disconnect" THEN "terminate" ELSE "add"

ControlDisconnect ==
  /\ At(Rec, "hangup")
  /\ Goto(Rec, AfterHangUp(frame[Rec].op))
  /\ \/ xl2tpd = "ready" /\ HangUp(frame[Rec].name) /\ spent' = spent
     \/ CtlFails /\ UNCHANGED <<calls, ppp>>
  /\ UNCHANGED <<outsideCommand, sas, lacs>>

ControlRemove ==
  /\ At(Rec, "remove")
  /\ Goto(Rec, AfterRemove(frame[Rec].op))
  /\ \/ /\ xl2tpd = "ready" /\ spent' = spent
        /\ lacs' = [lacs EXCEPT ![frame[Rec].name] = None]
        /\ HangUp(frame[Rec].name)
     \/ CtlFails /\ UNCHANGED <<lacs, calls, ppp>>
  /\ UNCHANGED <<outsideCommand, sas>>

(* xl2tpd ignores an add for a LAC it already has. *)
ControlAdd ==
  LET n == frame[Rec].name IN
  /\ At(Rec, "add")
  /\ Return(Rec)
  /\ \/ /\ xl2tpd = "ready" /\ spent' = spent
        /\ lacs' = IF lacs[n] = None THEN [lacs EXCEPT ![n] = want[n].row]
                   ELSE lacs
     \/ CtlFails /\ lacs' = lacs
  /\ UNCHANGED <<outsideCommand, sas, calls, ppp>>

(* swanctl --terminate; its failure is only logged. *)
Terminate ==
  /\ At(Rec, "terminate")
  /\ Goto(Rec, "say")
  /\ \/ sas' = sas \ {frame[Rec].name} /\ spent' = spent
     \/ sas' = sas /\ Spend("ike")
  /\ UNCHANGED <<outsideCommand, lacs, calls, ppp>>

Initiate ==
  LET n == frame[Rec].name IN
  /\ At(Rec, "initiate")
  /\ \/ /\ charon = "ready" /\ loaded[n] # None
        /\ sas' = sas \cup {n}
        /\ Goto(Rec, "connect")
        /\ spent' = spent
     \/ /\ \/ (charon # "ready" \/ loaded[n] = None) /\ spent' = spent
           \/ charon = "ready" /\ loaded[n] # None /\ Spend("ike")
        /\ sas' = sas
        /\ Goto(Rec, "dialfailed")
  /\ UNCHANGED <<outsideCommand, lacs, calls, ppp>>

ControlConnect ==
  LET n == frame[Rec].name IN
  /\ At(Rec, "connect")
  /\ \/ /\ xl2tpd = "ready" /\ lacs[n] # None
        /\ calls' = IF calls[n] = "idle" THEN [calls EXCEPT ![n] = "dialing"]
                    ELSE calls
        /\ Goto(Rec, "connecting")
        /\ spent' = spent
     \/ /\ (xl2tpd = "ready" /\ lacs[n] = None /\ spent' = spent) \/ CtlFails
        /\ calls' = calls
        /\ Goto(Rec, "dialfailed")
  /\ UNCHANGED <<outsideCommand, sas, lacs, ppp>>

-----------------------------------------------------------------------------
(* Calls from outside *)

(* pppd runs ip-up: PPPUp finds its tunnel, or reports an unknown one. *)
PPPUp(i, h) ==
  /\ ppp[i] # None /\ ppp[i].st = "new" /\ Resting(h)
  /\ ppp' = [ppp EXCEPT ![i].st = "open"]
  /\ LET n == ppp[i].name IN
     frame' = IF tunnels[n] = None THEN frame
              ELSE [frame EXCEPT ![h] =
                      Call("up", "routes", n, i, tunnels[n].subnets, "map")]
  /\ UNCHANGED <<outsideEvent, rendered, ike, l2tp, owed, routes, spent>>

(* The ip-up script of this pppd is still waiting for its answer. *)
InScript(i) ==
  \E h \in Hooks : /\ frame[h].live /\ frame[h].iface = i
                   /\ frame[h].op \in {"up", "fail"}

(* pppd runs ip-down, after its ip-up script; its interface number is free. *)
PPPDown(i, h) ==
  /\ ppp[i] # None /\ ppp[i].st = "dead" /\ ~InScript(i) /\ Resting(h)
  /\ ppp' = [ppp EXCEPT ![i] = None]
  /\ LET n == ppp[i].name IN
     frame' = IF tunnels[n] = None THEN frame
              ELSE [frame EXCEPT ![h] =
                      Call("down", TearDown("down", i), n, i,
                           tunnels[n].subnets, "map")]
  /\ UNCHANGED <<outsideEvent, rendered, ike, l2tp, owed, routes, spent>>

(* curl -m 5 gives up: the request's context is cancelled, so every later  *)
(* command of the handler fails, and pppd goes on.                         *)
Abandon(h) ==
  /\ ~Resting(h) /\ frame[h].live /\ Spend("late")
  /\ frame' = [frame EXCEPT ![h].live = FALSE]
  /\ UNCHANGED <<outsideEvent, rendered, ike, l2tp, owed, ppp, routes>>

(* The ticker or the check button saw an up tunnel fail its third ping in  *)
(* a row.                                                                  *)
Trip(c, n) ==
  /\ Resting(c) /\ tunnels[n] # None
  /\ tunnels[n].phase = "up" /\ tunnels[n].iface # None /\ Spend("ill")
  /\ frame' = [frame EXCEPT ![c] = Call("fail", "probe", n, None, {}, "gone")]
  /\ UNCHANGED <<outsideEvent, rendered, ike, l2tp, owed, ppp, routes>>

(* The browser of a check request goes away: the request's context, which  *)
(* checkConnection hands down to Unhealthy and fail, is cancelled.         *)
Leave(c) ==
  /\ ~Resting(c) /\ frame[c].live /\ Spend("gone")
  /\ frame' = [frame EXCEPT ![c].live = FALSE]
  /\ UNCHANGED <<outsideEvent, rendered, ike, l2tp, owed, ppp, routes>>

(* Mutant: it only nudges. *)
Invalidate_NudgeOnly(d) ==
  /\ d \in owed
  /\ owed' = owed \ {d}
  /\ rendered' = rendered
  /\ UNCHANGED <<outsideEvent, frame, ike, l2tp, ppp, routes, spent>>

(* The supervisor's "started" line of a daemon reaches the manager. *)
Invalidate(d) ==
  /\ d \in owed
  /\ owed' = owed \ {d}
  /\ rendered' = Nothing
  /\ UNCHANGED <<outsideEvent, frame, ike, l2tp, ppp, routes, spent>>

-----------------------------------------------------------------------------
(* The surroundings *)

Edit(n, c) ==
  /\ conns[n] # c /\ Spend("edit")
  /\ conns' = [conns EXCEPT ![n] = c]
  /\ UNCHANGED <<outsideOperator, resolves, tunnels, frame>>

SwitchOff(n) ==
  /\ conns[n] # None /\ Spend("off")
  /\ conns' = [conns EXCEPT ![n] = None]
  /\ UNCHANGED <<outsideOperator, resolves, tunnels, frame>>

Flap ==
  /\ Spend("dns") /\ resolves' = ~resolves
  /\ UNCHANGED <<outsideOperator, conns, tunnels, frame>>

(* The supervisor waits a second before it restarts what exited, and       *)
(* reports the start at once: both outlast a step of the manager.          *)
CharonStarts ==
  /\ charon = "down" /\ charon' = "starting"
  /\ owed' = owed \cup {"charon"}
  /\ IF rpc = "commit" THEN Spend("slow") ELSE spent' = spent
  /\ UNCHANGED <<outsideEvent, rendered, frame, loaded, sas, l2tp, ppp, routes>>

CharonReady ==
  /\ charon = "starting" /\ charon' = "ready"
  /\ IF "charon" \in owed THEN Spend("slow") ELSE spent' = spent
  /\ UNCHANGED <<outsideEvent, rendered, frame, loaded, sas, l2tp, owed, ppp,
                 routes>>

CharonExits ==
  /\ charon = "ready" /\ Spend("charon")
  /\ charon' = "down" /\ loaded' = Nothing /\ sas' = {}
  /\ UNCHANGED <<outsideEvent, rendered, frame, l2tp, owed, ppp, routes>>

Xl2tpdStarts ==
  /\ xl2tpd = "down" /\ xl2tpd' = "starting"
  /\ owed' = owed \cup {"xl2tpd"}
  /\ UNCHANGED <<outsideEvent, rendered, frame, ike, lacs, calls, ppp, routes, spent>>

(* It reads xl2tpd.conf, which defines a LAC for every rendered tunnel. *)
Xl2tpdReady ==
  /\ xl2tpd = "starting" /\ xl2tpd' = "ready"
  /\ lacs' = [n \in Names |-> IF disk[n] = None THEN None ELSE disk[n].row]
  /\ UNCHANGED <<outsideEvent, rendered, frame, ike, calls, owed, ppp, routes, spent>>

Xl2tpdExits ==
  /\ xl2tpd = "ready" /\ Spend("xl2tpd")
  /\ xl2tpd' = "down" /\ lacs' = Nothing
  /\ calls' = [n \in Names |-> "idle"]
  /\ ppp' = [i \in Ifaces |-> IF ppp[i] = None THEN None
                              ELSE [ppp[i] EXCEPT !.hup = TRUE]]
  /\ UNCHANGED <<outsideEvent, rendered, frame, ike, owed, routes>>

(* The call gets through (gateways drop L2TP outside an SA): pppd starts. *)
SessionUp(n, i) ==
  /\ calls[n] = "dialing" /\ n \in sas /\ ppp[i] = None
  /\ calls' = [calls EXCEPT ![n] = "up"]
  /\ ppp' = [ppp EXCEPT ![i] = [name |-> n, st |-> "new", hup |-> FALSE]]
  /\ UNCHANGED <<outsideEvent, rendered, frame, ike, xl2tpd, lacs, owed, routes, spent>>

(* The device goes and takes its routes with it, not its iptables rules.   *)
(* A session that was not hung up is redialled by xl2tpd ("redial=yes")    *)
(* until it has had enough.                                                *)
LinkDies(i) ==
  /\ ppp[i] # None /\ ppp[i].st = "open"
  /\ LET n == ppp[i].name IN
     IF ppp[i].hup THEN calls' = calls /\ spent' = spent
     ELSE /\ IF n \in sas THEN Spend("link") ELSE spent' = spent
          /\ \E c \in {"idle", "dialing"} : calls' = [calls EXCEPT ![n] = c]
  /\ ppp' = [ppp EXCEPT ![i].st = "dead"]
  /\ routes' = [s \in Subnets |-> IF routes[s] = i THEN None ELSE routes[s]]
  /\ UNCHANGED <<outsideEvent, rendered, frame, ike, xl2tpd, lacs, owed>>

(* An event of n that its timers are long enough to outlast: 5 s of curl   *)
(* against 10 s of backoff, the negotiation against 60 s of dialling.      *)
Pending(n) ==
  \/ \E h \in Hooks : frame[h].live /\ frame[h].name = n
  \/ \E i \in Ifaces : /\ ppp[i] # None /\ ppp[i].name = n
                       /\ ppp[i].st # "open" \/ ppp[i].hup
  \/ calls[n] = "dialing" /\ n \in sas /\ \E i \in Ifaces : ppp[i] = None

Elapse(n) ==
  /\ tunnels[n] # None /\ tunnels[n].wait
  /\ IF Pending(n) THEN Spend("slow") ELSE spent' = spent
  /\ tunnels' = [tunnels EXCEPT ![n].wait = FALSE]
  /\ UNCHANGED <<outsideOperator, store, frame>>

-----------------------------------------------------------------------------
(* The specification *)

Pass ==
  \/ StartPass \/ Render \/ WriteFiles \/ LoadAll \/ Commit \/ StepAll
  \/ Advertise
  \/ \E n \in Names : Disconnect(n) \/ Drop(n) \/ Step(n)

Command ==
  \/ ControlDisconnect \/ ControlRemove \/ ControlAdd \/ Terminate
  \/ Initiate \/ ControlConnect

Continue(p) ==
  \/ RemoveRoutes(p) \/ DisableNAT(p) \/ AddRoutes(p) \/ EnableNAT(p)
  \/ SetPhase(p) \/ SetStatus(p) \/ Unhealthy(p) \/ Fail(p)

Daemons ==
  \/ CharonStarts \/ CharonReady \/ CharonExits
  \/ Xl2tpdStarts \/ Xl2tpdReady \/ Xl2tpdExits
  \/ \E d \in {"charon", "xl2tpd"} : Invalidate(d)

Sessions ==
  \/ \E n \in Names : \E i \in Ifaces : SessionUp(n, i)
  \/ \E i \in Ifaces : LinkDies(i)
  \/ \E i \in Ifaces : \E h \in Hooks : PPPUp(i, h) \/ PPPDown(i, h)
  \/ \E h \in Hooks : Abandon(h)

Operator ==
  \/ Flap
  \/ \E n \in Names : SwitchOff(n) \/ Elapse(n)
  \/ \E c \in Checks : Leave(c) \/ \E n \in Names : Trip(c, n)
  \/ \E n \in Names : \E c \in Configs : Edit(n, c)

Next ==
  \/ Pass \/ Command \/ Daemons \/ Sessions \/ Operator
  \/ \E p \in Procs : Continue(p)

Spec == Init /\ [][Next]_vars

(* The goroutines and processes whose steps are fair.  The reconciler and  *)
(* a pppd are sequential, and the supervisor's goroutines have only        *)
(* finitely many steps to take after the last fault.                       *)
Reconciler == Pass \/ Command \/ Continue(Rec)
Supervisors ==
  \/ CharonStarts \/ CharonReady \/ Xl2tpdStarts \/ Xl2tpdReady
  \/ \E d \in {"charon", "xl2tpd"} : Invalidate(d)
Pppd(i) ==
  \/ \E h \in Hooks : PPPUp(i, h) \/ PPPDown(i, h)
  \/ LinkDies(i) /\ spent' = spent

(* The reconciler's loop has no exit, its commands and the handlers' have   *)
(* deadlines, the supervisor restarts what exits and reports it, timers     *)
(* fire, pppd runs its scripts, a call inside an SA gets through, and a     *)
(* session without its SA or its call dies.                                 *)
Fairness ==
  /\ WF_vars(Reconciler) /\ WF_vars(Supervisors)
  /\ \A p \in Procs \ {Rec} : WF_vars(Continue(p))
  /\ \A n \in Names : /\ WF_vars(Elapse(n) /\ spent' = spent)
                       /\ WF_vars(\E i \in Ifaces : SessionUp(n, i))
  /\ \A i \in Ifaces : WF_vars(Pppd(i))

FairSpec == Spec /\ Fairness

DataOK ==
  /\ conns \in [Names -> Configs \cup {None}] /\ resolves \in BOOLEAN
  /\ status \in [Names -> Phases]
  /\ rendered \in [Names -> Rendering \cup {None}]
  /\ disk \in [Names -> Rendering \cup {None}]
  /\ advertised \in SUBSET Subnets
  /\ spent \in [Kinds -> Nat]

MemoryOK ==
  /\ tunnels \in [Names -> Tunnel \cup {None}]
  /\ stale \in [Names -> Tunnel \cup {None}]

PassOK ==
  /\ rpc \in {"idle", "disconnect", "write", "load", "commit", "drop", "step"}
  /\ snap \in [Names -> Configs \cup {None}]
  /\ want \in [Names -> Rendering \cup {None}]
  /\ todo \in SUBSET Names

DaemonsOK ==
  /\ charon \in {"down", "starting", "ready"}
  /\ loaded \in [Names -> Rendering \cup {None}] /\ sas \in SUBSET Names
  /\ xl2tpd \in {"down", "starting", "ready"}
  /\ lacs \in [Names -> Configs \cup {None}]
  /\ calls \in [Names -> {"idle", "dialing", "up"}]
  /\ owed \in SUBSET {"charon", "xl2tpd"}

KernelOK ==
  /\ ppp \in [Ifaces -> Link \cup {None}]
  /\ routes \in [Subnets -> Ifaces \cup {None}]
  /\ nat \in SUBSET Ifaces

FramesOK == frame \in [Procs -> Frame]

TypeOK == DataOK /\ MemoryOK /\ PassOK /\ DaemonsOK /\ KernelOK /\ FramesOK

-----------------------------------------------------------------------------
(* Properties *)

(* disconnect of n is still to reach Control.Disconnect. *)
Releasing(n) ==
  /\ frame[Rec].op = "disconnect" /\ frame[Rec].name = n
  /\ frame[Rec].pc \in {"unroute", "unnat", "hangup"}

(* While every control command xl2tpd could hear was obeyed, a call or a   *)
(* ppp session that nobody has hung up belongs to a connection the manager *)
(* still keeps or is about to disconnect: no edit, disable, restart or     *)
(* hook leaves a session that no later pass of Reconcile would end.        *)
NoUnmanagedSession ==
  spent["ctl"] = 0 =>
    /\ \A n \in Names : calls[n] # "idle" =>
         tunnels[n] # None \/ stale[n] # None \/ Releasing(n)
    /\ \A i \in Ifaces :
         ppp[i] # None /\ ppp[i].st # "dead" /\ ~ppp[i].hup =>
           calls[ppp[i].name] = "up"

(* PPPDown has found the tunnel of n in the map and not yet written to it. *)
GoingDown(n) ==
  \E h \in Hooks : /\ frame[h].op = "down" /\ frame[h].name = n
                   /\ frame[h].obj = "map" /\ frame[h].pc # "say"

(* As long as no hook outlived its five seconds, a tunnel the manager calls *)
(* up has a pppd on the interface it recorded, or that pppd's PPPDown is on *)
(* its way to say otherwise.                                                *)
UpIsBacked ==
  spent["late"] = 0 =>
    \A n \in Names : tunnels[n] # None /\ tunnels[n].phase = "up" =>
      \/ GoingDown(n)
      \/ /\ tunnels[n].iface # None /\ ppp[tunnels[n].iface] # None
         /\ ppp[tunnels[n].iface].name = n

(* Whenever writeConfigs decides that nothing has to be rendered, the      *)
(* fingerprints it last committed are exactly the ones it wants, although  *)
(* it only compares the wanted names and two lengths.                      *)
SkipIsSound ==
  [][rpc = "disconnect" /\ rpc' = "step" => rendered = want']_vars

(* Unless a load failed after the files were written, or a control command *)
(* did, a pass that has come to dialling finds the files, charon and       *)
(* xl2tpd with the configuration it wants for every connection, or without *)
(* one (the daemon was restarted since): it never dials an older one.      *)
DialsWhatItWants ==
  /\ rpc = "step"
  /\ \A k \in {"load", "ctl", "charon"} : spent[k] = 0
  =>
    \A n \in Keys(snap) :
      /\ disk[n] = want[n]
      /\ loaded[n] \in {None, want[n]}
      /\ lacs[n] \in {None, want[n].row}

(* An interface with iptables rules has a pppd, or a call that is about to *)
(* remove them: the rules go when the interface does.                      *)
RulesHaveOwner ==
  \A i \in nat :
    \/ ppp[i] # None
    \/ \E p \in Procs : frame[p].iface = i /\ frame[p].pc \in {"unroute", "unnat"}

(* RulesHaveOwner holds while no connection is disabled, no hook outlives  *)
(* its five seconds and no ip or iptables command fails, whatever else     *)
(* happens: edits, health checks and lost links leave no rules behind.     *)
NoLeakedRules ==
  (\A k \in {"off", "late", "net"} : spent[k] = 0) => RulesHaveOwner

Works(n) ==
  LET t == tunnels[n] IN
  t # None /\ t.phase = "up" /\ ppp[t.iface] # None /\ ppp[t.iface].name = n

(* However the faults fall, but for a failed command to xl2tpd's control   *)
(* file, once they stop an enabled connection comes up again and again, on *)
(* an interface that is there: no fault leaves it failed, connecting or    *)
(* disconnected for good.  (Nothing stronger holds: the ip-down of a       *)
(* session the dial itself hung up may still send an up tunnel back to     *)
(* redialling, and a dial may call a tunnel connecting that is up.)        *)
Recovers == \A n \in Names : []<>(conns[n] = None \/ Works(n))

(* A connection that stays disabled loses its session. *)
DisabledEnds == \A n \in Names :
  [](conns[n] = None => <>(conns[n] # None \/ calls[n] = "idle"))

(* The refinement mapping to Redial: a connection the map does not have    *)
(* starts over, and dial and fail last until they have written the phase.  *)
PhaseOf(n) == IF tunnels[n] = None THEN "disconnected" ELSE tunnels[n].phase
WaitOf(n) == tunnels[n] # None /\ tunnels[n].wait
InHand ==
  IF frame[Rec].op \in {"dial", "fail"} /\ ~At(Rec, "say")
  THEN [op |-> frame[Rec].op, name |-> frame[Rec].name] ELSE [op |-> "idle"]

R == INSTANCE Redial WITH
  phase <- [n \in Names |-> PhaseOf(n)], wait <- [n \in Names |-> WaitOf(n)],
  busy <- InHand

(* However the goroutines interleave, what they do to the phases is what   *)
(* Redial allows: the reconciler takes a connection up only when its dial  *)
(* timeout or its backoff is over, one at a time, and every failure and    *)
(* every lost session has to wait before it is dialled again.              *)
ImplementsRedial == R!Safety
=============================================================================
