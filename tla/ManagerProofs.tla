--------------------------- MODULE ManagerProofs ---------------------------
(***************************************************************************)
(* Proofs about Manager, for every set of connections, interfaces and hook *)
(* goroutines and every budget of faults.                                  *)
(***************************************************************************)
EXTENDS Manager, FiniteSetTheorems, TLAPS

(* Which functions a process calls, the points a call of each passes, and  *)
(* that it is always about some connection.                                *)
Shaped(p, f) ==
  /\ \/ f.op = "idle" /\ f.pc = "idle" /\ f.obj = "gone"
     \/ /\ f.op = "up" /\ p \in Hooks /\ f.iface \in Ifaces
        /\ f.pc \in {"routes", "nat", "up", "say"}
     \/ /\ f.op = "down" /\ p \in Hooks
        /\ f.pc \in {"unroute", "unnat", "down", "say"}
     \/ /\ f.op = "fail"
        /\ f.pc \in {"probe", "lookup", "unroute", "unnat", "failed", "say"}
     \/ /\ f.op = "disconnect" /\ p = Rec
        /\ f.pc \in {"unroute", "unnat", "hangup", "remove", "terminate", "say"}
     \/ /\ f.op = "drop" /\ p = Rec
        /\ f.pc \in {"unroute", "unnat", "hangup", "terminate", "say", "remove",
                    "add"}
     \/ /\ f.op = "dial" /\ p = Rec
        /\ f.pc \in {"hangup", "initiate", "connect", "connecting",
                    "dialfailed", "say"}
  /\ f.op # "idle" => f.name \in Names

CallsAreShaped == \A p \in Procs : Shaped(p, frame[p])

(* A *state pointer that is said to lead to the map, or to the stale ones, *)
(* does.                                                                   *)
PointersLead ==
  \A p \in Procs :
    /\ frame[p].obj = "map"   => tunnels[frame[p].name] # None
    /\ frame[p].obj = "stale" => stale[frame[p].name] # None

(* What a pass has left to do is about connections it knows. *)
PassIsShaped ==
  /\ rpc # "disconnect" => stale = Nothing
  /\ rpc \in {"write", "load", "commit", "drop"} => todo \subseteq Keys(want)
  /\ rpc = "step" => todo \subseteq Keys(snap)
  /\ frame[Rec].op = "drop" => rpc = "drop" /\ want[frame[Rec].name] # None
  /\ frame[Rec].op = "disconnect" => rpc = "disconnect"
  /\ frame[Rec].op \in {"dial", "fail"} => rpc = "step"

Inv == TypeOK /\ CallsAreShaped /\ PointersLead /\ PassIsShaped

USE ConstantsAssumption, DistinctAssumption

-----------------------------------------------------------------------------
(* Frames: what an update of one leaves as it was *)

(* f and g are calls that agree on all but where they are and what they    *)
(* are about to say.                                                       *)
SameCall(f, g) ==
  /\ g.op = f.op /\ g.name = f.name /\ g.iface = f.iface
  /\ g.subnets = f.subnets /\ g.obj = f.obj /\ g.live = f.live

Others(p) == \A q \in Procs : q # p => frame'[q] = frame[q]

(* Goto moves one call to another point and changes nothing else. *)
LEMMA GotoStep ==
  ASSUME FramesOK, NEW p \in Procs, NEW x \in Points, Goto(p, x)
  PROVE  FramesOK' /\ Others(p) /\ SameCall(frame[p], frame'[p]) /\ frame'[p].pc = x
<1>1. frame'[p] = [frame[p] EXCEPT !.pc = x] /\ Others(p)
  BY DEF FramesOK, Goto, Others
<1>2. frame[p] \in Frame
  BY DEF FramesOK
<1>3. frame'[p] \in Frame /\ SameCall(frame[p], frame'[p]) /\ frame'[p].pc = x
  BY <1>1, <1>2 DEF Frame, SameCall
<1>4. FramesOK'
  BY <1>1, <1>3 DEF FramesOK, Goto
<1> QED BY <1>1, <1>3, <1>4

(* Say does the same and notes the state to record. *)
LEMMA SayStep ==
  ASSUME FramesOK, NEW p \in Procs, NEW x \in Phases, Say(p, x)
  PROVE  FramesOK' /\ Others(p) /\ SameCall(frame[p], frame'[p]) /\ frame'[p].pc = "say"
<1>1. frame'[p] = [frame[p] EXCEPT !.pc = "say", !.say = x] /\ Others(p)
  BY DEF FramesOK, Say, Others
<1>2. frame[p] \in Frame
  BY DEF FramesOK
<1>3. frame'[p] \in Frame /\ SameCall(frame[p], frame'[p]) /\ frame'[p].pc = "say"
  BY <1>1, <1>2 DEF Frame, SameCall, Points
<1>4. FramesOK'
  BY <1>1, <1>3 DEF FramesOK, Say
<1> QED BY <1>1, <1>3, <1>4

(* Unwind turns the call of PPPUp into the call of fail it makes. *)
LEMMA UnwindStep ==
  ASSUME FramesOK, NEW p \in Procs, Unwind(p)
  PROVE  /\ FramesOK' /\ Others(p)
         /\ frame'[p].op = "fail" /\ frame'[p].pc = "lookup"
         /\ frame'[p].name = frame[p].name /\ frame'[p].obj = frame[p].obj
         /\ frame'[p].iface = frame[p].iface /\ frame'[p].live = frame[p].live
<1>1. frame'[p] = [frame[p] EXCEPT !.op = "fail", !.pc = "lookup"] /\ Others(p)
  BY DEF FramesOK, Unwind, Others
<1>2. frame[p] \in Frame
  BY DEF FramesOK
<1>3. /\ frame'[p] \in Frame
      /\ frame'[p].op = "fail" /\ frame'[p].pc = "lookup"
      /\ frame'[p].name = frame[p].name /\ frame'[p].obj = frame[p].obj
      /\ frame'[p].iface = frame[p].iface /\ frame'[p].live = frame[p].live
  BY <1>1, <1>2 DEF Frame, Points, Ops
<1>4. FramesOK'
  BY <1>1, <1>3 DEF FramesOK, Unwind
<1> QED BY <1>1, <1>3, <1>4

(* A process starts the call f, or goes idle. *)
LEMMA CallStep ==
  ASSUME FramesOK, NEW p \in Procs, NEW f \in Frame, frame' = [frame EXCEPT ![p] = f]
  PROVE  FramesOK' /\ Others(p) /\ frame'[p] = f
BY DEF FramesOK, Others

(* A new call is a well-formed frame that keeps the arguments it was       *)
(* given.                                                                  *)
LEMMA CallIsFrame ==
  ASSUME NEW op \in Ops, NEW x \in Points, NEW n \in Names \cup {None},
         NEW i \in Ifaces \cup {None}, NEW ss \in SUBSET Subnets,
         NEW o \in {"map", "stale", "gone"}
  PROVE  LET f == Call(op, x, n, i, ss, o) IN
         /\ f \in Frame /\ f.op = op /\ f.pc = x /\ f.name = n
         /\ f.iface = i /\ f.subnets = ss /\ f.obj = o /\ f.live = TRUE
BY DEF Call, Frame, Phases

(* A resting process has a well-formed frame that points to no state       *)
(* object.                                                                 *)
LEMMA IdleIsFrame ==
  Idle \in Frame /\ Idle.op = "idle" /\ Idle.pc = "idle" /\ Idle.obj = "gone"
BY DEF Idle, Frame, Phases, Ops, Points

-----------------------------------------------------------------------------
(* The parts of Inv about calls, when one call changes *)

(* A step of one process keeps the shape of all calls if it keeps that of  *)
(* its own.                                                                *)
LEMMA ShapeStep ==
  ASSUME CallsAreShaped, NEW p \in Procs, Others(p), Shaped(p, frame'[p])
  PROVE  CallsAreShaped'
BY DEF CallsAreShaped, Others, Shaped

(* A step of one process that leaves the map alone keeps every state       *)
(* pointer valid if it keeps that process's own.                           *)
LEMMA PointerStep ==
  ASSUME PointersLead, NEW p \in Procs, Others(p), UNCHANGED memory,
         frame'[p].obj = "map" => tunnels[frame'[p].name] # None,
         frame'[p].obj = "stale" => stale[frame'[p].name] # None
  PROVE  PointersLead'
BY DEF PointersLead, Others, memory

(* The reconciler's call, if it goes on, goes on for the same name. *)
LEMMA PassShapeStep ==
  ASSUME PassIsShaped, UNCHANGED pass, stale = Nothing => stale' = Nothing,
         \/ frame'[Rec].op = "idle"
         \/ frame'[Rec].op = frame[Rec].op /\ frame'[Rec].name = frame[Rec].name
  PROVE  PassIsShaped'
BY DEF PassIsShaped, pass, Keys

(* A fault that is counted, or none, keeps the counters natural numbers. *)
LEMMA SpendOK ==
  ASSUME spent \in [Kinds -> Nat], NEW k \in Kinds, Spend(k) \/ spent' = spent
  PROVE  spent' \in [Kinds -> Nat]
BY DEF Spend, Kinds

(* The empty map is a map of any type. *)
LEMMA NothingOK ==
  ASSUME NEW S PROVE Nothing \in [Names -> S \cup {None}]
BY DEF Nothing

-----------------------------------------------------------------------------
(* Inv is preserved by every action.  First the commands and critical      *)
(* sections of the calls in progress.                                      *)

(* removeRoutes keeps the invariant, whether the command succeeds, fails   *)
(* or was cancelled.                                                       *)
LEMMA Inv_RemoveRoutes ==
  ASSUME Inv, NEW p \in Procs, RemoveRoutes(p)
  PROVE  Inv'
<1>1. FramesOK' /\ Others(p) /\ SameCall(frame[p], frame'[p]) /\ frame'[p].pc = "unnat"
  BY GotoStep DEF Inv, TypeOK, RemoveRoutes, Points
<1>2. CallsAreShaped'
  BY <1>1, ShapeStep DEF Inv, RemoveRoutes, CallsAreShaped, Shaped, SameCall, At
<1>3. PointersLead'
  BY <1>1, PointerStep DEF Inv, RemoveRoutes, SameCall, PointersLead
<1>4. PassIsShaped'
  BY <1>1, PassShapeStep DEF Inv, RemoveRoutes, outsideCall, memory, SameCall, Others, Procs
<1>5. DataOK'
  BY SpendOK DEF Inv, TypeOK, DataOK, RemoveRoutes, outsideCall, store, Kinds
<1>6. MemoryOK' /\ PassOK' /\ DaemonsOK'
  BY DEF Inv, TypeOK, MemoryOK, PassOK, DaemonsOK, RemoveRoutes, outsideCall,
         memory, pass, ike, l2tp
<1>7. KernelOK'
  BY DEF Inv, TypeOK, KernelOK, RemoveRoutes, Removed, outsideCall
<1> QED BY <1>1, <1>2, <1>3, <1>4, <1>5, <1>6, <1>7 DEF Inv, TypeOK

(* addRoutes keeps the invariant, also when it fails and PPPUp unwinds     *)
(* into fail.                                                              *)
LEMMA Inv_AddRoutes ==
  ASSUME Inv, NEW p \in Procs, AddRoutes(p)
  PROVE  Inv'
<1>1. /\ FramesOK' /\ Others(p)
      /\ frame'[p].name = frame[p].name /\ frame'[p].obj = frame[p].obj
      /\ frame'[p].iface = frame[p].iface
      /\ \/ frame'[p].op = frame[p].op /\ frame'[p].pc = "nat"
         \/ frame'[p].op = "fail" /\ frame'[p].pc = "lookup"
  BY GotoStep, UnwindStep DEF Inv, TypeOK, AddRoutes, Points, SameCall
<1>2. CallsAreShaped'
  BY <1>1, ShapeStep DEF Inv, AddRoutes, CallsAreShaped, Shaped, At
<1>3. PointersLead'
  BY <1>1, PointerStep DEF Inv, AddRoutes, PointersLead
<1>4. PassIsShaped'
  <2>1. p # Rec
    BY DEF Inv, AddRoutes, CallsAreShaped, Shaped, At
  <2> QED BY <1>1, <2>1, PassShapeStep DEF Inv, AddRoutes, outsideCall, memory, Others, Procs
<1>5. DataOK'
  BY SpendOK DEF Inv, TypeOK, DataOK, AddRoutes, outsideCall, store, Kinds
<1>6. MemoryOK' /\ PassOK' /\ DaemonsOK'
  BY DEF Inv, TypeOK, MemoryOK, PassOK, DaemonsOK, AddRoutes, outsideCall,
         memory, pass, ike, l2tp
<1>7. KernelOK'
  BY DEF Inv, TypeOK, KernelOK, FramesOK, Frame, AddRoutes, Routed, outsideCall
<1> QED BY <1>1, <1>2, <1>3, <1>4, <1>5, <1>6, <1>7 DEF Inv, TypeOK

(* disableNAT keeps the invariant and goes on as the function that tears   *)
(* down requires.                                                          *)
LEMMA Inv_DisableNAT ==
  ASSUME Inv, NEW p \in Procs, DisableNAT(p)
  PROVE  Inv'
<1>1. /\ FramesOK' /\ Others(p) /\ SameCall(frame[p], frame'[p])
      /\ frame'[p].pc = AfterTearDown(frame[p].op)
  BY GotoStep DEF Inv, TypeOK, DisableNAT, Points, AfterTearDown
<1>2. CallsAreShaped'
  BY <1>1, ShapeStep DEF Inv, DisableNAT, CallsAreShaped, Shaped, SameCall, At,
     AfterTearDown
<1>3. PointersLead'
  BY <1>1, PointerStep DEF Inv, DisableNAT, SameCall, PointersLead
<1>4. PassIsShaped'
  BY <1>1, PassShapeStep DEF Inv, DisableNAT, outsideCall, memory, SameCall, Others, Procs
<1>5. DataOK'
  BY SpendOK DEF Inv, TypeOK, DataOK, DisableNAT, outsideCall, store, Kinds
<1>6. MemoryOK' /\ PassOK' /\ DaemonsOK'
  BY DEF Inv, TypeOK, MemoryOK, PassOK, DaemonsOK, DisableNAT, outsideCall,
         memory, pass, ike, l2tp
<1>7. KernelOK'
  BY DEF Inv, TypeOK, KernelOK, DisableNAT, outsideCall
<1> QED BY <1>1, <1>2, <1>3, <1>4, <1>5, <1>6, <1>7 DEF Inv, TypeOK

(* enableNAT keeps the invariant, also when it fails and PPPUp unwinds     *)
(* into fail.                                                              *)
LEMMA Inv_EnableNAT ==
  ASSUME Inv, NEW p \in Procs, EnableNAT(p)
  PROVE  Inv'
<1>1. /\ FramesOK' /\ Others(p)
      /\ frame'[p].name = frame[p].name /\ frame'[p].obj = frame[p].obj
      /\ frame'[p].iface = frame[p].iface
      /\ \/ frame'[p].op = frame[p].op /\ frame'[p].pc = "up"
         \/ frame'[p].op = "fail" /\ frame'[p].pc = "lookup"
  BY GotoStep, UnwindStep DEF Inv, TypeOK, EnableNAT, Points, SameCall
<1>2. CallsAreShaped'
  BY <1>1, ShapeStep DEF Inv, EnableNAT, CallsAreShaped, Shaped, At
<1>3. PointersLead'
  BY <1>1, PointerStep DEF Inv, EnableNAT, PointersLead
<1>4. PassIsShaped'
  <2>1. p # Rec
    BY DEF Inv, EnableNAT, CallsAreShaped, Shaped, At
  <2> QED BY <1>1, <2>1, PassShapeStep DEF Inv, EnableNAT, outsideCall, memory, Others, Procs
<1>5. DataOK'
  BY SpendOK DEF Inv, TypeOK, DataOK, EnableNAT, outsideCall, store, Kinds
<1>6. MemoryOK' /\ PassOK' /\ DaemonsOK'
  BY DEF Inv, TypeOK, MemoryOK, PassOK, DaemonsOK, EnableNAT, outsideCall,
         memory, pass, ike, l2tp
<1>7. KernelOK'
  <2>1. frame[p].iface \in Ifaces
    BY DEF Inv, EnableNAT, CallsAreShaped, Shaped, At
  <2> QED BY <2>1 DEF Inv, TypeOK, KernelOK, EnableNAT, outsideCall
<1> QED BY <1>1, <1>2, <1>3, <1>4, <1>5, <1>6, <1>7 DEF Inv, TypeOK

(* A write through a *state pointer keeps every object where it is. *)
SameKeys ==
  \A n \in Names : /\ tunnels'[n] = None <=> tunnels[n] = None
                   /\ stale'[n] = None <=> stale[n] = None

(* A write through a *state pointer keeps the types of the map and of the  *)
(* stale objects, and the keys of both.                                    *)
LEMMA PutStep ==
  ASSUME MemoryOK, FramesOK, NEW p \in Procs, frame[p].name \in Names,
         PointersLead, NEW ph \in Phases, NEW i, NEW w \in BOOLEAN,
         frame[p].obj # "gone" => i \in Ifaces \cup {None}, Put(p, ph, i, w)
  PROVE  MemoryOK' /\ SameKeys
<1> DEFINE n == frame[p].name
           t == [phase |-> ph, iface |-> i, subnets |-> Target(p).subnets, wait |-> w]
<1>1. CASE frame[p].obj = "map"
  <2>1. tunnels[n] \in Tunnel
    BY <1>1 DEF PointersLead, MemoryOK
  <2>2. t \in Tunnel /\ t # None
    BY <1>1, <2>1 DEF Target, Tunnel
  <2>3. tunnels' = [tunnels EXCEPT ![n] = t] /\ stale' = stale
    BY <1>1 DEF Put
  <2> HIDE DEF t
  <2> QED BY <2>1, <2>2, <2>3 DEF MemoryOK, SameKeys
<1>2. CASE frame[p].obj = "stale"
  <2>1. stale[n] \in Tunnel
    BY <1>2 DEF PointersLead, MemoryOK
  <2>2. t \in Tunnel /\ t # None
    BY <1>2, <2>1 DEF Target, Tunnel
  <2>3. stale' = [stale EXCEPT ![n] = t] /\ tunnels' = tunnels
    BY <1>2 DEF Put
  <2> HIDE DEF t
  <2> QED BY <2>1, <2>2, <2>3 DEF MemoryOK, SameKeys
<1>3. CASE frame[p].obj \notin {"map", "stale"}
  BY <1>3 DEF Put, MemoryOK, SameKeys
<1> QED BY <1>1, <1>2, <1>3

(* The critical section that sets a phase changes its own call and one     *)
(* state object, and then reports the phase.                               *)
LEMMA SetPhaseStep ==
  ASSUME Inv, NEW p \in Procs, SetPhase(p)
  PROVE  /\ FramesOK' /\ Others(p) /\ SameCall(frame[p], frame'[p])
         /\ frame'[p].pc = "say" /\ MemoryOK' /\ SameKeys
<1>1. /\ frame[p].name \in Names /\ frame[p].iface \in Ifaces \cup {None}
      /\ MemoryOK /\ FramesOK /\ PointersLead
  BY DEF Inv, TypeOK, FramesOK, Frame, SetPhase, Came, Went, Failed, Connecting,
         DialFailed, At, CallsAreShaped, Shaped
<1>2. frame[p].obj # "gone" => Target(p).iface \in Ifaces \cup {None}
  <2>1. frame[p].obj # "gone" => Target(p) \in Tunnel
    BY <1>1 DEF PointersLead, MemoryOK, Target, FramesOK, Frame
  <2> QED BY <2>1 DEF Tunnel
<1>3. CASE Came(p)
  BY <1>1, <1>3, PutStep, SayStep DEF Came, Phases
<1>4. CASE Went(p)
  BY <1>1, <1>4, PutStep, SayStep DEF Went, Phases
<1>5. CASE Failed(p)
  BY <1>1, <1>5, PutStep, SayStep DEF Failed, Phases
<1>6. CASE Connecting(p)
  BY <1>1, <1>2, <1>6, PutStep, SayStep DEF Connecting, Phases
<1>7. CASE DialFailed(p)
  BY <1>1, <1>2, <1>7, PutStep, SayStep DEF DialFailed, Phases
<1> QED BY <1>3, <1>4, <1>5, <1>6, <1>7 DEF SetPhase

(* The critical sections of PPPUp, PPPDown, fail and dial that set the     *)
(* phase keep the invariant.                                               *)
LEMMA Inv_SetPhase ==
  ASSUME Inv, NEW p \in Procs, SetPhase(p)
  PROVE  Inv'
<1>1. /\ FramesOK' /\ Others(p) /\ SameCall(frame[p], frame'[p])
      /\ frame'[p].pc = "say" /\ MemoryOK' /\ SameKeys
  BY SetPhaseStep
<1>2. CallsAreShaped'
  BY <1>1, ShapeStep, ZenonT(40) DEF Inv, SetPhase, Came, Went, Failed, Connecting,
     DialFailed, CallsAreShaped, Shaped, SameCall, At
<1>3. PointersLead'
  <2>1. \A q \in Procs : frame'[q].obj = frame[q].obj /\ frame'[q].name = frame[q].name
    BY <1>1 DEF Others, SameCall
  <2>2. \A q \in Procs : frame[q].obj # "gone" => frame[q].name \in Names
    BY DEF Inv, CallsAreShaped, Shaped
  <2> QED BY <1>1, <2>1, <2>2 DEF Inv, PointersLead, SameKeys
<1>4. PassIsShaped'
  <2>1. stale = Nothing => stale' = Nothing
    BY <1>1 DEF SameKeys, Nothing, MemoryOK
  <2> QED BY <1>1, <2>1, PassShapeStep
          DEF Inv, SetPhase, outsideCall, SameCall, Others, Procs
<1>5. DataOK' /\ PassOK' /\ DaemonsOK'
  BY DEF Inv, TypeOK, DataOK, PassOK, DaemonsOK, SetPhase, outsideCall, store,
         pass, ike, l2tp
<1>6. KernelOK'
  BY DEF Inv, TypeOK, KernelOK, SetPhase, outsideCall, kernel
<1> QED BY <1>1, <1>2, <1>3, <1>4, <1>5, <1>6 DEF Inv, TypeOK

(* The status write that ends a call, or lets drop go on, keeps the        *)
(* invariant.                                                              *)
LEMMA Inv_SetStatus ==
  ASSUME Inv, NEW p \in Procs, SetStatus(p)
  PROVE  Inv'
<1>1. /\ FramesOK' /\ Others(p)
      /\ \/ frame'[p] = Idle
         \/ /\ frame[p].op = "drop" /\ SameCall(frame[p], frame'[p])
            /\ frame'[p].pc = "remove"
  BY GotoStep, CallStep, IdleIsFrame DEF Inv, TypeOK, SetStatus, Return, Points
<1>2. CallsAreShaped'
  BY <1>1, ShapeStep, IdleIsFrame DEF Inv, CallsAreShaped, Shaped, SameCall
<1>3. PointersLead'
  BY <1>1, PointerStep, IdleIsFrame DEF Inv, SetStatus, SameCall, PointersLead
<1>4. PassIsShaped'
  BY <1>1, PassShapeStep, IdleIsFrame DEF Inv, SetStatus, outsideCall, memory,
     SameCall, Others, Procs
<1>5. DataOK'
  <2>1. frame[p].say \in Phases
    BY DEF Inv, TypeOK, FramesOK, Frame
  <2> QED BY <2>1 DEF Inv, TypeOK, DataOK, SetStatus, outsideCall, store
<1>6. MemoryOK' /\ PassOK' /\ DaemonsOK'
  BY DEF Inv, TypeOK, MemoryOK, PassOK, DaemonsOK, SetStatus, outsideCall,
         memory, pass, ike, l2tp
<1>7. KernelOK'
  BY DEF Inv, TypeOK, KernelOK, SetStatus, outsideCall, kernel
<1> QED BY <1>1, <1>2, <1>3, <1>4, <1>5, <1>6, <1>7 DEF Inv, TypeOK

(* Unhealthy's own lookup keeps the invariant: a tunnel that is gone ends  *)
(* the call.                                                               *)
LEMMA Inv_Unhealthy ==
  ASSUME Inv, NEW p \in Procs, Unhealthy(p)
  PROVE  Inv'
<1>1. /\ FramesOK' /\ Others(p)
      /\ \/ frame'[p] = Idle
         \/ /\ frame'[p].op = frame[p].op /\ frame'[p].name = frame[p].name
            /\ frame'[p].obj = frame[p].obj /\ frame'[p].pc = "lookup"
  <2> DEFINE t == tunnels[frame[p].name]
  <2>1. CASE t = None
    BY <2>1, CallStep, IdleIsFrame DEF Inv, TypeOK, Unhealthy, Return
  <2>2. CASE t # None
    <3>1. t.iface \in Ifaces \cup {None}
      BY <2>2 DEF Inv, TypeOK, MemoryOK, Tunnel, Unhealthy, At, CallsAreShaped, Shaped
    <3>2. frame[p] \in Frame
      BY DEF Inv, TypeOK, FramesOK
    <3> DEFINE f == [frame[p] EXCEPT !.pc = "lookup", !.iface = t.iface]
    <3>3. /\ f \in Frame /\ f.op = frame[p].op /\ f.name = frame[p].name
          /\ f.obj = frame[p].obj /\ f.pc = "lookup"
      BY <3>1, <3>2 DEF Frame, Points
    <3>4. frame' = [frame EXCEPT ![p] = f]
      BY <2>2 DEF Unhealthy
    <3> HIDE DEF f, t
    <3> QED BY <3>3, <3>4, CallStep DEF Inv, TypeOK
  <2> QED BY <2>1, <2>2
<1>2. CallsAreShaped'
  BY <1>1, ShapeStep, IdleIsFrame DEF Inv, Unhealthy, CallsAreShaped, Shaped, At
<1>3. PointersLead'
  BY <1>1, PointerStep, IdleIsFrame DEF Inv, Unhealthy, PointersLead
<1>4. PassIsShaped'
  BY <1>1, PassShapeStep, IdleIsFrame DEF Inv, Unhealthy, outsideCall, memory, Others, Procs
<1>5. DataOK' /\ MemoryOK'
  BY DEF Inv, TypeOK, DataOK, MemoryOK, Unhealthy, outsideCall, store, memory
<1>6. PassOK' /\ DaemonsOK'
  BY DEF Inv, TypeOK, PassOK, DaemonsOK, Unhealthy, outsideCall, pass, ike, l2tp
<1>7. KernelOK'
  BY DEF Inv, TypeOK, KernelOK, Unhealthy, outsideCall, kernel
<1> QED BY <1>1, <1>2, <1>3, <1>4, <1>5, <1>6, <1>7 DEF Inv, TypeOK

(* fail's lookup keeps the invariant: it finds a state object in the map   *)
(* or returns.                                                             *)
LEMMA Inv_Fail ==
  ASSUME Inv, NEW p \in Procs, Fail(p)
  PROVE  Inv'
<1>1. /\ FramesOK' /\ Others(p)
      /\ \/ frame'[p] = Idle
         \/ /\ frame'[p].op = frame[p].op /\ frame'[p].name = frame[p].name
            /\ frame'[p].obj = "map" /\ tunnels[frame[p].name] # None
            /\ frame'[p].pc \in {"unroute", "failed"}
  <2> DEFINE t == tunnels[frame[p].name]
  <2>1. CASE t = None
    BY <2>1, CallStep, IdleIsFrame DEF Inv, TypeOK, Fail, Return
  <2>2. CASE t # None
    <3>1. t.subnets \in SUBSET Subnets
      BY <2>2 DEF Inv, TypeOK, MemoryOK, Tunnel, Fail, At, CallsAreShaped, Shaped
    <3>2. frame[p] \in Frame
      BY DEF Inv, TypeOK, FramesOK
    <3> DEFINE x == TearDown("fail", frame[p].iface)
               f == [frame[p] EXCEPT !.pc = x, !.subnets = t.subnets, !.obj = "map"]
    <3>3. x \in {"unroute", "failed"}
      BY DEF TearDown, AfterTearDown
    <3>4. frame' = [frame EXCEPT ![p] = f]
      BY <2>2 DEF Fail
    <3> HIDE DEF x
    <3>5. /\ f \in Frame /\ f.op = frame[p].op /\ f.name = frame[p].name
          /\ f.obj = "map" /\ f.pc = x
      BY <3>1, <3>2, <3>3 DEF Frame, Points
    <3> HIDE DEF f
    <3> QED BY <2>2, <3>3, <3>4, <3>5, CallStep DEF Inv, TypeOK
  <2> QED BY <2>1, <2>2
<1>2. CallsAreShaped'
  BY <1>1, ShapeStep, IdleIsFrame DEF Inv, Fail, CallsAreShaped, Shaped, At
<1>3. PointersLead'
  BY <1>1, PointerStep, IdleIsFrame DEF Inv, Fail, PointersLead
<1>4. PassIsShaped'
  BY <1>1, PassShapeStep, IdleIsFrame DEF Inv, Fail, outsideCall, memory, Others, Procs
<1>5. DataOK' /\ MemoryOK'
  BY DEF Inv, TypeOK, DataOK, MemoryOK, Fail, outsideCall, store, memory
<1>6. PassOK' /\ DaemonsOK'
  BY DEF Inv, TypeOK, PassOK, DaemonsOK, Fail, outsideCall, pass, ike, l2tp
<1>7. KernelOK'
  BY DEF Inv, TypeOK, KernelOK, Fail, outsideCall, kernel
<1> QED BY <1>1, <1>2, <1>3, <1>4, <1>5, <1>6, <1>7 DEF Inv, TypeOK

-----------------------------------------------------------------------------
(* The pass of Reconcile. *)

(* Frames that follow an object keep everything but where it is. *)
LEMMA MovedStep ==
  ASSUME FramesOK, NEW from, NEW to \in {"map", "stale", "gone"}, NEW ns
  PROVE  LET g == Moved(from, to, ns) IN
         /\ g \in [Procs -> Frame]
         /\ \A q \in Procs :
              /\ g[q].op = frame[q].op /\ g[q].pc = frame[q].pc
              /\ g[q].name = frame[q].name /\ g[q].iface = frame[q].iface
              /\ g[q].live = frame[q].live
              /\ g[q].obj = IF frame[q].obj = from /\ frame[q].name \in ns
                            THEN to ELSE frame[q].obj
<1> DEFINE g == Moved(from, to, ns)
<1>1. SUFFICES ASSUME NEW q \in Procs
               PROVE  /\ g[q] \in Frame
                      /\ g[q].op = frame[q].op /\ g[q].pc = frame[q].pc
                      /\ g[q].name = frame[q].name /\ g[q].iface = frame[q].iface
                      /\ g[q].live = frame[q].live
                      /\ g[q].obj = IF frame[q].obj = from /\ frame[q].name \in ns
                                    THEN to ELSE frame[q].obj
  BY DEF Moved
<1>2. frame[q] \in Frame
  BY DEF FramesOK
<1>3. g[q] = IF frame[q].obj = from /\ frame[q].name \in ns
             THEN [frame[q] EXCEPT !.obj = to] ELSE frame[q]
  BY DEF Moved
<1> HIDE DEF g
<1> QED BY <1>2, <1>3 DEF Frame

(* A call that points to an object is about a connection. *)
LEMMA PointersHaveNames ==
  ASSUME CallsAreShaped, NEW q \in Procs, frame[q].obj # "gone"
  PROVE  frame[q].name \in Names
BY DEF CallsAreShaped, Shaped

(* staleTunnels keeps the invariant: calls in progress follow the objects  *)
(* it takes out of the map.                                                *)
LEMMA Inv_StartPass ==
  ASSUME Inv, StartPass
  PROVE  Inv'
<1>1. /\ FramesOK'
      /\ \A q \in Procs :
           /\ frame'[q].op = frame[q].op /\ frame'[q].pc = frame[q].pc
           /\ frame'[q].name = frame[q].name /\ frame'[q].iface = frame[q].iface
           /\ frame'[q].obj = IF frame[q].obj = "map" /\ frame[q].name \in Orphans
                              THEN "stale" ELSE frame[q].obj
  BY MovedStep DEF Inv, TypeOK, FramesOK, StartPass
<1>2. CallsAreShaped'
  BY <1>1 DEF Inv, CallsAreShaped, Shaped
<1>3. PointersLead'
  <2>1. \A q \in Procs : frame[q].obj # "stale"
    BY PointersHaveNames DEF Inv, StartPass, PointersLead, PassIsShaped, Nothing
  <2>2. \A q \in Procs : frame[q].obj = "map" => frame[q].name \in Names
    BY PointersHaveNames DEF Inv
  <2> QED BY <1>1, <2>1, <2>2 DEF Inv, StartPass, PointersLead, Orphans
<1>4. PassIsShaped'
  BY <1>1 DEF Inv, StartPass, PassIsShaped, CallsAreShaped, Shaped, Procs
<1>5. MemoryOK'
  BY DEF Inv, TypeOK, MemoryOK, StartPass, Orphans
<1>6. DataOK' /\ PassOK'
  BY DEF Inv, TypeOK, DataOK, PassOK, StartPass, outsidePass, store
<1>7. DaemonsOK' /\ KernelOK'
  BY DEF Inv, TypeOK, DaemonsOK, KernelOK, StartPass, outsidePass, l2tp, kernel
<1> QED BY <1>1, <1>2, <1>3, <1>4, <1>5, <1>6, <1>7 DEF Inv, TypeOK

(* tearDownInterface is entered or skipped. *)
LEMMA TearDownPoints ==
  ASSUME NEW op \in Ops, NEW i
  PROVE  TearDown(op, i) \in {"unroute", AfterTearDown(op)}
BY DEF TearDown

(* disconnect starts one call of the reconciler; calls that point to the   *)
(* object it has read lose it.                                             *)
LEMMA DisconnectStep ==
  ASSUME Inv, NEW n \in Names, Disconnect(n)
  PROVE  /\ FramesOK'
         /\ \A q \in Procs \ {Rec} :
              /\ frame'[q].op = frame[q].op /\ frame'[q].pc = frame[q].pc
              /\ frame'[q].name = frame[q].name /\ frame'[q].iface = frame[q].iface
              /\ frame'[q].live = frame[q].live
              /\ frame'[q].obj = IF frame[q].obj = "stale" /\ frame[q].name \in {n}
                                 THEN "gone" ELSE frame[q].obj
         /\ frame'[Rec].op = "disconnect" /\ frame'[Rec].name = n
         /\ frame'[Rec].pc \in {"unroute", "hangup"} /\ frame'[Rec].obj = "gone"
<1> DEFINE g == Moved("stale", "gone", {n})
           x == TearDown("disconnect", stale[n].iface)
           f == Call("disconnect", x, n, stale[n].iface, stale[n].subnets, "gone")
<1>1. x \in {"unroute", "hangup"}
  BY DEF TearDown, AfterTearDown
<1>2. stale[n] \in Tunnel
  BY DEF Inv, TypeOK, MemoryOK, Disconnect
<1>3. stale[n].iface \in Ifaces \cup {None} /\ stale[n].subnets \in SUBSET Subnets
  BY <1>2 DEF Tunnel
<1>4. frame' = [g EXCEPT ![Rec] = f]
  BY DEF Disconnect
<1> HIDE DEF x
<1>5. f \in Frame /\ f.op = "disconnect" /\ f.pc = x /\ f.name = n /\ f.obj = "gone"
  BY <1>1, <1>3 DEF Call, Frame, Ops, Points, Phases
<1>6. /\ g \in [Procs -> Frame]
      /\ \A q \in Procs :
           /\ g[q].op = frame[q].op /\ g[q].pc = frame[q].pc
           /\ g[q].name = frame[q].name /\ g[q].iface = frame[q].iface
           /\ g[q].live = frame[q].live
           /\ g[q].obj = IF frame[q].obj = "stale" /\ frame[q].name \in {n}
                         THEN "gone" ELSE frame[q].obj
  <2>1. FramesOK
    BY DEF Inv, TypeOK
  <2> HIDE DEF f
  <2>2. PICK to \in {"map", "stale", "gone"} : to = "gone"
    OBVIOUS
  <2>3. g = Moved("stale", to, {n})
    BY <2>2
  <2> HIDE DEF g
  <2> QED BY <2>1, <2>2, <2>3, MovedStep
<1> HIDE DEF f, g
<1>7. FramesOK' /\ frame'[Rec] = f /\ \A q \in Procs \ {Rec} : frame'[q] = g[q]
  BY <1>4, <1>5, <1>6 DEF FramesOK, Procs
<1> QED BY <1>1, <1>5, <1>6, <1>7

(* The start of disconnect keeps the invariant. *)
LEMMA Inv_Disconnect ==
  ASSUME Inv, NEW n \in Names, Disconnect(n)
  PROVE  Inv'
<1>1. CallsAreShaped'
  <2>1. Shaped(Rec, frame'[Rec])
    BY DisconnectStep DEF Shaped
  <2>2. \A q \in Procs \ {Rec} : Shaped(q, frame'[q])
    BY DisconnectStep DEF Inv, CallsAreShaped, Shaped
  <2> QED BY <2>1, <2>2 DEF CallsAreShaped, Shaped
<1>2. PointersLead'
  <2>1. tunnels' = tunnels /\ \A m \in Names : m # n => stale'[m] = stale[m]
    BY DEF Disconnect, Inv, TypeOK, MemoryOK
  <2>2. \A q \in Procs : frame[q].obj = "stale" => frame[q].name \in Names
    BY PointersHaveNames DEF Inv
  <2> QED BY <2>1, <2>2, DisconnectStep DEF Inv, PointersLead
<1>3. PassIsShaped'
  BY DisconnectStep DEF Inv, Disconnect, PassIsShaped, pass
<1>4. MemoryOK'
  BY DEF Inv, TypeOK, MemoryOK, Disconnect
<1>5. DataOK' /\ PassOK'
  BY DEF Inv, TypeOK, DataOK, PassOK, Disconnect, outsidePass, store, pass
<1>6. DaemonsOK' /\ KernelOK'
  BY DEF Inv, TypeOK, DaemonsOK, KernelOK, Disconnect, outsidePass, l2tp, kernel
<1> QED BY DisconnectStep, <1>1, <1>2, <1>3, <1>4, <1>5, <1>6 DEF Inv, TypeOK

(* The steps of a pass that make no call leave the calls alone. *)
LEMMA SameCalls ==
  ASSUME CallsAreShaped, PointersLead, UNCHANGED <<frame, memory>>
  PROVE  CallsAreShaped' /\ PointersLead'
BY DEF CallsAreShaped, PointersLead, Shaped, memory

(* While the reconciler rests, it is in no call. *)
LEMMA RestingOp ==
  ASSUME Resting(Rec)
  PROVE  frame[Rec].op = "idle"
BY IdleIsFrame DEF Resting

(* desiredTunnels returns a rendering for every enabled connection. *)
LEMMA DesiredOK ==
  ASSUME Inv
  PROVE  Desired \in [Names -> Rendering \cup {None}]
<1>1. \A r, t \in Configs : Fingerprint(r, t) \in Rendering
  BY DEF Inv, TypeOK, DataOK, Fingerprint, Rendering
<1>2. \A n \in Names : snap[n] \in Configs \cup {None} /\ conns[n] \in Configs \cup {None}
  BY DEF Inv, TypeOK, DataOK, PassOK
<1> QED BY <1>1, <1>2 DEF Desired

(* The fingerprints and the early return of writeConfigs keep the          *)
(* invariant.                                                              *)
LEMMA Inv_Render ==
  ASSUME Inv, Render
  PROVE  Inv'
<1>1. CallsAreShaped' /\ PointersLead' /\ FramesOK'
  BY SameCalls DEF Inv, TypeOK, FramesOK, Render
<1>2. PassOK' /\ todo' \subseteq Names
  BY DesiredOK, NothingOK
     DEF Inv, TypeOK, PassOK, Render, EndPass, ChangedTunnels, Keys
<1>3. PassIsShaped'
  <2>1. frame'[Rec].op = "idle" /\ stale' = Nothing
    BY RestingOp DEF Render, memory
  <2>2. CASE want' = Desired /\ snap' = snap
    BY <2>1, <2>2 DEF Inv, PassIsShaped, Render, EndPass, ChangedTunnels, Keys
  <2>3. CASE EndPass
    BY <2>1, <2>3 DEF PassIsShaped, EndPass
  <2> QED BY <2>2, <2>3 DEF Render
<1>4. DataOK' /\ MemoryOK'
  BY DEF Inv, TypeOK, DataOK, MemoryOK, Render, outsidePass, store, memory
<1>5. DaemonsOK' /\ KernelOK'
  BY DEF Inv, TypeOK, DaemonsOK, KernelOK, Render, outsidePass, l2tp, kernel
<1> QED BY <1>1, <1>2, <1>3, <1>4, <1>5 DEF Inv, TypeOK

(* In the stages that only push configurations the reconciler is in no call. *)
LEMMA PushingIsIdle ==
  ASSUME Inv, rpc \notin {"disconnect", "drop", "step"}
  PROVE  frame[Rec].op = "idle"
BY DEF Inv, CallsAreShaped, Shaped, PassIsShaped, Procs

(* Write keeps the invariant, also when it fails and ends the pass. *)
LEMMA Inv_WriteFiles ==
  ASSUME Inv, WriteFiles
  PROVE  Inv'
<1>1. CallsAreShaped' /\ PointersLead' /\ FramesOK'
  BY SameCalls DEF Inv, TypeOK, FramesOK, WriteFiles
<1>2. PassOK'
  BY NothingOK DEF Inv, TypeOK, PassOK, WriteFiles, EndPass
<1>3. PassIsShaped'
  BY PushingIsIdle DEF Inv, PassIsShaped, WriteFiles, EndPass, memory, Keys
<1>4. DataOK' /\ MemoryOK'
  BY SpendOK DEF Inv, TypeOK, DataOK, PassOK, MemoryOK, WriteFiles, outsidePass,
     store, memory, Kinds
<1>5. DaemonsOK' /\ KernelOK'
  BY DEF Inv, TypeOK, DaemonsOK, KernelOK, WriteFiles, outsidePass, l2tp, kernel
<1> QED BY <1>1, <1>2, <1>3, <1>4, <1>5 DEF Inv, TypeOK

(* swanctl --load-all keeps the invariant, also when it fails and ends     *)
(* the pass.                                                               *)
LEMMA Inv_LoadAll ==
  ASSUME Inv, LoadAll
  PROVE  Inv'
<1>1. CallsAreShaped' /\ PointersLead' /\ FramesOK'
  BY SameCalls DEF Inv, TypeOK, FramesOK, LoadAll
<1>2. PassOK'
  BY NothingOK DEF Inv, TypeOK, PassOK, LoadAll, EndPass
<1>3. PassIsShaped'
  BY PushingIsIdle DEF Inv, PassIsShaped, LoadAll, EndPass, memory, Keys
<1>4. DataOK' /\ MemoryOK'
  BY SpendOK DEF Inv, TypeOK, DataOK, MemoryOK, LoadAll, outsidePass,
     store, memory, Kinds
<1>5. DaemonsOK' /\ KernelOK'
  BY DEF Inv, TypeOK, DataOK, DaemonsOK, KernelOK, LoadAll, outsidePass, l2tp, kernel
<1> QED BY <1>1, <1>2, <1>3, <1>4, <1>5 DEF Inv, TypeOK

(* The commit of the new fingerprints keeps the invariant. *)
LEMMA Inv_Commit ==
  ASSUME Inv, Commit
  PROVE  Inv'
<1>1. CallsAreShaped' /\ PointersLead' /\ FramesOK'
  BY SameCalls DEF Inv, TypeOK, FramesOK, Commit
<1>2. PassOK'
  BY DEF Inv, TypeOK, PassOK, Commit
<1>3. PassIsShaped'
  BY PushingIsIdle DEF Inv, PassIsShaped, Commit, memory, Keys
<1>4. DataOK' /\ MemoryOK'
  BY DEF Inv, TypeOK, DataOK, PassOK, MemoryOK, Commit, outsidePass, store, memory
<1>5. DaemonsOK' /\ KernelOK'
  BY DEF Inv, TypeOK, DaemonsOK, KernelOK, Commit, outsidePass, l2tp, kernel
<1> QED BY <1>1, <1>2, <1>3, <1>4, <1>5 DEF Inv, TypeOK

(* The start of the step loop keeps the invariant. *)
LEMMA Inv_StepAll ==
  ASSUME Inv, StepAll
  PROVE  Inv'
<1>1. CallsAreShaped' /\ PointersLead' /\ FramesOK'
  BY SameCalls DEF Inv, TypeOK, FramesOK, StepAll
<1>2. PassOK'
  BY DEF Inv, TypeOK, PassOK, StepAll, Keys
<1>3. PassIsShaped'
  BY RestingOp DEF Inv, PassIsShaped, StepAll, memory, Keys
<1>4. DataOK' /\ MemoryOK'
  BY DEF Inv, TypeOK, DataOK, MemoryOK, StepAll, outsidePass, store, memory
<1>5. DaemonsOK' /\ KernelOK'
  BY DEF Inv, TypeOK, DaemonsOK, KernelOK, StepAll, outsidePass, l2tp, kernel
<1> QED BY <1>1, <1>2, <1>3, <1>4, <1>5 DEF Inv, TypeOK

(* advertise keeps the invariant and ends the pass. *)
LEMMA Inv_Advertise ==
  ASSUME Inv, Advertise
  PROVE  Inv'
<1>1. CallsAreShaped' /\ PointersLead' /\ FramesOK'
  BY SameCalls DEF Inv, TypeOK, FramesOK, Advertise
<1>2. PassOK'
  BY NothingOK DEF Inv, TypeOK, PassOK, Advertise, EndPass
<1>3. PassIsShaped'
  BY RestingOp DEF Inv, PassIsShaped, Advertise, EndPass, memory
<1>4. AdvertisedRoutes \in SUBSET Subnets
  BY DEF Inv, TypeOK, DataOK, AdvertisedRoutes, Keys
<1>5. DataOK' /\ MemoryOK'
  BY <1>4, SpendOK DEF Inv, TypeOK, DataOK, MemoryOK, Advertise, outsidePass,
     store, memory, Kinds
<1>6. DaemonsOK' /\ KernelOK'
  BY DEF Inv, TypeOK, DaemonsOK, KernelOK, Advertise, outsidePass, l2tp, kernel
<1> QED BY <1>1, <1>2, <1>3, <1>5, <1>6 DEF Inv, TypeOK

(* drop starts one call of the reconciler and resets the tunnel it points  *)
(* to, if the map has one.                                                 *)
LEMMA DropStep ==
  ASSUME Inv, NEW n \in Names, Drop(n)
  PROVE  /\ FramesOK' /\ Others(Rec) /\ MemoryOK' /\ SameKeys
         /\ frame'[Rec].op = "drop" /\ frame'[Rec].name = n
         /\ \/ frame'[Rec].obj = "gone" /\ frame'[Rec].pc = "remove"
            \/ /\ frame'[Rec].obj = "map" /\ tunnels[n] # None
               /\ frame'[Rec].pc \in {"unroute", "hangup"}
<1> FramesOK /\ MemoryOK /\ Rec \in Procs
  BY DEF Inv, TypeOK, Procs
<1>1. CASE tunnels[n] = None
  <2> DEFINE f == Call("drop", "remove", n, None, {}, "gone")
  <2>1. f \in Frame /\ f.op = "drop" /\ f.pc = "remove" /\ f.name = n /\ f.obj = "gone"
    BY DEF Call, Frame, Ops, Points, Phases
  <2>2. frame' = [frame EXCEPT ![Rec] = f] /\ UNCHANGED memory
    BY <1>1 DEF Drop, memory
  <2> HIDE DEF f
  <2> QED BY <2>1, <2>2, CallStep DEF MemoryOK, SameKeys, memory
<1>2. CASE tunnels[n] # None
  <2> DEFINE t == tunnels[n]
             x == TearDown("drop", t.iface)
             f == Call("drop", x, n, t.iface, t.subnets, "map")
             u == Dropped(t)
  <2>1. t \in Tunnel
    BY <1>2 DEF MemoryOK
  <2>2. u \in Tunnel /\ u # None
    BY <2>1 DEF Tunnel, Dropped, Phases
  <2>3. x \in {"unroute", "hangup"}
    BY DEF TearDown, AfterTearDown
  <2>4. /\ frame' = [frame EXCEPT ![Rec] = f] /\ tunnels' = [tunnels EXCEPT ![n] = u]
        /\ stale' = stale
    BY <1>2 DEF Drop
  <2> HIDE DEF x
  <2>5. f \in Frame /\ f.op = "drop" /\ f.pc = x /\ f.name = n /\ f.obj = "map"
    BY <2>1, <2>3 DEF Tunnel, Call, Frame, Ops, Points, Phases
  <2> HIDE DEF f, u
  <2>6. MemoryOK' /\ SameKeys
    BY <1>2, <2>2, <2>4 DEF MemoryOK, SameKeys
  <2> QED BY <1>2, <2>3, <2>4, <2>5, <2>6, CallStep
<1> QED BY <1>1, <1>2

(* The pointers still lead when one call changes and no object moves. *)
LEMMA PointerKeysStep ==
  ASSUME CallsAreShaped, PointersLead, SameKeys, NEW p \in Procs, Others(p),
         frame'[p].obj # "stale", frame'[p].obj = "map" =>
           frame'[p].name \in Names /\ tunnels'[frame'[p].name] # None
  PROVE  PointersLead'
BY PointersHaveNames DEF PointersLead, SameKeys, Others

(* The start of drop, or of pushing an unknown LAC, keeps the invariant. *)
LEMMA Inv_Drop ==
  ASSUME Inv, NEW n \in Names, Drop(n)
  PROVE  Inv'
<1> USE DropStep
<1>1. CallsAreShaped'
  BY ShapeStep DEF Inv, Shaped, Procs
<1>2. PointersLead'
  BY PointerKeysStep DEF Inv, SameKeys, Procs
<1>3. PassIsShaped'
  BY DEF Inv, Drop, PassIsShaped, Keys
<1>4. DataOK' /\ PassOK'
  BY DEF Inv, TypeOK, DataOK, PassOK, Drop, outsidePass, store
<1>5. DaemonsOK' /\ KernelOK'
  BY DEF Inv, TypeOK, DaemonsOK, KernelOK, Drop, outsidePass, l2tp, kernel
<1> QED BY <1>1, <1>2, <1>3, <1>4, <1>5 DEF Inv, TypeOK

(* step puts its tunnel in the map and starts at most one call, which      *)
(* points to it.                                                           *)
LEMMA StepStep ==
  ASSUME Inv, NEW n \in Names, Step(n)
  PROVE  /\ FramesOK' /\ Others(Rec) /\ MemoryOK'
         /\ \A m \in Names : m # n => tunnels'[m] = tunnels[m]
         /\ tunnels'[n] # None
         /\ tunnels[n] # None => /\ tunnels'[n].phase = tunnels[n].phase
                                 /\ tunnels'[n].iface = tunnels[n].iface
                                 /\ tunnels'[n].wait = tunnels[n].wait
         /\ tunnels[n] = None => /\ tunnels'[n].phase = "disconnected"
                                 /\ tunnels'[n].wait = FALSE
         /\ \/ frame'[Rec] = Idle
            \/ /\ frame'[Rec].name = n /\ frame'[Rec].obj = "map"
               /\ tunnels'[n].phase # "up" /\ ~tunnels'[n].wait
               /\ \/ /\ frame'[Rec].op = "fail" /\ frame'[Rec].pc = "lookup"
                     /\ tunnels'[n].phase = "connecting"
                  \/ /\ frame'[Rec].op = "dial" /\ frame'[Rec].pc = "hangup"
                     /\ tunnels'[n].phase # "connecting"
<1> DEFINE old == IF tunnels[n] # None THEN tunnels[n] ELSE NewTunnel
           t == [old EXCEPT !.subnets = SubnetsOf[snap[n]]]
           f == Stepped(n, t)
<1> FramesOK /\ MemoryOK /\ Rec \in Procs
  BY DEF Inv, TypeOK, Procs
<1>1. /\ old \in Tunnel
      /\ tunnels[n] = None => old.phase = "disconnected" /\ old.wait = FALSE
  BY DEF MemoryOK, NewTunnel, Tunnel, Phases
<1>2. SubnetsOf[snap[n]] \in SUBSET Subnets
  BY DEF Inv, TypeOK, PassOK, PassIsShaped, Keys, Step
<1>3. /\ tunnels' = [tunnels EXCEPT ![n] = t] /\ stale' = stale
      /\ frame' = [frame EXCEPT ![Rec] = f]
  BY DEF Step
<1>4. tunnels[n] # None => old = tunnels[n]
  OBVIOUS
<1> HIDE DEF old
<1>5. /\ t \in Tunnel /\ t # None
      /\ t.phase = old.phase /\ t.iface = old.iface /\ t.wait = old.wait
  BY <1>1, <1>2 DEF Tunnel
<1> HIDE DEF t
<1>6. f \in Frame /\ \/ f = Idle
                     \/ /\ f.name = n /\ f.obj = "map"
                        /\ t.phase # "up" /\ ~t.wait
                        /\ \/ /\ f.op = "fail" /\ f.pc = "lookup"
                              /\ t.phase = "connecting"
                           \/ /\ f.op = "dial" /\ f.pc = "hangup"
                              /\ t.phase # "connecting"
  <2>1. CASE t.phase = "up" \/ t.wait
    BY <2>1, IdleIsFrame DEF Stepped
  <2>2. CASE ~(t.phase = "up" \/ t.wait) /\ t.phase = "connecting"
    <3>1. f = Call("fail", "lookup", n, t.iface, {}, "map")
      BY <2>2 DEF Stepped
    <3> HIDE DEF f
    <3> QED BY <1>5, <2>2, <3>1 DEF Tunnel, Call, Frame, Ops, Points, Phases
  <2>3. CASE ~(t.phase = "up" \/ t.wait) /\ t.phase # "connecting"
    <3>1. f = Call("dial", "hangup", n, None, {}, "map")
      BY <2>3 DEF Stepped
    <3> HIDE DEF f
    <3> QED BY <2>3, <3>1 DEF Call, Frame, Ops, Points, Phases
  <2> QED BY <2>1, <2>2, <2>3
<1> HIDE DEF f
<1>7. FramesOK' /\ Others(Rec) /\ frame'[Rec] = f
  BY <1>3, <1>6, CallStep
<1>8. /\ MemoryOK' /\ tunnels'[n] = t
      /\ \A m \in Names : m # n => tunnels'[m] = tunnels[m]
  BY <1>3, <1>5 DEF MemoryOK
<1> QED BY <1>1, <1>4, <1>5, <1>6, <1>7, <1>8

(* step keeps the invariant, whichever of dial, fail and nothing it        *)
(* decides on.                                                             *)
LEMMA Inv_Step ==
  ASSUME Inv, NEW n \in Names, Step(n)
  PROVE  Inv'
<1>1. CallsAreShaped'
  BY StepStep, ShapeStep, IdleIsFrame DEF Inv, Shaped, Procs
<1>2. PointersLead'
  <2>1. frame'[Rec].obj = "map" => frame'[Rec].name \in Names /\ tunnels'[frame'[Rec].name] # None
    BY StepStep, IdleIsFrame
  <2>2. frame'[Rec].obj # "stale" /\ stale' = stale
    BY StepStep, IdleIsFrame DEF Step
  <2>3. \A q \in Procs : frame[q].obj = "map" => frame[q].name \in Names
    BY PointersHaveNames DEF Inv
  <2>4. /\ \A q \in Procs \ {Rec} : frame'[q] = frame[q]
        /\ \A m \in Names : tunnels[m] # None => tunnels'[m] # None
    BY StepStep DEF Others
  <2> QED BY <2>1, <2>2, <2>3, <2>4 DEF Inv, PointersLead
<1>3. PassIsShaped'
  BY StepStep, IdleIsFrame DEF Inv, Step, PassIsShaped, Keys
<1>4. DataOK' /\ PassOK'
  BY DEF Inv, TypeOK, DataOK, PassOK, Step, outsidePass, store
<1>5. DaemonsOK' /\ KernelOK'
  BY DEF Inv, TypeOK, DaemonsOK, KernelOK, Step, outsidePass, l2tp, kernel
<1> QED BY StepStep, <1>1, <1>2, <1>3, <1>4, <1>5 DEF Inv, TypeOK

-----------------------------------------------------------------------------
(* The reconciler's commands to xl2tpd and charon. *)

(* A command leaves the pass, the objects, and the reconciler's call but   *)
(* for where it is.                                                        *)
LEMMA CommandStep ==
  ASSUME Inv, UNCHANGED outsideCommand, NEW x \in Points, Goto(Rec, x),
         Shaped(Rec, [frame[Rec] EXCEPT !.pc = x])
  PROVE  /\ FramesOK' /\ CallsAreShaped' /\ PointersLead' /\ PassIsShaped'
         /\ MemoryOK' /\ PassOK'
<1>1. /\ FramesOK' /\ Others(Rec) /\ SameCall(frame[Rec], frame'[Rec])
      /\ frame'[Rec].pc = x
  BY GotoStep DEF Inv, TypeOK, Procs
<1>2. frame'[Rec] = [frame[Rec] EXCEPT !.pc = x]
  BY DEF Inv, TypeOK, FramesOK, Goto, Procs
<1>3. CallsAreShaped'
  BY <1>1, <1>2, ShapeStep DEF Inv, Procs
<1>4. PointersLead'
  BY <1>1, PointerStep DEF Inv, outsideCommand, SameCall, PointersLead, Procs
<1>5. PassIsShaped'
  BY <1>1, PassShapeStep DEF Inv, outsideCommand, memory, SameCall
<1>6. MemoryOK' /\ PassOK'
  BY DEF Inv, TypeOK, MemoryOK, PassOK, outsideCommand, memory, pass
<1> QED BY <1>1, <1>3, <1>4, <1>5, <1>6

(* A call at another point still is in the shape of its function. *)
LEMMA ShapedAt ==
  ASSUME NEW p, NEW f \in Frame, NEW x \in Points, Shaped(p, f),
         \/ f.op = "disconnect" /\ x \in {"remove", "terminate", "say"}
         \/ f.op = "drop" /\ x \in {"terminate", "say", "add"}
         \/ f.op = "dial" /\ x \in {"initiate", "connect", "connecting", "dialfailed"}
  PROVE  Shaped(p, [f EXCEPT !.pc = x])
<1> DEFINE g == [f EXCEPT !.pc = x]
<1>1. g.op = f.op /\ g.pc = x /\ g.name = f.name
  BY DEF Frame
<1> HIDE DEF g
<1> QED BY <1>1 DEF Shaped

(* Hanging up keeps the types of the calls and the pppds. *)
LEMMA HangUpOK ==
  ASSUME KernelOK, calls \in [Names -> {"idle", "dialing", "up"}], NEW n \in Names, HangUp(n)
  PROVE  /\ ppp' \in [Ifaces -> Link \cup {None}]
         /\ calls' \in [Names -> {"idle", "dialing", "up"}]
<1>1. \A l \in Link : [l EXCEPT !.hup = TRUE] \in Link
  BY DEF Link
<1>2. \A i \in Ifaces : ppp[i] \in Link \cup {None}
  BY DEF KernelOK
<1>3. ppp' = [i \in Ifaces |-> IF ppp[i] # None /\ ppp[i].name = n
                              THEN [ppp[i] EXCEPT !.hup = TRUE] ELSE ppp[i]]
  BY DEF HangUp
<1>4. ppp' \in [Ifaces -> Link \cup {None}]
  BY <1>1, <1>2, <1>3
<1> QED BY <1>4 DEF HangUp

(* The call at a point of the reconciler's own, and that it has a name. *)
LEMMA RecCall ==
  ASSUME Inv
  PROVE  /\ Rec \in Procs /\ frame[Rec] \in Frame /\ Shaped(Rec, frame[Rec])
         /\ At(Rec, "hangup") => frame[Rec].op \in {"disconnect", "drop", "dial"}
         /\ At(Rec, "remove") => frame[Rec].op \in {"disconnect", "drop"}
         /\ At(Rec, "add") => frame[Rec].op = "drop"
         /\ At(Rec, "terminate") => frame[Rec].op \in {"disconnect", "drop"}
         /\ At(Rec, "initiate") \/ At(Rec, "connect") => frame[Rec].op = "dial"
         /\ frame[Rec].op # "idle" => frame[Rec].name \in Names
BY DEF Inv, TypeOK, FramesOK, CallsAreShaped, Shaped, At, Procs

(* Control.Disconnect keeps the invariant in each function that calls it. *)
LEMMA Inv_ControlDisconnect ==
  ASSUME Inv, ControlDisconnect
  PROVE  Inv'
<1> DEFINE x == AfterHangUp(frame[Rec].op)
<1>1. /\ frame[Rec].name \in Names /\ x \in Points
      /\ Shaped(Rec, [frame[Rec] EXCEPT !.pc = x])
  BY RecCall, ShapedAt DEF ControlDisconnect, AfterHangUp, Points
<1>2. /\ FramesOK' /\ CallsAreShaped' /\ PointersLead' /\ PassIsShaped'
      /\ MemoryOK' /\ PassOK'
  BY <1>1, CommandStep DEF ControlDisconnect
<1>3. DataOK'
  BY SpendOK DEF Inv, TypeOK, DataOK, ControlDisconnect, CtlFails, outsideCommand,
     store, Kinds
<1>4. DaemonsOK' /\ KernelOK'
  BY <1>1, HangUpOK DEF Inv, TypeOK, DaemonsOK, KernelOK, ControlDisconnect,
     outsideCommand, kernel
<1> QED BY <1>2, <1>3, <1>4 DEF Inv, TypeOK

(* Control.Remove keeps the invariant in each function that calls it. *)
LEMMA Inv_ControlRemove ==
  ASSUME Inv, ControlRemove
  PROVE  Inv'
<1> DEFINE x == AfterRemove(frame[Rec].op)
<1>1. /\ frame[Rec].name \in Names /\ x \in Points
      /\ Shaped(Rec, [frame[Rec] EXCEPT !.pc = x])
  BY RecCall, ShapedAt DEF ControlRemove, AfterRemove, Points
<1>2. /\ FramesOK' /\ CallsAreShaped' /\ PointersLead' /\ PassIsShaped'
      /\ MemoryOK' /\ PassOK'
  BY <1>1, CommandStep DEF ControlRemove
<1>3. DataOK'
  BY SpendOK DEF Inv, TypeOK, DataOK, ControlRemove, CtlFails, outsideCommand,
     store, Kinds
<1>4. DaemonsOK' /\ KernelOK'
  BY <1>1, HangUpOK DEF Inv, TypeOK, DaemonsOK, KernelOK, ControlRemove,
     outsideCommand, kernel
<1> QED BY <1>2, <1>3, <1>4 DEF Inv, TypeOK

(* Control.Add keeps the invariant and ends the call. *)
LEMMA Inv_ControlAdd ==
  ASSUME Inv, ControlAdd
  PROVE  Inv'
<1>1. FramesOK' /\ Others(Rec) /\ frame'[Rec] = Idle
  BY CallStep, IdleIsFrame, RecCall DEF Inv, TypeOK, ControlAdd, Return
<1>2. CallsAreShaped' /\ PointersLead'
  BY <1>1, ShapeStep, PointerStep, IdleIsFrame, RecCall
     DEF Inv, ControlAdd, Shaped, outsideCommand
<1>3. PassIsShaped'
  BY <1>1, PassShapeStep, IdleIsFrame DEF Inv, ControlAdd, outsideCommand, memory
<1>4. DataOK'
  BY SpendOK DEF Inv, TypeOK, DataOK, ControlAdd, CtlFails, outsideCommand,
     store, Kinds
<1>5. DaemonsOK'
  <2>1. want[frame[Rec].name] \in Rendering
    BY RecCall DEF Inv, TypeOK, PassOK, PassIsShaped, ControlAdd
  <2>2. want[frame[Rec].name].row \in Configs
    BY <2>1 DEF Rendering
  <2> QED BY <2>2 DEF Inv, TypeOK, DaemonsOK, ControlAdd, outsideCommand
<1>6. MemoryOK' /\ PassOK' /\ KernelOK'
  BY DEF Inv, TypeOK, MemoryOK, PassOK, KernelOK, ControlAdd, outsideCommand,
     memory, pass, kernel
<1> QED BY <1>1, <1>2, <1>3, <1>4, <1>5, <1>6 DEF Inv, TypeOK

(* terminate keeps the invariant. *)
LEMMA Inv_Terminate ==
  ASSUME Inv, Terminate
  PROVE  Inv'
<1>1. "say" \in Points /\ Shaped(Rec, [frame[Rec] EXCEPT !.pc = "say"])
  BY RecCall, ShapedAt DEF Terminate, Points
<1>2. /\ FramesOK' /\ CallsAreShaped' /\ PointersLead' /\ PassIsShaped'
      /\ MemoryOK' /\ PassOK'
  BY <1>1, CommandStep DEF Terminate
<1>3. DataOK'
  BY SpendOK DEF Inv, TypeOK, DataOK, Terminate, outsideCommand, store, Kinds
<1>4. DaemonsOK' /\ KernelOK'
  BY DEF Inv, TypeOK, DaemonsOK, KernelOK, Terminate, outsideCommand, kernel
<1> QED BY <1>2, <1>3, <1>4 DEF Inv, TypeOK

(* swanctl --initiate keeps the invariant, also when it fails and dial     *)
(* gives up.                                                               *)
LEMMA Inv_Initiate ==
  ASSUME Inv, Initiate
  PROVE  Inv'
<1>1. \A x \in {"connect", "dialfailed"} :
        x \in Points /\ Shaped(Rec, [frame[Rec] EXCEPT !.pc = x])
  BY RecCall, ShapedAt DEF Initiate, Points
<1>2. /\ FramesOK' /\ CallsAreShaped' /\ PointersLead' /\ PassIsShaped'
      /\ MemoryOK' /\ PassOK'
  BY <1>1, CommandStep DEF Initiate
<1>3. DataOK'
  BY SpendOK DEF Inv, TypeOK, DataOK, Initiate, outsideCommand, store, Kinds
<1>4. DaemonsOK' /\ KernelOK'
  BY RecCall DEF Inv, TypeOK, DaemonsOK, KernelOK, Initiate, outsideCommand, kernel
<1> QED BY <1>2, <1>3, <1>4 DEF Inv, TypeOK

(* Control.Connect keeps the invariant, also when it fails and dial gives  *)
(* up.                                                                     *)
LEMMA Inv_ControlConnect ==
  ASSUME Inv, ControlConnect
  PROVE  Inv'
<1>1. \A x \in {"connecting", "dialfailed"} :
        x \in Points /\ Shaped(Rec, [frame[Rec] EXCEPT !.pc = x])
  BY RecCall, ShapedAt DEF ControlConnect, Points
<1>2. /\ FramesOK' /\ CallsAreShaped' /\ PointersLead' /\ PassIsShaped'
      /\ MemoryOK' /\ PassOK'
  BY <1>1, CommandStep DEF ControlConnect
<1>3. DataOK'
  BY SpendOK DEF Inv, TypeOK, DataOK, ControlConnect, CtlFails, outsideCommand,
     store, Kinds
<1>4. DaemonsOK' /\ KernelOK'
  BY RecCall DEF Inv, TypeOK, DaemonsOK, KernelOK, ControlConnect, outsideCommand, kernel
<1> QED BY <1>2, <1>3, <1>4 DEF Inv, TypeOK

-----------------------------------------------------------------------------
(* Calls from outside. *)

(* A hook goroutine, or a check, starts a call: the pass goes on.          *)
LEMMA OutsideStep ==
  ASSUME Inv, UNCHANGED outsideEvent, NEW p \in Procs \ {Rec}, NEW f \in Frame,
         frame' = [frame EXCEPT ![p] = f], Shaped(p, f), f.obj # "stale",
         f.obj = "map" => tunnels[f.name] # None
  PROVE  /\ FramesOK' /\ CallsAreShaped' /\ PointersLead' /\ PassIsShaped'
         /\ MemoryOK' /\ PassOK' /\ Others(p) /\ frame'[p] = f
<1>1. FramesOK' /\ Others(p) /\ frame'[p] = f
  BY CallStep DEF Inv, TypeOK
<1>2. CallsAreShaped' /\ PointersLead'
  BY <1>1, ShapeStep, PointerStep DEF Inv, outsideEvent
<1>3. PassIsShaped'
  BY <1>1, PassShapeStep DEF Inv, outsideEvent, memory, Others, Procs
<1>4. MemoryOK' /\ PassOK'
  BY DEF Inv, TypeOK, MemoryOK, PassOK, outsideEvent, memory, pass
<1> QED BY <1>1, <1>2, <1>3, <1>4

(* An event that starts no call. *)
LEMMA QuietStep ==
  ASSUME Inv, UNCHANGED outsideEvent, UNCHANGED frame
  PROVE  /\ FramesOK' /\ CallsAreShaped' /\ PointersLead' /\ PassIsShaped'
         /\ MemoryOK' /\ PassOK'
<1>1. CallsAreShaped' /\ PointersLead' /\ FramesOK'
  BY SameCalls DEF Inv, TypeOK, FramesOK, outsideEvent
<1>2. PassIsShaped'
  BY PassShapeStep DEF Inv, outsideEvent, memory
<1>3. MemoryOK' /\ PassOK'
  BY DEF Inv, TypeOK, MemoryOK, PassOK, outsideEvent, memory, pass
<1> QED BY <1>1, <1>2, <1>3

(* A hook goroutine or a check is never the reconciler. *)
LEMMA HooksAreProcs ==
  Hooks \subseteq Procs \ {Rec} /\ Checks \subseteq Procs \ {Rec}
BY DEF Procs

(* The start of PPPUp keeps the invariant: it points to a tunnel of the    *)
(* map or reports an unknown one.                                          *)
LEMMA Inv_PPPUp ==
  ASSUME Inv, NEW i \in Ifaces, NEW h \in Hooks, PPPUp(i, h)
  PROVE  Inv'
<1> DEFINE n == ppp[i].name
           t == tunnels[n]
           f == Call("up", "routes", n, i, t.subnets, "map")
<1>1. ppp[i] \in Link
  BY DEF Inv, TypeOK, KernelOK, PPPUp
<1>2. n \in Names /\ [ppp[i] EXCEPT !.st = "open"] \in Link
  BY <1>1 DEF Link
<1>3. /\ FramesOK' /\ CallsAreShaped' /\ PointersLead' /\ PassIsShaped'
      /\ MemoryOK' /\ PassOK'
  <2>1. CASE t = None
    BY <2>1, QuietStep DEF PPPUp
  <2>2. CASE t # None
    <3>1. t \in Tunnel
      BY <1>2, <2>2 DEF Inv, TypeOK, MemoryOK
    <3>2. f \in Frame /\ f.obj = "map" /\ f.name = n /\ f.op = "up" /\ f.pc = "routes"
          /\ f.iface = i
      BY <1>2, <3>1 DEF Tunnel, Call, Frame, Ops, Points, Phases
    <3>3. frame' = [frame EXCEPT ![h] = f] /\ UNCHANGED outsideEvent
      BY <2>2 DEF PPPUp
    <3> HIDE DEF f
    <3>4. Shaped(h, f)
      BY <1>2, <3>2 DEF Shaped
    <3> QED BY <2>2, <3>2, <3>3, <3>4, OutsideStep, HooksAreProcs
  <2> QED BY <2>1, <2>2
<1>4. DataOK' /\ DaemonsOK'
  BY DEF Inv, TypeOK, DataOK, DaemonsOK, PPPUp, outsideEvent, store, ike, l2tp
<1>5. KernelOK'
  BY <1>2 DEF Inv, TypeOK, KernelOK, PPPUp, outsideEvent
<1> QED BY <1>3, <1>4, <1>5 DEF Inv, TypeOK

(* The start of PPPDown keeps the invariant: it points to a tunnel of the  *)
(* map or does nothing.                                                    *)
LEMMA Inv_PPPDown ==
  ASSUME Inv, NEW i \in Ifaces, NEW h \in Hooks, PPPDown(i, h)
  PROVE  Inv'
<1> DEFINE n == ppp[i].name
           t == tunnels[n]
           x == TearDown("down", i)
           f == Call("down", x, n, i, t.subnets, "map")
<1>1. ppp[i] \in Link
  BY DEF Inv, TypeOK, KernelOK, PPPDown
<1>2. n \in Names
  BY <1>1 DEF Link
<1>3. /\ FramesOK' /\ CallsAreShaped' /\ PointersLead' /\ PassIsShaped'
      /\ MemoryOK' /\ PassOK'
  <2>1. CASE t = None
    BY <2>1, QuietStep DEF PPPDown
  <2>2. CASE t # None
    <3>1. t \in Tunnel
      BY <1>2, <2>2 DEF Inv, TypeOK, MemoryOK
    <3>2. x \in {"unroute", "down"}
      BY DEF TearDown, AfterTearDown
    <3>3. frame' = [frame EXCEPT ![h] = f] /\ UNCHANGED outsideEvent
      BY <2>2 DEF PPPDown
    <3> HIDE DEF x
    <3>4. f \in Frame /\ f.obj = "map" /\ f.name = n /\ f.op = "down" /\ f.pc = x
      BY <1>2, <3>1, <3>2 DEF Tunnel, Call, Frame, Ops, Points, Phases
    <3> HIDE DEF f
    <3>5. Shaped(h, f)
      BY <1>2, <3>2, <3>4 DEF Shaped
    <3> QED BY <2>2, <3>3, <3>4, <3>5, OutsideStep, HooksAreProcs
  <2> QED BY <2>1, <2>2
<1>4. DataOK' /\ DaemonsOK'
  BY DEF Inv, TypeOK, DataOK, DaemonsOK, PPPDown, outsideEvent, store, ike, l2tp
<1>5. KernelOK'
  BY DEF Inv, TypeOK, KernelOK, PPPDown, outsideEvent
<1> QED BY <1>3, <1>4, <1>5 DEF Inv, TypeOK

(* A hook or a check whose request is cancelled keeps the invariant. *)
LEMMA Inv_Cancelled ==
  ASSUME Inv, NEW h \in Hooks \cup Checks, Abandon(h) \/ Leave(h)
  PROVE  Inv'
<1> DEFINE f == [frame[h] EXCEPT !.live = FALSE]
<1>1. frame[h] \in Frame /\ h \in Procs \ {Rec} /\ Shaped(h, frame[h])
  BY HooksAreProcs DEF Inv, TypeOK, FramesOK, CallsAreShaped
<1>2. /\ f \in Frame /\ f.op = frame[h].op /\ f.pc = frame[h].pc
      /\ f.name = frame[h].name /\ f.iface = frame[h].iface /\ f.obj = frame[h].obj
  BY <1>1 DEF Frame
<1>3. frame' = [frame EXCEPT ![h] = f]
  BY DEF Abandon, Leave
<1> HIDE DEF f
<1>4. FramesOK' /\ Others(h) /\ frame'[h] = f
  BY <1>1, <1>2, <1>3, CallStep DEF Inv, TypeOK
<1>5. CallsAreShaped'
  BY <1>1, <1>2, <1>4, ShapeStep DEF Inv, Shaped
<1>6. PointersLead'
  BY <1>1, <1>2, <1>4, PointerStep DEF Inv, Abandon, Leave, outsideEvent, PointersLead
<1>7. PassIsShaped'
  BY <1>1, <1>4, PassShapeStep DEF Inv, Abandon, Leave, outsideEvent, memory, Others, Procs
<1>8. DataOK' /\ MemoryOK' /\ PassOK'
  BY SpendOK DEF Inv, TypeOK, DataOK, MemoryOK, PassOK, Abandon, Leave, outsideEvent,
     store, memory, pass, Kinds
<1>9. DaemonsOK' /\ KernelOK'
  BY DEF Inv, TypeOK, DaemonsOK, KernelOK, Abandon, Leave, outsideEvent, ike, l2tp
<1> QED BY <1>4, <1>5, <1>6, <1>7, <1>8, <1>9 DEF Inv, TypeOK

(* A check's report of an unhealthy tunnel keeps the invariant. *)
LEMMA Inv_Trip ==
  ASSUME Inv, NEW c \in Checks, NEW n \in Names, Trip(c, n)
  PROVE  Inv'
<1> DEFINE f == Call("fail", "probe", n, None, {}, "gone")
<1>1. f \in Frame /\ f.op = "fail" /\ f.pc = "probe" /\ f.name = n /\ f.obj = "gone"
  BY DEF Call, Frame, Ops, Points, Phases
<1>2. frame' = [frame EXCEPT ![c] = f] /\ UNCHANGED outsideEvent
  BY DEF Trip
<1> HIDE DEF f
<1>3. Shaped(c, f)
  BY <1>1 DEF Shaped
<1>4. /\ FramesOK' /\ CallsAreShaped' /\ PointersLead' /\ PassIsShaped'
      /\ MemoryOK' /\ PassOK'
  BY <1>1, <1>2, <1>3, OutsideStep, HooksAreProcs
<1>5. DataOK'
  BY SpendOK DEF Inv, TypeOK, DataOK, Trip, outsideEvent, store, Kinds
<1>6. DaemonsOK' /\ KernelOK'
  BY DEF Inv, TypeOK, DaemonsOK, KernelOK, Trip, outsideEvent, ike, l2tp
<1> QED BY <1>4, <1>5, <1>6 DEF Inv, TypeOK

-----------------------------------------------------------------------------
(* The surroundings. *)

(* What the operator, DNS and the clock leave alone. *)
LEMMA OperatorStep ==
  ASSUME Inv, UNCHANGED outsideOperator, UNCHANGED frame,
         \A n \in Names : tunnels'[n] = None <=> tunnels[n] = None
  PROVE  /\ FramesOK' /\ CallsAreShaped' /\ PointersLead' /\ PassIsShaped'
         /\ PassOK' /\ DaemonsOK' /\ KernelOK'
<1>1. CallsAreShaped' /\ FramesOK'
  BY DEF Inv, TypeOK, FramesOK, CallsAreShaped, Shaped
<1>2. PointersLead'
  <2>1. \A q \in Procs : frame[q].obj = "map" => frame[q].name \in Names
    BY PointersHaveNames DEF Inv
  <2> QED BY <2>1 DEF Inv, PointersLead, outsideOperator
<1>3. PassIsShaped'
  BY PassShapeStep DEF Inv, outsideOperator
<1>4. PassOK' /\ DaemonsOK' /\ KernelOK'
  BY DEF Inv, TypeOK, PassOK, DaemonsOK, KernelOK, outsideOperator, pass, ike,
     l2tp, kernel
<1> QED BY <1>1, <1>2, <1>3, <1>4

(* An edit of the operator keeps the invariant. *)
LEMMA Inv_Edit ==
  ASSUME Inv, NEW n \in Names, NEW c \in Configs, Edit(n, c)
  PROVE  Inv'
<1>1. /\ FramesOK' /\ CallsAreShaped' /\ PointersLead' /\ PassIsShaped'
      /\ PassOK' /\ DaemonsOK' /\ KernelOK'
  BY OperatorStep DEF Edit
<1>2. DataOK' /\ MemoryOK'
  BY SpendOK DEF Inv, TypeOK, DataOK, MemoryOK, Edit, outsideOperator, Kinds
<1> QED BY <1>1, <1>2 DEF Inv, TypeOK

(* Disabling a connection keeps the invariant. *)
LEMMA Inv_SwitchOff ==
  ASSUME Inv, NEW n \in Names, SwitchOff(n)
  PROVE  Inv'
<1>1. /\ FramesOK' /\ CallsAreShaped' /\ PointersLead' /\ PassIsShaped'
      /\ PassOK' /\ DaemonsOK' /\ KernelOK'
  BY OperatorStep DEF SwitchOff
<1>2. DataOK' /\ MemoryOK'
  BY SpendOK DEF Inv, TypeOK, DataOK, MemoryOK, SwitchOff, outsideOperator, Kinds
<1> QED BY <1>1, <1>2 DEF Inv, TypeOK

(* A gateway name that starts or stops resolving keeps the invariant. *)
LEMMA Inv_Flap ==
  ASSUME Inv, Flap
  PROVE  Inv'
<1>1. /\ FramesOK' /\ CallsAreShaped' /\ PointersLead' /\ PassIsShaped'
      /\ PassOK' /\ DaemonsOK' /\ KernelOK'
  BY OperatorStep DEF Flap
<1>2. DataOK' /\ MemoryOK'
  BY SpendOK DEF Inv, TypeOK, DataOK, MemoryOK, Flap, outsideOperator, Kinds
<1> QED BY <1>1, <1>2 DEF Inv, TypeOK

(* A timer that fires changes nothing of its tunnel but the timer. *)
LEMMA ElapseStep ==
  ASSUME Inv, NEW n \in Names, Elapse(n)
  PROVE  /\ MemoryOK' /\ SameKeys
         /\ \A m \in Names : tunnels[m] # None =>
              /\ tunnels'[m].phase = tunnels[m].phase
              /\ tunnels'[m].iface = tunnels[m].iface
         /\ \A m \in Names : m # n => tunnels'[m] = tunnels[m]
         /\ tunnels'[n].wait = FALSE
<1> DEFINE t == [tunnels[n] EXCEPT !.wait = FALSE]
<1>1. tunnels[n] \in Tunnel
  BY DEF Inv, TypeOK, MemoryOK, Elapse
<1>2. /\ t \in Tunnel /\ t # None /\ t.wait = FALSE
      /\ t.phase = tunnels[n].phase /\ t.iface = tunnels[n].iface
  BY <1>1 DEF Tunnel
<1>3. tunnels' = [tunnels EXCEPT ![n] = t] /\ stale' = stale /\ tunnels[n] # None
  BY DEF Elapse, outsideOperator
<1> HIDE DEF t
<1> QED BY <1>2, <1>3 DEF Inv, TypeOK, MemoryOK, SameKeys

(* A dial timeout or backoff that runs out keeps the invariant. *)
LEMMA Inv_Elapse ==
  ASSUME Inv, NEW n \in Names, Elapse(n)
  PROVE  Inv'
<1>1. /\ FramesOK' /\ CallsAreShaped' /\ PointersLead' /\ PassIsShaped'
      /\ PassOK' /\ DaemonsOK' /\ KernelOK'
  BY OperatorStep, ElapseStep DEF Elapse, SameKeys
<1>2. DataOK'
  BY SpendOK DEF Inv, TypeOK, DataOK, Elapse, outsideOperator, store, Kinds
<1> QED BY <1>1, <1>2, ElapseStep DEF Inv, TypeOK

(* The starts, exits and reports of the daemons. *)
LEMMA Inv_Daemons ==
  ASSUME Inv, Daemons
  PROVE  Inv'
<1>1. UNCHANGED outsideEvent /\ UNCHANGED frame
  BY DEF Daemons, CharonStarts, CharonReady, CharonExits, Xl2tpdStarts,
     Xl2tpdReady, Xl2tpdExits, Invalidate
<1>2. /\ FramesOK' /\ CallsAreShaped' /\ PointersLead' /\ PassIsShaped'
      /\ MemoryOK' /\ PassOK'
  BY <1>1, QuietStep
<1>3. CASE CharonStarts
  BY <1>2, <1>3, SpendOK DEF Inv, TypeOK, DataOK, DaemonsOK, KernelOK, CharonStarts,
     outsideEvent, store, l2tp, Kinds
<1>4. CASE CharonReady
  BY <1>2, <1>4, SpendOK DEF Inv, TypeOK, DataOK, DaemonsOK, KernelOK, CharonReady,
     outsideEvent, store, l2tp, Kinds
<1>5. CASE CharonExits
  BY <1>2, <1>5, SpendOK, NothingOK DEF Inv, TypeOK, DataOK, DaemonsOK, KernelOK,
     CharonExits, outsideEvent, store, l2tp, Kinds
<1>6. CASE Xl2tpdStarts
  BY <1>2, <1>6 DEF Inv, TypeOK, DataOK, DaemonsOK, KernelOK, Xl2tpdStarts,
     outsideEvent, store, ike
<1>7. CASE Xl2tpdReady
  <2>1. lacs' \in [Names -> Configs \cup {None}]
    BY <1>7 DEF Inv, TypeOK, DataOK, Rendering, Xl2tpdReady
  <2> QED BY <1>2, <1>7, <2>1 DEF Inv, TypeOK, DataOK, DaemonsOK, KernelOK,
          Xl2tpdReady, outsideEvent, store, ike
<1>8. CASE Xl2tpdExits
  <2>1. \A l \in Link : [l EXCEPT !.hup = TRUE] \in Link
    BY DEF Link
  <2>2. ppp' \in [Ifaces -> Link \cup {None}]
    BY <1>8, <2>1 DEF Inv, TypeOK, KernelOK, Xl2tpdExits
  <2>3. DaemonsOK' /\ KernelOK'
    BY <1>8, <2>2, NothingOK DEF Inv, TypeOK, DaemonsOK, KernelOK, Xl2tpdExits,
       outsideEvent, ike
  <2>4. DataOK'
    BY <1>8, SpendOK DEF Inv, TypeOK, DataOK, Xl2tpdExits, outsideEvent, store, Kinds
  <2> QED BY <1>2, <2>3, <2>4 DEF Inv, TypeOK
<1>9. ASSUME NEW d, Invalidate(d) PROVE Inv'
  BY <1>2, <1>9, NothingOK DEF Inv, TypeOK, DataOK, DaemonsOK, KernelOK, Invalidate,
     outsideEvent, store, ike, l2tp
<1> QED BY <1>3, <1>4, <1>5, <1>6, <1>7, <1>8, <1>9 DEF Daemons

(* A call that gets through and starts a pppd keeps the invariant. *)
LEMMA Inv_SessionUp ==
  ASSUME Inv, NEW n \in Names, NEW i \in Ifaces, SessionUp(n, i)
  PROVE  Inv'
<1>1. /\ FramesOK' /\ CallsAreShaped' /\ PointersLead' /\ PassIsShaped'
      /\ MemoryOK' /\ PassOK'
  BY QuietStep DEF SessionUp
<1>2. KernelOK'
  <2>1. [name |-> n, st |-> "new", hup |-> FALSE] \in Link
    BY DEF Link
  <2> QED BY <2>1 DEF Inv, TypeOK, KernelOK, SessionUp, outsideEvent
<1>3. DataOK' /\ DaemonsOK'
  BY DEF Inv, TypeOK, DataOK, DaemonsOK, SessionUp, outsideEvent, store, ike
<1> QED BY <1>1, <1>2, <1>3 DEF Inv, TypeOK

(* A session that dies keeps the invariant. *)
LEMMA Inv_LinkDies ==
  ASSUME Inv, NEW i \in Ifaces, LinkDies(i)
  PROVE  Inv'
<1>1. /\ FramesOK' /\ CallsAreShaped' /\ PointersLead' /\ PassIsShaped'
      /\ MemoryOK' /\ PassOK'
  BY QuietStep DEF LinkDies
<1>2. ppp[i] \in Link
  BY DEF Inv, TypeOK, KernelOK, LinkDies
<1>3. KernelOK'
  <2>1. [ppp[i] EXCEPT !.st = "dead"] \in Link
    BY <1>2 DEF Link
  <2>2. ppp' = [ppp EXCEPT ![i] = [ppp[i] EXCEPT !.st = "dead"]]
    BY DEF LinkDies
  <2> QED BY <2>1, <2>2 DEF Inv, TypeOK, KernelOK, LinkDies, outsideEvent
<1>4. DataOK'
  BY SpendOK DEF Inv, TypeOK, DataOK, LinkDies, outsideEvent, store, Kinds
<1>5. DaemonsOK'
  <2>1. ppp[i].name \in Names
    BY <1>2 DEF Link
  <2> QED BY <2>1 DEF Inv, TypeOK, DaemonsOK, LinkDies, ike
<1> QED BY <1>1, <1>3, <1>4, <1>5 DEF Inv, TypeOK

-----------------------------------------------------------------------------
(* The invariant *)

(* The invariant holds when main has started. *)
LEMMA Inv_Init ==
  ASSUME Init
  PROVE  Inv
<1>1. FramesOK /\ CallsAreShaped /\ PointersLead
  BY IdleIsFrame DEF Init, FramesOK, CallsAreShaped, Shaped, PointersLead
<1>2. PassIsShaped
  BY IdleIsFrame DEF Init, PassIsShaped, Procs
<1>3. DataOK
  <2>1. \A c \in Configs : Fingerprint(c, c) \in Rendering
    BY DEF Init, Fingerprint, Rendering
  <2>2. disk \in [Names -> Rendering \cup {None}]
    BY <2>1 DEF Init
  <2> QED BY <2>2, NothingOK DEF Init, DataOK, Phases
<1>4. MemoryOK /\ PassOK /\ DaemonsOK /\ KernelOK
  BY NothingOK DEF Init, MemoryOK, PassOK, DaemonsOK, KernelOK
<1> QED BY <1>1, <1>2, <1>3, <1>4 DEF Inv, TypeOK

(* Every step keeps the invariant. *)
LEMMA Inv_Next ==
  ASSUME Inv, [Next]_vars
  PROVE  Inv'
<1>1. CASE Pass
  BY <1>1, Inv_StartPass, Inv_Render, Inv_WriteFiles, Inv_LoadAll, Inv_Commit,
     Inv_StepAll, Inv_Advertise, Inv_Disconnect, Inv_Drop, Inv_Step DEF Pass
<1>2. CASE Command
  BY <1>2, Inv_ControlDisconnect, Inv_ControlRemove, Inv_ControlAdd,
     Inv_Terminate, Inv_Initiate, Inv_ControlConnect DEF Command
<1>3. CASE Daemons
  BY <1>3, Inv_Daemons
<1>4. CASE Sessions
  BY <1>4, Inv_SessionUp, Inv_LinkDies, Inv_PPPUp, Inv_PPPDown, Inv_Cancelled DEF Sessions
<1>5. CASE Operator
  BY <1>5, Inv_Flap, Inv_SwitchOff, Inv_Elapse, Inv_Trip, Inv_Edit, Inv_Cancelled
     DEF Operator
<1>6. ASSUME NEW p \in Procs, Continue(p) PROVE Inv'
  BY <1>6, Inv_RemoveRoutes, Inv_DisableNAT, Inv_AddRoutes, Inv_EnableNAT,
     Inv_SetPhase, Inv_SetStatus, Inv_Unhealthy, Inv_Fail DEF Continue
<1>7. CASE UNCHANGED vars
  <2>1. CallsAreShaped' /\ PointersLead' /\ PassIsShaped' /\ FramesOK'
    BY <1>7 DEF Inv, TypeOK, FramesOK, CallsAreShaped, Shaped, PointersLead,
       PassIsShaped, Keys, vars, memory, pass
  <2>2. DataOK' /\ MemoryOK' /\ PassOK' /\ DaemonsOK' /\ KernelOK'
    BY <1>7 DEF Inv, TypeOK, DataOK, MemoryOK, PassOK, DaemonsOK, KernelOK, vars,
       store, memory, pass, ike, l2tp, kernel
  <2> QED BY <2>1, <2>2 DEF Inv, TypeOK
<1> QED BY <1>1, <1>2, <1>3, <1>4, <1>5, <1>6, <1>7 DEF Next

(* The invariant holds in every reachable state. *)
LEMMA InvHolds == Spec => []Inv
<1>1. Init => Inv
  BY Inv_Init
<1>2. Inv /\ [Next]_vars => Inv'
  BY Inv_Next
<1> QED BY <1>1, <1>2, PTL DEF Spec

(* Every variable of the manager and of what it sees keeps its type,       *)
(* whatever the goroutines, the daemons and the faults do: no lookup finds *)
(* a tunnel without a phase, a call without a connection or an interface   *)
(* that is none.                                                           *)
THEOREM TypeCorrect == Spec => []TypeOK
<1>1. Inv => TypeOK
  BY DEF Inv
<1> QED BY <1>1, InvHolds, PTL

-----------------------------------------------------------------------------
(* Safety: what follows from the invariant, and what needs more than it.   *)

(* Comparing the wanted names and the number of fingerprints is enough:    *)
(* every wanted one is there, and there is room for no other.              *)
LEMMA SkipsMeansSame ==
  ASSUME NEW S, NEW have \in [Names -> S], NEW wanted \in [Names -> S],
         Skips(have, wanted)
  PROVE  have = wanted
<1>1. \A n \in Names : wanted[n] # None => have[n] = wanted[n]
  BY DEF Skips, ChangedTunnels
<1>2. Keys(wanted) \subseteq Keys(have)
  BY <1>1 DEF Keys
<1>3. IsFiniteSet(Keys(have))
  <2>1. Keys(have) \in SUBSET Names /\ IsFiniteSet(Names)
    BY ConstantsAssumption DEF Keys
  <2> QED BY <2>1, FS_Subset
<1>4. Keys(have) = Keys(wanted)
  BY <1>2, <1>3, FS_Subset DEF Skips
<1>5. \A n \in Names : have[n] = wanted[n]
  BY <1>1, <1>4 DEF Keys
<1> QED BY <1>5

(* Only Render goes from the disconnects to the dials. *)
LEMMA OnlyRenderSkips ==
  ASSUME [Next]_vars, rpc = "disconnect", rpc' = "step"
  PROVE  Render
<1>1. CASE Pass
  BY <1>1 DEF Pass, StartPass, WriteFiles, LoadAll, Commit, StepAll, Advertise,
     EndPass, Disconnect, Drop, Step, pass
<1>2. CASE Command
  BY <1>2 DEF Command, ControlDisconnect, ControlRemove, ControlAdd, Terminate,
     Initiate, ControlConnect, outsideCommand, pass
<1>3. CASE Daemons
  BY <1>3 DEF Daemons, CharonStarts, CharonReady, CharonExits, Xl2tpdStarts,
     Xl2tpdReady, Xl2tpdExits, Invalidate, outsideEvent, pass
<1>4. CASE Sessions
  BY <1>4 DEF Sessions, SessionUp, LinkDies, PPPUp, PPPDown, Abandon,
     outsideEvent, pass
<1>5. CASE Operator
  BY <1>5 DEF Operator, Flap, SwitchOff, Elapse, Trip, Leave, Edit, outsideOperator,
     outsideEvent, pass
<1>6. ASSUME NEW p \in Procs, Continue(p) PROVE FALSE
  BY <1>6 DEF Continue, RemoveRoutes, DisableNAT, AddRoutes, EnableNAT,
     SetPhase, SetStatus, Unhealthy, Fail, outsideCall, pass
<1>7. CASE UNCHANGED vars
  BY <1>7 DEF vars, pass
<1> QED BY <1>1, <1>2, <1>3, <1>4, <1>5, <1>6, <1>7 DEF Next

(* Whenever writeConfigs returns early, the fingerprints of the last load  *)
(* are the ones this pass wants, for any number of connections.            *)
THEOREM SkipSound == Spec => SkipIsSound
<1>1. ASSUME Inv, [Next]_vars, rpc = "disconnect", rpc' = "step"
      PROVE  rendered = want'
  <2>1. want' = Desired /\ Skips(rendered, want')
    BY <1>1, OnlyRenderSkips DEF Render, EndPass
  <2>2. rendered \in [Names -> Rendering \cup {None}]
    BY <1>1 DEF Inv, TypeOK, DataOK
  <2>3. want' \in [Names -> Rendering \cup {None}]
    BY <1>1, <2>1, DesiredOK
  <2> QED BY <2>1, <2>2, <2>3, SkipsMeansSame
<1>2. Inv /\ [Next]_vars => [rpc = "disconnect" /\ rpc' = "step" => rendered = want']_vars
  BY <1>1
<1> QED BY <1>2, InvHolds, PTL DEF Spec, SkipIsSound

-----------------------------------------------------------------------------
(* Sessions *)

(* pppd has not been told to go and still has its device. *)
Running(i) == ppp[i] # None /\ ppp[i].st # "dead" /\ ~ppp[i].hup

(* A running pppd is the call of its LAC, which has one, and only xl2tpd   *)
(* has calls.                                                              *)
CallsMatch ==
  /\ \A i \in Ifaces : Running(i) => calls[ppp[i].name] = "up"
  /\ \A i, j \in Ifaces : Running(i) /\ Running(j) /\ ppp[i].name = ppp[j].name => i = j
  /\ xl2tpd # "ready" => \A n \in Names : calls[n] = "idle"

Kept(n) == tunnels[n] # None \/ stale[n] # None \/ Releasing(n)

(* A call has an object, or disconnect still has to hang it up; and the    *)
(* one the reconciler dials is in the map.                                 *)
CallsAreKept ==
  /\ spent["ctl"] = 0 => \A n \in Names : calls[n] # "idle" => Kept(n)
  /\ frame[Rec].op = "dial" => frame[Rec].obj = "map"

SessionInv == CallsMatch /\ CallsAreKept

(* The actions that touch neither pppd nor xl2tpd. *)
LEMMA OthersLeaveCalls ==
  ASSUME \/ Pass \/ Operator \/ UNCHANGED vars
         \/ \E p \in Procs : Continue(p)
         \/ ControlAdd \/ Terminate \/ Initiate
         \/ CharonStarts \/ CharonReady \/ CharonExits
         \/ \E d : Invalidate(d)
         \/ \E h \in Hooks : Abandon(h)
  PROVE  UNCHANGED <<calls, ppp, xl2tpd>>
<1>1. CASE Pass
  BY <1>1 DEF Pass, StartPass, Render, WriteFiles, LoadAll, Commit, StepAll,
     Advertise, Disconnect, Drop, Step, outsidePass, l2tp
<1>2. CASE Operator
  BY <1>2 DEF Operator, Flap, SwitchOff, Elapse, Trip, Leave, Edit, outsideOperator, l2tp
<1>3. CASE UNCHANGED vars
  BY <1>3 DEF vars, l2tp
<1>4. CASE \E p \in Procs : Continue(p)
  BY <1>4 DEF Continue, RemoveRoutes, DisableNAT, AddRoutes, EnableNAT,
     SetPhase, SetStatus, Unhealthy, Fail, outsideCall, l2tp
<1>5. CASE ControlAdd \/ Terminate \/ Initiate
  BY <1>5 DEF ControlAdd, Terminate, Initiate, outsideCommand
<1>6. CASE \/ CharonStarts \/ CharonReady \/ CharonExits
           \/ \E d : Invalidate(d)
           \/ \E h \in Hooks : Abandon(h)
  BY <1>6 DEF CharonStarts, CharonReady, CharonExits, Invalidate, Abandon, l2tp
<1> QED BY <1>1, <1>2, <1>3, <1>4, <1>5, <1>6

(* What hanging up n, or everybody, leaves running was running before. *)
LEMMA HangUpRuns ==
  ASSUME KernelOK, NEW ns,
         ppp' = [i \in Ifaces |-> IF ppp[i] # None /\ ppp[i].name \in ns
                                  THEN [ppp[i] EXCEPT !.hup = TRUE] ELSE ppp[i]]
  PROVE  \A i \in Ifaces :
           /\ Running(i)' => /\ Running(i) /\ ppp'[i] = ppp[i] /\ ppp[i].name \notin ns
           /\ ppp[i] # None => ppp'[i] # None /\ ppp'[i].name = ppp[i].name
<1> SUFFICES ASSUME NEW i \in Ifaces
             PROVE  /\ Running(i)' => /\ Running(i) /\ ppp'[i] = ppp[i]
                                      /\ ppp[i].name \notin ns
                    /\ ppp[i] # None => ppp'[i] # None /\ ppp'[i].name = ppp[i].name
  OBVIOUS
<1> DEFINE l == [ppp[i] EXCEPT !.hup = TRUE]
<1>1. ppp[i] # None => l \in Link /\ l.name = ppp[i].name /\ l.hup = TRUE /\ l # None
  <2>1. ppp[i] # None => ppp[i] \in Link
    BY DEF KernelOK
  <2>2. ppp[i] # None => l \in Link /\ l.name = ppp[i].name /\ l.hup = TRUE
    BY <2>1 DEF Link
  <2> QED BY <2>2, DistinctAssumption
<1>2. ppp'[i] = IF ppp[i] # None /\ ppp[i].name \in ns THEN l ELSE ppp[i]
  OBVIOUS
<1> HIDE DEF l
<1> QED BY <1>1, <1>2 DEF Running

(* Hanging up keeps calls and pppds together: the pppds of the call are    *)
(* told to go.                                                             *)
LEMMA CallsMatch_HangUp ==
  ASSUME Inv, CallsMatch, NEW n \in Names, HangUp(n), xl2tpd' = xl2tpd
  PROVE  CallsMatch'
<1>1. \A i \in Ifaces : Running(i)' => Running(i) /\ ppp'[i] = ppp[i] /\ ppp[i].name # n
  <2>1. ppp' = [i \in Ifaces |-> IF ppp[i] # None /\ ppp[i].name \in {n}
                                 THEN [ppp[i] EXCEPT !.hup = TRUE] ELSE ppp[i]]
    BY DEF HangUp
  <2> QED BY <2>1, HangUpRuns DEF Inv, TypeOK
<1>2. \A m \in Names : calls'[m] = IF m = n THEN "idle" ELSE calls[m]
  BY DEF HangUp, Inv, TypeOK, DaemonsOK
<1>3. \A i \in Ifaces : Running(i) => ppp[i].name \in Names
  BY DEF Running, Inv, TypeOK, KernelOK, Link
<1> QED BY <1>1, <1>2, <1>3 DEF CallsMatch

(* A step after which the same pppds run or fewer, and their calls are the *)
(* same, keeps the match.                                                  *)
LEMMA CallsMatch_Fewer ==
  ASSUME CallsMatch, xl2tpd' = xl2tpd,
         \A i \in Ifaces : Running(i)' => Running(i) /\ ppp'[i].name = ppp[i].name,
         \A i \in Ifaces : Running(i)' => calls'[ppp[i].name] = calls[ppp[i].name],
         \A n \in Names : calls[n] = "idle" => calls'[n] = "idle"
  PROVE  CallsMatch'
BY DEF CallsMatch

(* Sessions that come and go keep calls and pppds together. *)
LEMMA CallsMatch_Sessions ==
  ASSUME Inv, CallsMatch, Sessions
  PROVE  CallsMatch'
<1>1. ASSUME NEW n \in Names, NEW i \in Ifaces, SessionUp(n, i) PROVE CallsMatch'
  <2> DEFINE l == [name |-> n, st |-> "new", hup |-> FALSE]
  <2>1. /\ ppp' = [ppp EXCEPT ![i] = l] /\ l.name = n /\ calls[n] = "dialing"
        /\ calls' = [calls EXCEPT ![n] = "up"] /\ xl2tpd' = xl2tpd
    BY <1>1 DEF SessionUp
  <2>2. ppp'[i] = l /\ \A j \in Ifaces : j # i => ppp'[j] = ppp[j]
    BY <2>1 DEF Inv, TypeOK, KernelOK
  <2>3. calls'[n] = "up" /\ \A m \in Names : m # n => calls'[m] = calls[m]
    BY <2>1 DEF Inv, TypeOK, DaemonsOK
  <2>4. \A j \in Ifaces : Running(j) => ppp[j].name \in Names /\ ppp[j].name # n
    BY <2>1 DEF Running, Inv, TypeOK, KernelOK, Link, CallsMatch
  <2>5. xl2tpd = "ready"
    BY <2>1 DEF CallsMatch
  <2> HIDE DEF l
  <2>6. \A j \in Ifaces : j # i => (Running(j)' <=> Running(j)) /\ ppp'[j] = ppp[j]
    BY <2>2 DEF Running
  <2> QED BY <2>1, <2>2, <2>3, <2>4, <2>5, <2>6 DEF CallsMatch
<1>2. ASSUME NEW i \in Ifaces, LinkDies(i) PROVE CallsMatch'
  <2> DEFINE l == [ppp[i] EXCEPT !.st = "dead"]
             n == ppp[i].name
  <2>1. ppp[i] \in Link
    BY <1>2 DEF Inv, TypeOK, KernelOK, LinkDies
  <2>2. l.st = "dead" /\ n \in Names
    BY <2>1 DEF Link
  <2>3. ppp' = [ppp EXCEPT ![i] = l] /\ xl2tpd' = xl2tpd
    BY <1>2 DEF LinkDies
  <2>4. ppp'[i] = l /\ \A j \in Ifaces : j # i => ppp'[j] = ppp[j]
    BY <2>3 DEF Inv, TypeOK, KernelOK
  <2> HIDE DEF l
  <2>5. \A j \in Ifaces : Running(j)' => j # i /\ Running(j) /\ ppp'[j] = ppp[j]
    BY <2>2, <2>4 DEF Running
  <2>6. CASE ppp[i].hup
    BY <1>2, <2>3, <2>5, <2>6, CallsMatch_Fewer DEF LinkDies
  <2>7. CASE ~ppp[i].hup
    <3>1. Running(i) /\ calls[n] = "up"
      BY <1>2, <2>7 DEF Running, LinkDies, CallsMatch
    <3>2. \A m \in Names : m # n => calls'[m] = calls[m]
      BY <1>2, <2>2, <2>7 DEF LinkDies, Inv, TypeOK, DaemonsOK
    <3>3. \A j \in Ifaces : Running(j)' => ppp[j].name # n
      BY <2>5, <3>1 DEF CallsMatch
    <3>4. \A j \in Ifaces : Running(j) => ppp[j].name \in Names
      BY DEF Running, Inv, TypeOK, KernelOK, Link
    <3> HIDE DEF n
    <3>5. \A m \in Names : calls[m] = "idle" => calls'[m] = "idle"
      BY <3>1, <3>2
    <3>6. \A j \in Ifaces : Running(j)' => calls'[ppp[j].name] = calls[ppp[j].name]
      BY <2>5, <3>2, <3>3, <3>4
    <3> QED BY <2>3, <2>5, <3>5, <3>6, CallsMatch_Fewer
  <2> QED BY <2>6, <2>7
<1>3. ASSUME NEW i \in Ifaces, NEW h \in Hooks, PPPUp(i, h) PROVE CallsMatch'
  <2> DEFINE l == [ppp[i] EXCEPT !.st = "open"]
  <2>1. ppp[i] \in Link
    BY <1>3 DEF Inv, TypeOK, KernelOK, PPPUp
  <2>2. l.name = ppp[i].name /\ l.hup = ppp[i].hup
    BY <2>1 DEF Link
  <2>3. ppp' = [ppp EXCEPT ![i] = l] /\ calls' = calls /\ xl2tpd' = xl2tpd
    BY <1>3 DEF PPPUp, l2tp
  <2>4. ppp'[i] = l /\ \A j \in Ifaces : j # i => ppp'[j] = ppp[j]
    BY <2>3 DEF Inv, TypeOK, KernelOK
  <2> HIDE DEF l
  <2>5. \A j \in Ifaces : Running(j)' => Running(j) /\ ppp'[j].name = ppp[j].name
    BY <1>3, <2>2, <2>4 DEF Running, PPPUp
  <2> QED BY <2>3, <2>5, CallsMatch_Fewer
<1>4. ASSUME NEW i \in Ifaces, NEW h \in Hooks, PPPDown(i, h) PROVE CallsMatch'
  <2>1. \A j \in Ifaces : Running(j)' => Running(j) /\ ppp'[j].name = ppp[j].name
    BY <1>4 DEF Running, PPPDown, Inv, TypeOK, KernelOK
  <2> QED BY <1>4, <2>1, CallsMatch_Fewer DEF PPPDown, l2tp
<1>5. ASSUME NEW h \in Hooks, Abandon(h) PROVE CallsMatch'
  BY <1>5, OthersLeaveCalls DEF CallsMatch, Running
<1> QED BY <1>1, <1>2, <1>3, <1>4, <1>5 DEF Sessions

(* Every step keeps calls and pppds together. *)
LEMMA CallsMatch_Next ==
  ASSUME Inv, CallsMatch, [Next]_vars
  PROVE  CallsMatch'
<1>1. ASSUME UNCHANGED <<calls, ppp, xl2tpd>> PROVE CallsMatch'
  BY <1>1 DEF CallsMatch, Running
<1>2. CASE ControlDisconnect \/ ControlRemove
  <2>1. frame[Rec].name \in Names
    BY <1>2, RecCall DEF ControlDisconnect, ControlRemove
  <2>2. xl2tpd' = xl2tpd /\ (HangUp(frame[Rec].name) \/ UNCHANGED <<calls, ppp>>)
    BY <1>2 DEF ControlDisconnect, ControlRemove, outsideCommand
  <2> QED BY <1>1, <2>1, <2>2, CallsMatch_HangUp
<1>3. CASE ControlConnect
  <2>1. frame[Rec].name \in Names
    BY <1>3, RecCall DEF ControlConnect
  <2>2. /\ ppp' = ppp /\ xl2tpd' = xl2tpd
        /\ \A m \in Names : calls[m] = "up" => calls'[m] = "up"
        /\ xl2tpd = "ready" \/ calls' = calls
    BY <1>3, <2>1 DEF ControlConnect, outsideCommand, Inv, TypeOK, DaemonsOK
  <2>3. \A i \in Ifaces : Running(i) => ppp[i].name \in Names
    BY DEF Running, Inv, TypeOK, KernelOK, Link
  <2> QED BY <2>2, <2>3 DEF CallsMatch, Running
<1>4. CASE Xl2tpdStarts \/ Xl2tpdReady
  BY <1>4 DEF CallsMatch, Running, Xl2tpdStarts, Xl2tpdReady
<1>5. CASE Xl2tpdExits
  <2>1. \A i \in Ifaces : ppp[i] # None => ppp[i].name \in Names
    BY DEF Inv, TypeOK, KernelOK, Link
  <2>2. ppp' = [i \in Ifaces |-> IF ppp[i] # None /\ ppp[i].name \in Names
                                 THEN [ppp[i] EXCEPT !.hup = TRUE] ELSE ppp[i]]
    BY <1>5, <2>1 DEF Xl2tpdExits
  <2>3. \A i \in Ifaces : ~Running(i)'
    BY <2>1, <2>2, HangUpRuns DEF Inv, TypeOK, Running
  <2> QED BY <1>5, <2>3 DEF CallsMatch, Xl2tpdExits
<1>6. CASE Sessions
  BY <1>6, CallsMatch_Sessions
<1> QED BY <1>1, <1>2, <1>3, <1>4, <1>5, <1>6, OthersLeaveCalls
        DEF Next, Command, Daemons

(* Every step spends one fault or none. *)
LEMMA SpentGrows ==
  ASSUME Inv, [Next]_vars, NEW k \in Kinds, spent'[k] = 0
  PROVE  spent[k] = 0
<1>1. spent' = spent \/ \E j \in Kinds : Spend(j)
  <2>1. CASE Pass
    BY <2>1 DEF Pass, StartPass, Render, WriteFiles, LoadAll, Commit, StepAll,
       Advertise, Disconnect, Drop, Step, Kinds
  <2>2. CASE Command
    BY <2>2 DEF Command, ControlDisconnect, ControlRemove, ControlAdd, Terminate,
       Initiate, ControlConnect, CtlFails, Kinds
  <2>3. CASE Daemons
    BY <2>3 DEF Daemons, CharonStarts, CharonReady, CharonExits, Xl2tpdStarts,
       Xl2tpdReady, Xl2tpdExits, Invalidate, Kinds
  <2>4. CASE Sessions
    BY <2>4 DEF Sessions, SessionUp, LinkDies, PPPUp, PPPDown, Abandon, Kinds
  <2>5. CASE Operator
    BY <2>5 DEF Operator, Flap, SwitchOff, Elapse, Trip, Leave, Edit, Kinds
  <2>6. ASSUME NEW p \in Procs, Continue(p) PROVE spent' = spent \/ \E j \in Kinds : Spend(j)
    BY <2>6 DEF Continue, RemoveRoutes, DisableNAT, AddRoutes, EnableNAT,
       SetPhase, SetStatus, Unhealthy, Fail, Kinds
  <2>7. CASE UNCHANGED vars
    BY <2>7 DEF vars
  <2> QED BY <2>1, <2>2, <2>3, <2>4, <2>5, <2>6, <2>7 DEF Next
<1>2. spent \in [Kinds -> Nat]
  BY DEF Inv, TypeOK, DataOK
<1> QED BY <1>1, <1>2 DEF Spend, Kinds

(* A step that moves no object, and the reconciler's call only as far as   *)
(* it still has to hang up, keeps the calls kept.                          *)
LEMMA KeptStep ==
  ASSUME CallsAreKept, SameKeys,
         spent'["ctl"] = 0 => spent["ctl"] = 0,
         \A n \in Names : Releasing(n) => Releasing(n)',
         \A n \in Names : calls[n] = "idle" => calls'[n] = "idle",
         frame'[Rec].op = "dial" => frame[Rec].op = "dial" /\ frame'[Rec].obj = frame[Rec].obj
  PROVE  CallsAreKept'
BY DEF CallsAreKept, Kept, SameKeys

(* Only the reconciler moves its call. *)
LEMMA OthersLeaveRec ==
  ASSUME Inv, \/ Daemons \/ Sessions \/ Operator \/ UNCHANGED vars
              \/ \E p \in Procs \ {Rec} : Continue(p)
  PROVE  frame'[Rec] = frame[Rec]
<1>1. frame \in [Procs -> Frame] /\ Rec \in Procs
  BY RecCall DEF Inv, TypeOK, FramesOK
<1>2. CASE \E h \in Hooks : \/ \E i \in Ifaces : PPPUp(i, h) \/ PPPDown(i, h)
                           \/ Abandon(h)
  BY <1>1, <1>2, HooksAreProcs DEF PPPUp, PPPDown, Abandon
<1>3. CASE \E c \in Checks : Leave(c) \/ \E n \in Names : Trip(c, n)
  BY <1>1, <1>3, HooksAreProcs DEF Trip, Leave
<1>4. CASE Daemons \/ UNCHANGED vars
  BY <1>4 DEF Daemons, CharonStarts, CharonReady, CharonExits, Xl2tpdStarts,
     Xl2tpdReady, Xl2tpdExits, Invalidate, vars
<1>5. ASSUME NEW p \in Procs \ {Rec}, Continue(p) PROVE frame'[Rec] = frame[Rec]
  BY <1>1, <1>5, ZenonT(40) DEF Continue, RemoveRoutes, DisableNAT, AddRoutes, EnableNAT,
     SetPhase, Came, Went, Failed, Connecting, DialFailed, SetStatus, Unhealthy,
     Fail, Goto, Unwind, Say, Return
<1> QED BY <1>2, <1>3, <1>4, <1>5 DEF Sessions, SessionUp, LinkDies, Operator, Flap,
        SwitchOff, Elapse, Edit

(* No step of a call in progress forgets a tunnel that still has an L2TP   *)
(* call.                                                                   *)
LEMMA CallsAreKept_Continue ==
  ASSUME Inv, CallsAreKept, [Next]_vars, NEW p \in Procs, Continue(p)
  PROVE  CallsAreKept'
<1>1. SameKeys
  <2>1. CASE SetPhase(p)
    BY <2>1, SetPhaseStep
  <2>2. CASE ~SetPhase(p)
    BY <2>2 DEF Continue, RemoveRoutes, DisableNAT, AddRoutes, EnableNAT,
       SetStatus, Unhealthy, Fail, memory, SameKeys
  <2> QED BY <2>1, <2>2
<1>2. calls' = calls
  BY OthersLeaveCalls
<1>3. spent'["ctl"] = 0 => spent["ctl"] = 0
  BY SpentGrows DEF Kinds
<1>4. CASE p # Rec
  <2>1. frame'[Rec] = frame[Rec]
    BY <1>4, OthersLeaveRec
  <2> QED BY <1>1, <1>2, <1>3, <2>1, KeptStep DEF Releasing
<1>5. CASE RemoveRoutes(Rec) \/ DisableNAT(Rec)
  <2>1. /\ SameCall(frame[Rec], frame'[Rec])
        /\ RemoveRoutes(Rec) => frame'[Rec].pc = "unnat"
        /\ DisableNAT(Rec) => frame'[Rec].pc = AfterTearDown(frame[Rec].op)
    BY <1>5, GotoStep, RecCall DEF Inv, TypeOK, RemoveRoutes, DisableNAT,
       AfterTearDown, Points
  <2>2. \A n \in Names : Releasing(n) => Releasing(n)'
    BY <1>5, <2>1 DEF Releasing, SameCall, AfterTearDown
  <2> QED BY <1>1, <1>2, <1>3, <2>1, <2>2, KeptStep DEF SameCall
<1>6. CASE p = Rec /\ ~(RemoveRoutes(Rec) \/ DisableNAT(Rec))
  <2>1. \A n \in Names : ~Releasing(n)
    BY <1>6, RecCall DEF Continue, AddRoutes, EnableNAT, SetPhase, Came, Went,
       Failed, Connecting, DialFailed, SetStatus, Unhealthy, Fail, At, Releasing,
       Shaped
  <2>2. frame'[Rec].op = "dial" =>
          frame[Rec].op = "dial" /\ frame'[Rec].obj = frame[Rec].obj
    <3>1. CASE SetPhase(Rec)
      BY <3>1, SetPhaseStep, RecCall DEF SameCall
    <3>2. CASE SetStatus(Rec)
      BY <3>2, GotoStep, CallStep, IdleIsFrame, RecCall
         DEF SetStatus, Return, SameCall, Inv, TypeOK, Points
    <3>3. CASE AddRoutes(Rec) \/ EnableNAT(Rec)
      BY <3>3, RecCall, DistinctAssumption DEF AddRoutes, EnableNAT, At, Shaped
    <3>4. CASE Unhealthy(Rec) \/ Fail(Rec)
      <4>1. frame[Rec].op = "fail"
        BY <3>4, RecCall DEF Unhealthy, Fail, At, Shaped
      <4>2. frame'[Rec] = Idle \/ frame'[Rec].op = frame[Rec].op
        BY <3>4, RecCall DEF Unhealthy, Fail, Return, Inv, TypeOK, FramesOK, Frame
      <4> QED BY <4>1, <4>2, IdleIsFrame
    <3> QED BY <1>6, <3>1, <3>2, <3>3, <3>4 DEF Continue
  <2> QED BY <1>1, <1>2, <1>3, <2>1, <2>2, KeptStep
<1> QED BY <1>4, <1>5, <1>6

(* No step of the pass forgets a tunnel that still has an L2TP call        *)
(* without disconnecting it.                                               *)
LEMMA CallsAreKept_Pass ==
  ASSUME Inv, CallsAreKept, [Next]_vars, Pass
  PROVE  CallsAreKept'
<1>1. calls' = calls /\ (spent'["ctl"] = 0 => spent["ctl"] = 0)
  BY OthersLeaveCalls, SpentGrows DEF Kinds
<1>2. ASSUME UNCHANGED <<frame, memory>> PROVE CallsAreKept'
  BY <1>1, <1>2 DEF CallsAreKept, Kept, Releasing, memory
<1>3. CASE StartPass
  <2>1. frame[Rec].op = "idle"
    BY <1>3, PushingIsIdle DEF StartPass
  <2>2. frame'[Rec].op = "idle"
    <3>1. FramesOK /\ Rec \in Procs
      BY RecCall DEF Inv, TypeOK
    <3>2. frame' = Moved("map", "stale", Orphans)
      BY <1>3 DEF StartPass
    <3>3. Moved("map", "stale", Orphans)[Rec].op = frame[Rec].op
      BY <3>1, MovedStep
    <3> QED BY <2>1, <3>2, <3>3
  <2>3. stale = Nothing
    BY <1>3 DEF StartPass, Inv, PassIsShaped
  <2>4. \A n \in Names : tunnels[n] # None => tunnels'[n] # None \/ stale'[n] # None
    BY <1>3 DEF StartPass
  <2> QED BY <1>1, <2>1, <2>2, <2>3, <2>4 DEF CallsAreKept, Kept, Releasing, Nothing
<1>4. ASSUME NEW n \in Names, Disconnect(n) PROVE CallsAreKept'
  <2>1. frame[Rec].op = "idle" /\ tunnels' = tunnels
    BY <1>4, RestingOp DEF Disconnect
  <2>2. \A m \in Names : m # n => stale'[m] = stale[m]
    BY <1>4 DEF Disconnect, Inv, TypeOK, MemoryOK
  <2>3. Releasing(n)' /\ frame'[Rec].op = "disconnect"
    BY <1>4, DisconnectStep DEF Releasing
  <2> QED BY <1>1, <2>1, <2>2, <2>3 DEF CallsAreKept, Kept, Releasing
<1>5. ASSUME NEW n \in Names, Drop(n) PROVE CallsAreKept'
  <2>1. frame[Rec].op = "idle"
    BY <1>5, RestingOp DEF Drop
  <2> QED BY <1>1, <1>5, <2>1, DropStep, KeptStep DEF Releasing
<1>6. ASSUME NEW n \in Names, Step(n) PROVE CallsAreKept'
  <2>1. frame[Rec].op = "idle" /\ stale' = stale
    BY <1>6, RestingOp DEF Step
  <2>2. \A m \in Names : tunnels[m] # None => tunnels'[m] # None
    BY <1>6, StepStep
  <2>3. frame'[Rec].op = "dial" => frame'[Rec].obj = "map"
    BY <1>6, StepStep, IdleIsFrame
  <2> QED BY <1>1, <2>1, <2>2, <2>3 DEF CallsAreKept, Kept, Releasing
<1> QED BY <1>2, <1>3, <1>4, <1>5, <1>6
        DEF Pass, Render, WriteFiles, LoadAll, Commit, StepAll, Advertise

(* No command of the reconciler leaves an L2TP call that nobody keeps. *)
LEMMA CallsAreKept_Command ==
  ASSUME Inv, CallsMatch, CallsAreKept, [Next]_vars, Command
  PROVE  CallsAreKept'
<1>1. SameKeys /\ (spent'["ctl"] = 0 => spent["ctl"] = 0)
  BY SpentGrows DEF Kinds, SameKeys, memory, Command, ControlDisconnect,
     ControlRemove, ControlAdd, Terminate, Initiate, ControlConnect, outsideCommand
<1>2. /\ frame'[Rec].op = "dial" => frame[Rec].op = "dial" /\ frame'[Rec].obj = frame[Rec].obj
      /\ frame'[Rec].op # "idle" => frame'[Rec].op = frame[Rec].op /\ frame'[Rec].name = frame[Rec].name
  <2>1. \/ frame'[Rec] = Idle
        \/ \E x : frame' = [frame EXCEPT ![Rec].pc = x]
    BY RecCall DEF Command, ControlDisconnect, ControlRemove, ControlAdd, Terminate,
       Initiate, ControlConnect, Goto, Return, Inv, TypeOK, FramesOK
  <2> QED BY <2>1, RecCall, IdleIsFrame DEF Inv, TypeOK, FramesOK, Frame
<1>3. CASE ControlDisconnect
  <2>1. frame[Rec].name \in Names
    BY <1>3, RecCall DEF ControlDisconnect
  <2>2. \A n \in Names : calls[n] = "idle" => calls'[n] = "idle"
    BY <1>3, <2>1 DEF ControlDisconnect, HangUp, Inv, TypeOK, DaemonsOK
  <2>3. CASE frame[Rec].op # "disconnect"
    BY <1>1, <1>2, <2>2, <2>3, KeptStep DEF Releasing
  <2>4. CASE frame[Rec].op = "disconnect"
    <3>1. spent'["ctl"] = 0 => calls'[frame[Rec].name] = "idle"
      <4>1. CASE HangUp(frame[Rec].name)
        BY <2>1, <4>1 DEF HangUp, Inv, TypeOK, DaemonsOK
      <4>2. CASE xl2tpd # "ready"
        BY <2>1, <2>2, <4>2 DEF CallsMatch
      <4>3. CASE Spend("ctl")
        BY <4>3 DEF Spend, Inv, TypeOK, DataOK, Kinds
      <4> QED BY <1>3, <4>1, <4>2, <4>3 DEF ControlDisconnect, CtlFails
    <3>2. \A n \in Names : Releasing(n) => n = frame[Rec].name
      BY DEF Releasing
    <3>3. frame'[Rec].op # "dial"
      BY <1>2, <2>4
    <3> QED BY <1>1, <2>2, <3>1, <3>2, <3>3 DEF CallsAreKept, Kept, SameKeys
  <2> QED BY <2>3, <2>4
<1>4. CASE ControlRemove \/ ControlAdd \/ Terminate \/ Initiate
  <2>1. \A n \in Names : ~Releasing(n)
    BY <1>4 DEF Releasing, ControlRemove, ControlAdd, Terminate, Initiate, At
  <2>2. \A n \in Names : calls[n] = "idle" => calls'[n] = "idle"
    <3>1. CASE ControlRemove
      BY <3>1, RecCall DEF ControlRemove, HangUp, Inv, TypeOK, DaemonsOK
    <3>2. CASE ControlAdd \/ Terminate \/ Initiate
      BY <3>2, OthersLeaveCalls
    <3> QED BY <1>4, <3>1, <3>2
  <2> QED BY <1>1, <1>2, <2>1, <2>2, KeptStep
<1>5. CASE ControlConnect
  <2>1. frame[Rec].op = "dial" /\ frame[Rec].name \in Names
    BY <1>5, RecCall DEF ControlConnect
  <2>2. tunnels[frame[Rec].name] # None
    BY <2>1, RecCall DEF CallsAreKept, Inv, PointersLead
  <2>3. \A n \in Names : n # frame[Rec].name => calls'[n] = calls[n]
    BY <1>5, <2>1 DEF ControlConnect, Inv, TypeOK, DaemonsOK
  <2>4. \A n \in Names : ~Releasing(n)
    BY <2>1 DEF Releasing
  <2> QED BY <1>1, <1>2, <2>1, <2>2, <2>3, <2>4 DEF CallsAreKept, Kept, SameKeys
<1> QED BY <1>3, <1>4, <1>5 DEF Command

(* Nothing around the manager creates an L2TP call that nobody keeps. *)
LEMMA CallsAreKept_Around ==
  ASSUME Inv, CallsMatch, CallsAreKept, [Next]_vars,
         Daemons \/ Sessions \/ Operator \/ UNCHANGED vars
  PROVE  CallsAreKept'
<1>1. spent'["ctl"] = 0 => spent["ctl"] = 0
  BY SpentGrows DEF Kinds
<1>2. frame'[Rec] = frame[Rec]
  BY OthersLeaveRec
<1>3. SameKeys
  <2>1. ASSUME NEW n \in Names, Elapse(n) PROVE SameKeys
    BY <2>1, ElapseStep
  <2>2. UNCHANGED memory \/ \E n \in Names : Elapse(n)
    BY DEF Daemons, CharonStarts, CharonReady, CharonExits, Xl2tpdStarts,
       Xl2tpdReady, Xl2tpdExits, Invalidate, Sessions, SessionUp, LinkDies, PPPUp,
       PPPDown, Abandon, Operator, Flap, SwitchOff, Trip, Leave, Edit, vars,
       outsideEvent, outsideOperator, memory
  <2> QED BY <2>1, <2>2 DEF memory, SameKeys
<1>4. \A n \in Names : calls'[n] # "idle" => calls[n] # "idle"
  <2>1. ASSUME NEW n \in Names, NEW i \in Ifaces, SessionUp(n, i)
        PROVE  \A m \in Names : calls'[m] # "idle" => calls[m] # "idle"
    BY <2>1 DEF SessionUp, Inv, TypeOK, DaemonsOK
  <2>2. ASSUME NEW i \in Ifaces, LinkDies(i)
        PROVE  \A m \in Names : calls'[m] # "idle" => calls[m] # "idle"
    <3>1. ppp[i].hup \/ calls[ppp[i].name] = "up"
      BY <2>2 DEF LinkDies, CallsMatch, Running
    <3>2. ppp[i].name \in Names
      BY <2>2 DEF LinkDies, Inv, TypeOK, KernelOK, Link
    <3> QED BY <2>2, <3>1, <3>2 DEF LinkDies, Inv, TypeOK, DaemonsOK
  <2>3. CASE \/ Xl2tpdStarts \/ Xl2tpdReady \/ Xl2tpdExits
             \/ \E i \in Ifaces : \E h \in Hooks : PPPUp(i, h) \/ PPPDown(i, h)
    BY <2>3 DEF Xl2tpdStarts, Xl2tpdReady, Xl2tpdExits, PPPUp, PPPDown, l2tp
  <2> QED BY <2>1, <2>2, <2>3, OthersLeaveCalls DEF Daemons, Sessions
<1> QED BY <1>1, <1>2, <1>3, <1>4 DEF CallsAreKept, Kept, SameKeys, Releasing

(* The invariant about L2TP calls and pppds holds in every reachable       *)
(* state.                                                                  *)
LEMMA SessionInvHolds == Spec => []SessionInv
<1>1. Init => SessionInv
  BY IdleIsFrame DEF Init, SessionInv, CallsMatch, CallsAreKept, Running, Procs
<1>2. Inv /\ SessionInv /\ [Next]_vars => SessionInv'
  BY CallsMatch_Next, CallsAreKept_Continue, CallsAreKept_Pass,
     CallsAreKept_Command, CallsAreKept_Around DEF SessionInv, Next
<1> QED BY <1>1, <1>2, InvHolds, PTL DEF Spec

(* While every control command xl2tpd could hear was obeyed, no edit,      *)
(* disable, restart or hook leaves a call or a ppp session that no later   *)
(* pass of Reconcile would end, for any number of connections.             *)
THEOREM SessionsManaged == Spec => []NoUnmanagedSession
<1>1. SessionInv => NoUnmanagedSession
  BY DEF SessionInv, CallsMatch, CallsAreKept, Kept, Running, NoUnmanagedSession
<1> QED BY <1>1, SessionInvHolds, PTL

-----------------------------------------------------------------------------
(* Tunnels that are up *)

(* The interface a frame or a tunnel of n names has a pppd of n. *)
Backs(i, n) == i # None /\ ppp[i] # None /\ ppp[i].name = n

(* While nobody gives up on a hook, pppd waits for its ip-up script: the   *)
(* interface PPPUp works on is still there.                                *)
ScriptsHold ==
  spent["late"] = 0 =>
    \A h \in Hooks : /\ frame[h].live
                     /\ frame[h].op = "up" => Backs(frame[h].iface, frame[h].name)

(* Only PPPDown takes a pppd off its interface. *)
LEMMA NamesStay ==
  ASSUME Inv, [Next]_vars, NEW i \in Ifaces, ppp[i] # None,
         \A h \in Hooks : ~PPPDown(i, h)
  PROVE  ppp'[i] # None /\ ppp'[i].name = ppp[i].name
<1> DEFINE Stays == ppp'[i] # None /\ ppp'[i].name = ppp[i].name
<1>1. ppp[i] \in Link /\ ppp \in [Ifaces -> Link \cup {None}]
  BY DEF Inv, TypeOK, KernelOK
<1>2. ASSUME NEW x \in {"dead", "open"}
      PROVE  [ppp[i] EXCEPT !.st = x] # None /\ [ppp[i] EXCEPT !.st = x].name = ppp[i].name
  <2>1. /\ [ppp[i] EXCEPT !.st = x] \in Link
        /\ [ppp[i] EXCEPT !.st = x].name = ppp[i].name
    BY <1>1 DEF Link
  <2> QED BY <2>1, DistinctAssumption
<1>3. CASE ppp' = ppp
  BY <1>3
<1>4. CASE ControlDisconnect \/ ControlRemove
  <2>1. ppp' = ppp \/ ppp' = [j \in Ifaces |->
               IF ppp[j] # None /\ ppp[j].name \in {frame[Rec].name}
               THEN [ppp[j] EXCEPT !.hup = TRUE] ELSE ppp[j]]
    BY <1>4 DEF ControlDisconnect, ControlRemove, HangUp
  <2> QED BY <2>1, HangUpRuns DEF Inv, TypeOK
<1>5. CASE Xl2tpdExits
  <2>1. \A j \in Ifaces : ppp[j] # None => ppp[j].name \in Names
    BY DEF Inv, TypeOK, KernelOK, Link
  <2>2. ppp' = [j \in Ifaces |-> IF ppp[j] # None /\ ppp[j].name \in Names
                                 THEN [ppp[j] EXCEPT !.hup = TRUE] ELSE ppp[j]]
    BY <1>5, <2>1 DEF Xl2tpdExits
  <2> QED BY <2>2, HangUpRuns DEF Inv, TypeOK
<1>6. CASE Sessions
  <2>1. ASSUME NEW n \in Names, NEW j \in Ifaces, SessionUp(n, j) PROVE Stays
    BY <1>1, <2>1 DEF SessionUp
  <2>2. ASSUME NEW j \in Ifaces, LinkDies(j) PROVE Stays
    <3>1. ppp' = [ppp EXCEPT ![j] = [ppp[j] EXCEPT !.st = "dead"]]
      BY <2>2 DEF LinkDies
    <3> QED BY <1>1, <1>2, <3>1
  <2>3. ASSUME NEW j \in Ifaces, NEW h \in Hooks, PPPUp(j, h) PROVE Stays
    <3>1. ppp' = [ppp EXCEPT ![j] = [ppp[j] EXCEPT !.st = "open"]]
      BY <2>3 DEF PPPUp
    <3> QED BY <1>1, <1>2, <3>1
  <2>4. ASSUME NEW j \in Ifaces, NEW h \in Hooks, PPPDown(j, h) PROVE Stays
    BY <1>1, <2>4 DEF PPPDown
  <2>5. ASSUME NEW h \in Hooks, Abandon(h) PROVE Stays
    BY <1>3, <2>5, OthersLeaveCalls
  <2> QED BY <1>6, <2>1, <2>2, <2>3, <2>4, <2>5 DEF Sessions
<1>7. CASE Xl2tpdStarts \/ Xl2tpdReady \/ ControlConnect
  BY <1>3, <1>7 DEF Xl2tpdStarts, Xl2tpdReady, ControlConnect
<1> QED BY <1>3, <1>4, <1>5, <1>6, <1>7, OthersLeaveCalls DEF Next, Command, Daemons

(* A call that goes on stays in its context, and none becomes PPPUp's. *)
LEMMA ContinueFrame ==
  ASSUME Inv, NEW p \in Procs, Continue(p)
  PROVE  /\ Others(p) /\ (frame[p].live => frame'[p].live)
         /\ frame'[p].op = "up" => /\ frame[p].op = "up"
                                   /\ frame'[p].iface = frame[p].iface
                                   /\ frame'[p].name = frame[p].name
<1> FramesOK /\ frame[p] \in Frame
  BY DEF Inv, TypeOK, FramesOK
<1>1. CASE RemoveRoutes(p) \/ DisableNAT(p) \/ AddRoutes(p) \/ EnableNAT(p)
  BY <1>1, GotoStep, UnwindStep DEF RemoveRoutes, DisableNAT, AddRoutes, EnableNAT,
     AfterTearDown, Points, SameCall
<1>2. CASE SetPhase(p)
  BY <1>2, SetPhaseStep DEF SameCall
<1>3. Return(p) => Others(p) /\ frame'[p].live /\ frame'[p].op = "idle"
  <2>1. Idle.live = TRUE
    BY DEF Idle
  <2> QED BY <2>1, CallStep, IdleIsFrame DEF Return
<1>4. CASE SetStatus(p)
  BY <1>3, <1>4, GotoStep DEF SetStatus, Points, SameCall
<1>5. CASE Unhealthy(p) /\ ~Return(p)
  <2> DEFINE f == [frame[p] EXCEPT !.pc = "lookup", !.iface = tunnels[frame[p].name].iface]
  <2>1. frame' = [frame EXCEPT ![p] = f] /\ frame[p].op = "fail"
    BY <1>5 DEF Unhealthy, At, Inv, CallsAreShaped, Shaped
  <2>2. f.live = frame[p].live /\ f.op = frame[p].op
    BY DEF Frame
  <2> HIDE DEF f
  <2> QED BY <2>1, <2>2 DEF FramesOK, Others
<1>6. CASE Fail(p) /\ ~Return(p)
  <2> DEFINE f == [frame[p] EXCEPT !.pc = TearDown("fail", frame[p].iface),
                     !.subnets = tunnels[frame[p].name].subnets, !.obj = "map"]
  <2>1. frame' = [frame EXCEPT ![p] = f] /\ frame[p].op = "fail"
    BY <1>6 DEF Fail, At, Inv, CallsAreShaped, Shaped
  <2>2. f.live = frame[p].live /\ f.op = frame[p].op
    BY DEF Frame
  <2> HIDE DEF f
  <2> QED BY <2>1, <2>2 DEF FramesOK, Others
<1> QED BY <1>1, <1>2, <1>3, <1>4, <1>5, <1>6 DEF Continue

(* What the reconciler and the surroundings do to the call of a hook. *)
LEMMA OthersLeaveHooks ==
  ASSUME Inv, NEW h \in Hooks,
         \/ Command \/ Daemons \/ Operator \/ UNCHANGED vars
         \/ Render \/ WriteFiles \/ LoadAll \/ Commit \/ StepAll \/ Advertise
         \/ \E n \in Names : Drop(n) \/ Step(n)
         \/ \E n \in Names, i \in Ifaces : SessionUp(n, i)
         \/ \E i \in Ifaces : LinkDies(i)
  PROVE  frame'[h] = frame[h]
<1> frame \in [Procs -> Frame] /\ h \in Procs /\ h # Rec /\ h \notin Checks
  BY HooksAreProcs, DistinctAssumption DEF Inv, TypeOK, FramesOK
<1>1. CASE Command
  BY <1>1 DEF Command, ControlDisconnect, ControlRemove, ControlAdd, Terminate,
     Initiate, ControlConnect, Goto, Return
<1>2. CASE Daemons \/ UNCHANGED vars
  BY <1>2 DEF Daemons, CharonStarts, CharonReady, CharonExits, Xl2tpdStarts,
     Xl2tpdReady, Xl2tpdExits, Invalidate, vars
<1>3. CASE Operator
  BY <1>3 DEF Operator, Flap, SwitchOff, Elapse, Trip, Leave, Edit
<1>4. CASE Render \/ WriteFiles \/ LoadAll \/ Commit \/ StepAll \/ Advertise
  BY <1>4 DEF Render, WriteFiles, LoadAll, Commit, StepAll, Advertise
<1>5. ASSUME NEW n \in Names, Drop(n) \/ Step(n) PROVE frame'[h] = frame[h]
  BY <1>5 DEF Drop, Step
<1>6. CASE \/ \E n \in Names, i \in Ifaces : SessionUp(n, i)
           \/ \E i \in Ifaces : LinkDies(i)
  BY <1>6 DEF SessionUp, LinkDies
<1> QED BY <1>1, <1>2, <1>3, <1>4, <1>5, <1>6

(* StartPass and Disconnect only move what a hook's call points to. *)
LEMMA MovesAndHooks ==
  ASSUME Inv, NEW h \in Hooks, StartPass \/ \E n \in Names : Disconnect(n)
  PROVE  /\ frame'[h].op = frame[h].op /\ frame'[h].pc = frame[h].pc
         /\ frame'[h].name = frame[h].name /\ frame'[h].iface = frame[h].iface
         /\ frame'[h].live = frame[h].live
         /\ frame[h].obj = "map" =>
              frame'[h].obj = "map" \/ tunnels'[frame[h].name] = None
<1> h \in Procs \ {Rec} /\ FramesOK
  BY HooksAreProcs DEF Inv, TypeOK
<1>1. CASE StartPass
  BY <1>1, MovedStep DEF StartPass, Orphans
<1>2. ASSUME NEW n \in Names, Disconnect(n)
      PROVE  /\ frame'[h].op = frame[h].op /\ frame'[h].pc = frame[h].pc
             /\ frame'[h].name = frame[h].name /\ frame'[h].iface = frame[h].iface
             /\ frame'[h].live = frame[h].live
             /\ frame[h].obj = "map" => frame'[h].obj = "map"
  BY <1>2, DisconnectStep
<1> QED BY <1>1, <1>2

(* While no hook outlives its five seconds, the pppd whose ip-up script    *)
(* waits for an answer keeps its interface.                                *)
LEMMA ScriptsHold_Next ==
  ASSUME Inv, ScriptsHold, [Next]_vars
  PROVE  ScriptsHold'
<1> SUFFICES ASSUME spent'["late"] = 0, NEW h \in Hooks
             PROVE  /\ frame'[h].live
                    /\ frame'[h].op = "up" => Backs(frame[h].iface, frame[h].name)'
  BY DEF ScriptsHold
<1>1. spent["late"] = 0 /\ frame[h].live
  BY SpentGrows DEF Kinds, ScriptsHold
<1>2. h \in Procs \ {Rec} /\ FramesOK
  BY HooksAreProcs DEF Inv, TypeOK
<1>3. frame[h].op = "up" => frame[h].iface \in Ifaces
  BY <1>2 DEF Inv, CallsAreShaped, Shaped
<1>4. ASSUME NEW i \in Ifaces, NEW g \in Hooks, PPPDown(i, g)
      PROVE  /\ frame'[h].live
             /\ frame'[h].op = "up" => Backs(frame[h].iface, frame[h].name)'
  <2>1. ppp'[i] = None /\ \A j \in Ifaces : j # i => ppp'[j] = ppp[j]
    BY <1>4 DEF PPPDown, Inv, TypeOK, KernelOK
  <2>2. CASE frame'[h] = frame[h]
    <3>1. frame[h].op = "up" => frame[h].iface # i
      BY <1>1, <1>4 DEF PPPDown, InScript
    <3> QED BY <1>1, <1>3, <2>1, <2>2, <3>1 DEF ScriptsHold, Backs
  <2>3. CASE frame'[h] # frame[h]
    <3> DEFINE f == Call("down", TearDown("down", i), ppp[i].name, i,
                         tunnels[ppp[i].name].subnets, "map")
    <3>1. frame'[h] = f
      BY <1>2, <1>4, <2>3, HooksAreProcs DEF PPPDown, FramesOK
    <3>2. f.live = TRUE /\ f.op = "down"
      BY DEF Call
    <3> QED BY <3>1, <3>2
  <2> QED BY <2>2, <2>3
<1>5. CASE \A i \in Ifaces, g \in Hooks : ~PPPDown(i, g)
  <2>1. \A i \in Ifaces, n \in Names : Backs(i, n) => Backs(i, n)'
    BY <1>5, NamesStay DEF Backs
  <2>2. ASSUME frame'[h].live, frame'[h].op = "up" => /\ frame[h].op = "up"
                                     /\ frame'[h].iface = frame[h].iface
                                     /\ frame'[h].name = frame[h].name
        PROVE  /\ frame'[h].live
               /\ frame'[h].op = "up" => Backs(frame[h].iface, frame[h].name)'
    <3>1. frame[h].op = "up" => frame[h].name \in Names
      BY <1>2 DEF Inv, CallsAreShaped, Shaped
    <3> QED BY <1>1, <1>3, <2>1, <2>2, <3>1 DEF ScriptsHold, Backs
  <2>3. ASSUME NEW p \in Procs, Continue(p)
        PROVE  frame'[h].live /\ (frame'[h].op = "up" => /\ frame[h].op = "up"
                                     /\ frame'[h].iface = frame[h].iface
                                     /\ frame'[h].name = frame[h].name)
    BY <1>1, <1>2, <2>3, ContinueFrame DEF Others
  <2>4. ASSUME NEW g \in Hooks, Abandon(g) PROVE FALSE
    BY <1>1, <2>4 DEF Abandon, Spend, Inv, TypeOK, DataOK, Kinds
  <2>5. ASSUME NEW i \in Ifaces, NEW g \in Hooks, PPPUp(i, g)
        PROVE  /\ frame'[h].live
               /\ frame'[h].op = "up" => Backs(frame[h].iface, frame[h].name)'
    <3>1. CASE frame'[h] = frame[h]
      BY <1>1, <2>2, <3>1
    <3>2. CASE frame'[h] # frame[h]
      <4> DEFINE f == Call("up", "routes", ppp[i].name, i,
                           tunnels[ppp[i].name].subnets, "map")
      <4>1. frame'[h] = f
        BY <1>2, <2>5, <3>2, HooksAreProcs DEF PPPUp, FramesOK
      <4>2. f.live = TRUE /\ f.iface = i /\ f.name = ppp[i].name
        BY DEF Call
      <4>3. i # None /\ ppp[i] # None /\ ppp[i].name \in Names
        BY <2>5, DistinctAssumption DEF PPPUp, Inv, TypeOK, KernelOK, Link
      <4> QED BY <2>1, <4>1, <4>2, <4>3 DEF Backs
    <3> QED BY <3>1, <3>2
  <2>6. CASE StartPass \/ \E n \in Names : Disconnect(n)
    BY <1>1, <2>2, <2>6, MovesAndHooks
  <2>7. CASE frame'[h] = frame[h]
    BY <1>1, <2>2, <2>7
  <2> QED BY <1>5, <2>2, <2>3, <2>4, <2>5, <2>6, <2>7, OthersLeaveHooks
          DEF Next, Pass, Sessions
<1> QED BY <1>4, <1>5

(* Who writes to the map. *)
LEMMA TunnelsWritten ==
  ASSUME [Next]_vars
  PROVE  \/ UNCHANGED tunnels \/ StartPass \/ \E p \in Procs : SetPhase(p)
         \/ \E n \in Names : Drop(n) \/ Step(n) \/ Elapse(n)
<1>1. CASE Pass
  BY <1>1 DEF Pass, Render, WriteFiles, LoadAll, Commit, StepAll, Advertise,
     Disconnect, memory
<1>2. CASE Command
  BY <1>2 DEF Command, ControlDisconnect, ControlRemove, ControlAdd, Terminate,
     Initiate, ControlConnect, outsideCommand, memory
<1>3. CASE Daemons
  BY <1>3 DEF Daemons, CharonStarts, CharonReady, CharonExits, Xl2tpdStarts,
     Xl2tpdReady, Xl2tpdExits, Invalidate, outsideEvent, memory
<1>4. CASE Sessions
  BY <1>4 DEF Sessions, SessionUp, LinkDies, PPPUp, PPPDown, Abandon,
     outsideEvent, memory
<1>5. CASE Operator
  BY <1>5 DEF Operator, Flap, SwitchOff, Trip, Leave, Edit, outsideEvent, memory
<1>6. ASSUME NEW p \in Procs, Continue(p) PROVE SetPhase(p) \/ UNCHANGED tunnels
  BY <1>6 DEF Continue, RemoveRoutes, DisableNAT, AddRoutes, EnableNAT,
     SetStatus, Unhealthy, Fail, memory
<1>7. CASE UNCHANGED vars
  BY <1>7 DEF vars, memory
<1> QED BY <1>1, <1>2, <1>3, <1>4, <1>5, <1>6, <1>7 DEF Next

IsUp(n) == tunnels[n] # None /\ tunnels[n].phase = "up"

(* Only the second critical section of PPPUp makes a tunnel up. *)
LEMMA WhoMakesUp ==
  ASSUME Inv, [Next]_vars, NEW n \in Names, IsUp(n)'
  PROVE  \/ IsUp(n) /\ tunnels'[n].iface = tunnels[n].iface
         \/ \E p \in Procs : /\ Came(p) /\ frame[p].name = n
                             /\ tunnels'[n].iface = frame[p].iface
<1>1. CASE tunnels'[n] = tunnels[n]
  BY <1>1 DEF IsUp
<1>2. ASSUME NEW p \in Procs, SetPhase(p), tunnels'[n] # tunnels[n]
      PROVE  /\ Came(p) /\ frame[p].name = n
             /\ tunnels'[n].iface = frame[p].iface
  <2>1. ASSUME NEW ph, NEW i, NEW w, Put(p, ph, i, w)
        PROVE  frame[p].name = n /\ tunnels'[n].phase = ph /\ tunnels'[n].iface = i
    <3>1. /\ frame[p].obj = "map"
          /\ tunnels' = [tunnels EXCEPT ![frame[p].name] =
               [phase |-> ph, iface |-> i, subnets |-> Target(p).subnets, wait |-> w]]
      BY <1>2, <2>1 DEF Put
    <3>2. frame[p].name = n
      BY <1>2, <3>1 DEF Inv, TypeOK, MemoryOK
    <3> QED BY <3>1, <3>2 DEF Inv, TypeOK, MemoryOK
  <2>2. tunnels'[n].phase = "up"
    BY DEF IsUp
  <2> QED BY <1>2, <2>1, <2>2 DEF SetPhase, Came, Went, Failed, Connecting, DialFailed
<1>3. ASSUME NEW m \in Names, Drop(m), tunnels'[n] # tunnels[n] PROVE FALSE
  <2> DEFINE u == Dropped(tunnels[m])
  <2>1. tunnels[m] # None /\ tunnels' = [tunnels EXCEPT ![m] = u]
    BY <1>3 DEF Drop
  <2>2. tunnels[m] \in Tunnel
    BY <2>1 DEF Inv, TypeOK, MemoryOK
  <2>3. u.phase = "disconnected"
    BY <2>2 DEF Dropped, Tunnel
  <2> HIDE DEF u
  <2>4. tunnels'[n] = u
    BY <1>3, <2>1 DEF Inv, TypeOK, MemoryOK
  <2> QED BY <2>3, <2>4 DEF IsUp
<1>4. ASSUME NEW m \in Names, Step(m)
      PROVE  IsUp(n) /\ tunnels'[n].iface = tunnels[n].iface
  BY <1>4, StepStep DEF IsUp
<1>5. ASSUME NEW m \in Names, Elapse(m)
      PROVE  IsUp(n) /\ tunnels'[n].iface = tunnels[n].iface
  BY <1>5, ElapseStep DEF IsUp, SameKeys
<1>6. CASE StartPass
  BY <1>6 DEF StartPass, IsUp
<1> QED BY <1>1, <1>2, <1>3, <1>4, <1>5, <1>6, TunnelsWritten

(* A PPPDown that found its tunnel goes on until it has written to it. *)
LEMMA GoesDown ==
  ASSUME Inv, [Next]_vars, NEW n \in Names, GoingDown(n), IsUp(n)'
  PROVE  GoingDown(n)'
<1>1. PICK h \in Hooks : /\ frame[h].op = "down" /\ frame[h].name = n
                         /\ frame[h].obj = "map" /\ frame[h].pc # "say"
  BY DEF GoingDown
<1>2. h \in Procs \ {Rec} /\ FramesOK /\ Shaped(h, frame[h])
  BY HooksAreProcs DEF Inv, TypeOK, CallsAreShaped
<1>3. CASE frame'[h] = frame[h]
  BY <1>1, <1>3 DEF GoingDown
<1>4. CASE RemoveRoutes(h) \/ DisableNAT(h)
  <2>1. SameCall(frame[h], frame'[h]) /\ frame'[h].pc # "say"
    BY <1>1, <1>2, <1>4, GotoStep DEF RemoveRoutes, DisableNAT, AfterTearDown, Points
  <2> QED BY <1>1, <2>1 DEF SameCall, GoingDown
<1>5. CASE Continue(h) /\ ~(RemoveRoutes(h) \/ DisableNAT(h))
  <2>1. Went(h)
    BY <1>1, <1>2, <1>5 DEF Continue, AddRoutes, EnableNAT, SetPhase, Came, Failed,
       Connecting, DialFailed, SetStatus, Unhealthy, Fail, At, Shaped
  <2>2. tunnels' = [tunnels EXCEPT ![n] =
          [phase |-> "disconnected", iface |-> None, subnets |-> Target(h).subnets,
           wait |-> TRUE]]
    BY <1>1, <2>1 DEF Went, Put
  <2>3. tunnels'[n].phase = "disconnected"
    BY <2>2 DEF Inv, TypeOK, MemoryOK
  <2> QED BY <2>3 DEF IsUp
<1>6. ASSUME NEW p \in Procs, Continue(p), p # h PROVE GoingDown(n)'
  BY <1>2, <1>3, <1>6, ContinueFrame DEF Others
<1>7. CASE StartPass \/ \E m \in Names : Disconnect(m)
  BY <1>1, <1>7, MovesAndHooks DEF GoingDown, IsUp
<1>8. ASSUME NEW g \in Hooks, Abandon(g) PROVE GoingDown(n)'
  <2> DEFINE f == [frame[g] EXCEPT !.live = FALSE]
  <2>1. frame[g] \in Frame /\ frame' = [frame EXCEPT ![g] = f]
    BY <1>8, HooksAreProcs DEF Abandon, Inv, TypeOK, FramesOK
  <2>2. f.op = frame[g].op /\ f.name = frame[g].name /\ f.obj = frame[g].obj
        /\ f.pc = frame[g].pc
    BY <2>1 DEF Frame
  <2> HIDE DEF f
  <2>3. frame'[h] = IF h = g THEN f ELSE frame[h]
    BY <1>2, <2>1 DEF FramesOK
  <2> QED BY <1>1, <2>2, <2>3 DEF GoingDown
<1>9. ASSUME NEW g \in Hooks, NEW i \in Ifaces, PPPUp(i, g) \/ PPPDown(i, g)
      PROVE  GoingDown(n)'
  <2>1. frame[g] = Idle
    BY <1>9 DEF PPPUp, PPPDown, Resting
  <2>2. g # h
    BY <1>1, <2>1, IdleIsFrame
  <2>3. frame'[h] = frame[h]
    BY <1>2, <1>9, <2>2 DEF PPPUp, PPPDown, FramesOK
  <2> QED BY <1>3, <2>3
<1> QED BY <1>3, <1>4, <1>5, <1>6, <1>7, <1>8, <1>9, OthersLeaveHooks
        DEF Next, Pass, Sessions

(* While no hook outlives its five seconds, every step keeps each up       *)
(* tunnel backed by its pppd or by a PPPDown on its way.                   *)
LEMMA UpIsBacked_Next ==
  ASSUME Inv, ScriptsHold, UpIsBacked, [Next]_vars
  PROVE  UpIsBacked'
<1> SUFFICES ASSUME spent'["late"] = 0, NEW n \in Names, IsUp(n)', ~GoingDown(n)'
             PROVE  Backs(tunnels[n].iface, n)'
  BY DEF UpIsBacked, IsUp, Backs
<1>1. spent["late"] = 0 /\ ~GoingDown(n)
  BY SpentGrows, GoesDown DEF Kinds
<1>2. tunnels'[n].iface # None => tunnels'[n].iface \in Ifaces
  <2>1. MemoryOK'
    BY Inv_Next DEF Inv, TypeOK
  <2> QED BY <2>1 DEF MemoryOK, Tunnel, IsUp
<1>3. Backs(tunnels'[n].iface, n)
  <2>1. CASE IsUp(n) /\ tunnels'[n].iface = tunnels[n].iface
    BY <1>1, <2>1 DEF UpIsBacked, IsUp, Backs
  <2>2. ASSUME NEW p \in Procs, Came(p), frame[p].name = n,
               tunnels'[n].iface = frame[p].iface
        PROVE  Backs(tunnels'[n].iface, n)
    <3>1. p \in Hooks /\ frame[p].op = "up"
      BY <2>2 DEF Came, At, Inv, CallsAreShaped, Shaped
    <3> QED BY <1>1, <2>2, <3>1 DEF ScriptsHold
  <2> QED BY <2>1, <2>2, WhoMakesUp
<1>4. ASSUME NEW i \in Ifaces, NEW h \in Hooks, PPPDown(i, h)
      PROVE  Backs(tunnels[n].iface, n)'
  <2>1. tunnels' = tunnels /\ \A j \in Ifaces : j # i => ppp'[j] = ppp[j]
    BY <1>4 DEF PPPDown, Inv, TypeOK, KernelOK, outsideEvent, memory
  <2>2. CASE tunnels'[n].iface # i
    BY <1>2, <1>3, <2>1, <2>2 DEF Backs
  <2>3. CASE tunnels'[n].iface = i
    <3>1. ppp[i].name = n /\ tunnels[n] # None
      BY <1>3, <2>1, <2>3 DEF Backs, IsUp
    <3> DEFINE f == Call("down", TearDown("down", i), n, i, tunnels[n].subnets, "map")
    <3>2. frame'[h] = f
      BY <1>4, <3>1, HooksAreProcs DEF PPPDown, Inv, TypeOK, FramesOK
    <3>3. f.op = "down" /\ f.name = n /\ f.obj = "map" /\ f.pc # "say"
      BY DEF Call, TearDown, AfterTearDown
    <3> HIDE DEF f
    <3>4. GoingDown(n)'
      BY <3>2, <3>3 DEF GoingDown
    <3> QED BY <3>4
  <2> QED BY <2>2, <2>3
<1>5. CASE \A i \in Ifaces, h \in Hooks : ~PPPDown(i, h)
  BY <1>2, <1>3, <1>5, NamesStay DEF Backs
<1> QED BY <1>4, <1>5

(* As long as no hook outlives its five seconds, a tunnel the manager      *)
(* calls up has a pppd on the interface it recorded, or that pppd's        *)
(* PPPDown is on its way to say otherwise, for any number of connections,  *)
(* interfaces and hooks.                                                   *)
THEOREM UpBacked == Spec => []UpIsBacked
<1>1. Init => ScriptsHold /\ UpIsBacked
  <2>1. Init => \A h \in Hooks : frame[h].live /\ frame[h].op = "idle"
    BY HooksAreProcs DEF Init, Idle
  <2> QED BY <2>1 DEF Init, ScriptsHold, UpIsBacked, Nothing
<1>2. Inv /\ ScriptsHold /\ UpIsBacked /\ [Next]_vars => ScriptsHold' /\ UpIsBacked'
  BY ScriptsHold_Next, UpIsBacked_Next
<1> QED BY <1>1, <1>2, InvHolds, PTL DEF Spec

-----------------------------------------------------------------------------
(* iptables rules *)

(* While nothing is switched off, what the pass works from, and what the   *)
(* map has, is enabled, and PPPUp's tunnel stays in the map.               *)
TunnelsLast ==
  spent["off"] = 0 =>
    /\ \A n \in Names : snap[n] # None \/ tunnels[n] # None => conns[n] # None
    /\ \A h \in Hooks : frame[h].op = "up" => tunnels[frame[h].name] # None

(* While moreover no hook outlives its five seconds and no command fails,  *)
(* an interface with rules has a pppd whose PPPDown will find a tunnel, or *)
(* a hook is about to remove the rules.                                    *)
Owned(i) ==
  \/ ppp[i] # None /\ tunnels[ppp[i].name] # None
  \/ \E h \in Hooks : frame[h].iface = i /\ frame[h].pc \in {"unroute", "unnat"}

RulesAreOwned ==
  (\A k \in {"off", "late", "net"} : spent[k] = 0) => \A i \in nat : Owned(i)

LeakInv == TunnelsLast /\ RulesAreOwned

(* Only switching a connection off takes it out of the database. *)
LEMMA ConnsStay ==
  ASSUME Inv, [Next]_vars, spent'["off"] = 0, NEW n \in Names, conns[n] # None
  PROVE  conns'[n] # None
<1>1. CASE UNCHANGED conns
  BY <1>1
<1>2. ASSUME NEW m \in Names, NEW c \in Configs, Edit(m, c) PROVE conns'[n] # None
  BY <1>2, DistinctAssumption DEF Edit, Inv, TypeOK, DataOK
<1>3. ASSUME NEW m \in Names, SwitchOff(m) PROVE FALSE
  BY <1>3 DEF SwitchOff, Spend, Inv, TypeOK, DataOK, Kinds
<1>4. CASE Pass
  BY <1>1, <1>4 DEF Pass, StartPass, Render, WriteFiles, LoadAll, Commit, StepAll,
     Advertise, Disconnect, Drop, Step, outsidePass, store
<1>5. CASE Command
  BY <1>1, <1>5 DEF Command, ControlDisconnect, ControlRemove, ControlAdd, Terminate,
     Initiate, ControlConnect, outsideCommand, store
<1>6. CASE Daemons \/ UNCHANGED vars
  BY <1>1, <1>6 DEF Daemons, CharonStarts, CharonReady, CharonExits, Xl2tpdStarts,
     Xl2tpdReady, Xl2tpdExits, Invalidate, outsideEvent, store, vars
<1>7. CASE Sessions
  BY <1>1, <1>7 DEF Sessions, SessionUp, LinkDies, PPPUp, PPPDown, Abandon,
     outsideEvent, store
<1>8. CASE Operator
  BY <1>1, <1>2, <1>3, <1>8 DEF Operator, Flap, Elapse, Trip, Leave, outsideEvent, store
<1>9. ASSUME NEW p \in Procs, Continue(p) PROVE conns' = conns
  BY <1>9 DEF Continue, RemoveRoutes, DisableNAT, AddRoutes, EnableNAT,
     SetPhase, SetStatus, Unhealthy, Fail, outsideCall, store
<1> QED BY <1>1, <1>4, <1>5, <1>6, <1>7, <1>8, <1>9 DEF Next

(* The pass works from what it read when it started. *)
LEMMA SnapWritten ==
  ASSUME [Next]_vars
  PROVE  snap' \in {snap, conns, Nothing}
<1>1. CASE Pass
  BY <1>1 DEF Pass, StartPass, Render, WriteFiles, LoadAll, Commit, StepAll,
     Advertise, EndPass, Disconnect, Drop, Step, pass
<1>2. CASE Command
  BY <1>2 DEF Command, ControlDisconnect, ControlRemove, ControlAdd, Terminate,
     Initiate, ControlConnect, outsideCommand, pass
<1>3. CASE Daemons
  BY <1>3 DEF Daemons, CharonStarts, CharonReady, CharonExits, Xl2tpdStarts,
     Xl2tpdReady, Xl2tpdExits, Invalidate, outsideEvent, pass
<1>4. CASE Sessions
  BY <1>4 DEF Sessions, SessionUp, LinkDies, PPPUp, PPPDown, Abandon,
     outsideEvent, pass
<1>5. CASE Operator
  BY <1>5 DEF Operator, Flap, SwitchOff, Elapse, Trip, Leave, Edit, outsideOperator,
     outsideEvent, pass
<1>6. ASSUME NEW p \in Procs, Continue(p) PROVE snap' = snap
  BY <1>6 DEF Continue, RemoveRoutes, DisableNAT, AddRoutes, EnableNAT,
     SetPhase, SetStatus, Unhealthy, Fail, outsideCall, pass
<1>7. CASE UNCHANGED vars
  BY <1>7 DEF vars, pass
<1> QED BY <1>1, <1>2, <1>3, <1>4, <1>5, <1>6, <1>7 DEF Next

(* What is enabled stays in the map, and only what is enabled comes in. *)
LEMMA TunnelsStay ==
  ASSUME Inv, TunnelsLast, [Next]_vars, spent'["off"] = 0, NEW n \in Names
  PROVE  /\ tunnels[n] # None => tunnels'[n] # None
         /\ tunnels'[n] # None => tunnels[n] # None \/ snap[n] # None
<1>1. spent["off"] = 0
  BY SpentGrows DEF Kinds
<1>2. CASE SameKeys
  BY <1>2 DEF SameKeys
<1>3. CASE StartPass
  <2>1. n \notin Orphans
    BY <1>1 DEF TunnelsLast, Orphans
  <2> QED BY <1>3, <2>1 DEF StartPass
<1>4. ASSUME NEW m \in Names, Step(m)
      PROVE  /\ tunnels[n] # None => tunnels'[n] # None
             /\ tunnels'[n] # None => tunnels[n] # None \/ snap[n] # None
  <2>1. snap[m] # None
    BY <1>4 DEF Step, Inv, PassIsShaped, Keys
  <2>2. tunnels'[m] # None /\ \A k \in Names : k # m => tunnels'[k] = tunnels[k]
    BY <1>4, StepStep
  <2> QED BY <2>1, <2>2
<1> QED BY <1>2, <1>3, <1>4, TunnelsWritten, SetPhaseStep, DropStep, ElapseStep

(* What starts or continues a call of PPPUp. *)
LEMMA WhoIsUp ==
  ASSUME Inv, [Next]_vars, NEW h \in Hooks, frame'[h].op = "up"
  PROVE  \/ frame[h].op = "up" /\ frame'[h].name = frame[h].name
         \/ tunnels[frame'[h].name] # None /\ frame'[h].name \in Names
<1> h \in Procs \ {Rec} /\ FramesOK
  BY HooksAreProcs DEF Inv, TypeOK
<1>1. CASE frame'[h] = frame[h]
  BY <1>1
<1>2. ASSUME NEW p \in Procs, Continue(p), frame'[h] # frame[h]
      PROVE  frame[h].op = "up" /\ frame'[h].name = frame[h].name
  BY <1>2, ContinueFrame DEF Others
<1>3. CASE StartPass \/ \E n \in Names : Disconnect(n)
  BY <1>3, MovesAndHooks
<1>4. ASSUME NEW g \in Hooks, Abandon(g), frame'[h] # frame[h]
      PROVE  frame[h].op = "up" /\ frame'[h].name = frame[h].name
  BY <1>4, HooksAreProcs DEF Abandon, FramesOK, Frame
<1>5. ASSUME NEW g \in Hooks, NEW i \in Ifaces, PPPUp(i, g) \/ PPPDown(i, g),
             frame'[h] # frame[h]
      PROVE  tunnels[frame'[h].name] # None /\ frame'[h].name \in Names
  <2> DEFINE n == ppp[i].name
  <2>1. ppp[i] \in Link /\ n \in Names
    BY <1>5 DEF PPPUp, PPPDown, Inv, TypeOK, KernelOK, Link
  <2>2. tunnels[n] # None /\ frame'[h].name = n
    BY <1>5, HooksAreProcs DEF PPPUp, PPPDown, FramesOK, Call
  <2> QED BY <2>1, <2>2
<1> QED BY <1>1, <1>2, <1>3, <1>4, <1>5, OthersLeaveHooks DEF Next, Pass, Sessions

LEMMA TunnelsLast_Next ==
  ASSUME Inv, TunnelsLast, [Next]_vars
  PROVE  TunnelsLast'
<1> SUFFICES ASSUME spent'["off"] = 0
             PROVE  /\ \A n \in Names : snap'[n] # None \/ tunnels'[n] # None => conns'[n] # None
                    /\ \A h \in Hooks : frame'[h].op = "up" => tunnels'[frame'[h].name] # None
  BY DEF TunnelsLast
<1>1. spent["off"] = 0
  BY SpentGrows DEF Kinds
<1>2. ASSUME NEW n \in Names, snap'[n] # None \/ tunnels'[n] # None PROVE conns'[n] # None
  <2>1. conns[n] # None
    BY <1>1, <1>2, SnapWritten, TunnelsStay DEF TunnelsLast, Nothing
  <2> QED BY <2>1, ConnsStay
<1>3. ASSUME NEW h \in Hooks, frame'[h].op = "up" PROVE tunnels'[frame'[h].name] # None
  <2>1. frame[h].op = "up" => frame[h].name \in Names
    BY HooksAreProcs DEF Inv, CallsAreShaped, Shaped
  <2>2. tunnels[frame'[h].name] # None /\ frame'[h].name \in Names
    BY <1>1, <1>3, <2>1, WhoIsUp DEF TunnelsLast
  <2> QED BY <2>2, TunnelsStay
<1> QED BY <1>2, <1>3

(* Only EnableNAT adds rules, and only DisableNAT takes them away. *)
LEMMA RulesWritten ==
  ASSUME [Next]_vars
  PROVE  UNCHANGED nat \/ \E p \in Procs : EnableNAT(p) \/ DisableNAT(p)
<1>1. CASE Pass
  BY <1>1 DEF Pass, StartPass, Render, WriteFiles, LoadAll, Commit, StepAll,
     Advertise, Disconnect, Drop, Step, outsidePass, kernel
<1>2. CASE Command
  BY <1>2 DEF Command, ControlDisconnect, ControlRemove, ControlAdd, Terminate,
     Initiate, ControlConnect, outsideCommand, kernel
<1>3. CASE Daemons
  BY <1>3 DEF Daemons, CharonStarts, CharonReady, CharonExits, Xl2tpdStarts,
     Xl2tpdReady, Xl2tpdExits, Invalidate, outsideEvent
<1>4. CASE Sessions
  BY <1>4 DEF Sessions, SessionUp, LinkDies, PPPUp, PPPDown, Abandon, outsideEvent
<1>5. CASE Operator
  BY <1>5 DEF Operator, Flap, SwitchOff, Elapse, Trip, Leave, Edit, outsideOperator,
     outsideEvent, kernel
<1>6. ASSUME NEW p \in Procs, Continue(p) PROVE UNCHANGED nat \/ EnableNAT(p) \/ DisableNAT(p)
  BY <1>6 DEF Continue, RemoveRoutes, AddRoutes, SetPhase, SetStatus, Unhealthy, Fail, kernel
<1>7. CASE UNCHANGED vars
  BY <1>7 DEF vars, kernel
<1> QED BY <1>1, <1>2, <1>3, <1>4, <1>5, <1>6, <1>7 DEF Next

(* A hook that is about to remove the rules of i. *)
Removing(h, i) == frame[h].iface = i /\ frame[h].pc \in {"unroute", "unnat"}

(* It is until it has. *)
LEMMA RemovingStays ==
  ASSUME Inv, [Next]_vars, NEW h \in Hooks, NEW i, Removing(h, i), ~DisableNAT(h)
  PROVE  Removing(h, i)'
<1> h \in Procs \ {Rec} /\ FramesOK /\ Shaped(h, frame[h])
  BY HooksAreProcs DEF Inv, TypeOK, CallsAreShaped
<1>1. CASE frame'[h] = frame[h]
  BY <1>1 DEF Removing
<1>2. CASE RemoveRoutes(h)
  BY <1>2, GotoStep DEF RemoveRoutes, Points, SameCall, Removing
<1>3. ASSUME NEW p \in Procs, Continue(p), ~RemoveRoutes(h) PROVE Removing(h, i)'
  <2>1. CASE p = h
    BY <1>3, <2>1 DEF Continue, AddRoutes, EnableNAT, SetPhase, Came, Went, Failed,
       Connecting, DialFailed, SetStatus, Unhealthy, Fail, At, Removing
  <2>2. CASE p # h
    BY <1>1, <1>3, <2>2, ContinueFrame DEF Others
  <2> QED BY <2>1, <2>2
<1>4. CASE StartPass \/ \E n \in Names : Disconnect(n)
  BY <1>4, MovesAndHooks DEF Removing
<1>5. ASSUME NEW g \in Hooks, Abandon(g) PROVE Removing(h, i)'
  <2> DEFINE f == [frame[g] EXCEPT !.live = FALSE]
  <2>1. frame[g] \in Frame /\ frame' = [frame EXCEPT ![g] = f]
    BY <1>5, HooksAreProcs DEF Abandon, FramesOK
  <2>2. f.iface = frame[g].iface /\ f.pc = frame[g].pc
    BY <2>1 DEF Frame
  <2> HIDE DEF f
  <2>3. frame'[h] = IF h = g THEN f ELSE frame[h]
    BY <2>1 DEF FramesOK
  <2> QED BY <2>2, <2>3 DEF Removing
<1>6. ASSUME NEW g \in Hooks, NEW j \in Ifaces, PPPUp(j, g) \/ PPPDown(j, g)
      PROVE  Removing(h, i)'
  <2>1. frame[g] = Idle
    BY <1>6 DEF PPPUp, PPPDown, Resting
  <2>2. g # h
    BY <2>1, IdleIsFrame DEF Removing
  <2> QED BY <1>1, <1>6, <2>2 DEF PPPUp, PPPDown, FramesOK
<1> QED BY <1>1, <1>2, <1>3, <1>4, <1>5, <1>6, OthersLeaveHooks DEF Next, Pass, Sessions

(* While nothing is switched off, no hook outlives its five seconds and no *)
(* command fails, every step keeps the rules owned.                        *)
LEMMA RulesAreOwned_Next ==
  ASSUME Inv, ScriptsHold, TunnelsLast, RulesAreOwned, [Next]_vars
  PROVE  RulesAreOwned'
<1> SUFFICES ASSUME \A k \in {"off", "late", "net"} : spent'[k] = 0, NEW i \in nat'
             PROVE  Owned(i)'
  BY DEF RulesAreOwned
<1>1. \A k \in {"off", "late", "net"} : spent[k] = 0
  BY SpentGrows DEF Kinds
<1>2. i \in Ifaces
  BY Inv_Next DEF Inv, TypeOK, KernelOK
<1>3. ~Spend("net")
  BY DEF Spend, Inv, TypeOK, DataOK, Kinds
<1>4. ppp[i] # None => ppp[i].name \in Names
  BY <1>2 DEF Inv, TypeOK, KernelOK, Link
<1>5. CASE \E h \in Hooks : Removing(h, i) /\ ~DisableNAT(h)
  BY <1>5, RemovingStays DEF Owned, Removing
<1>6. ASSUME NEW h \in Hooks, Removing(h, i), DisableNAT(h) PROVE FALSE
  BY <1>1, <1>3, <1>6 DEF ScriptsHold, Removing, DisableNAT
<1>7. CASE ppp[i] # None /\ tunnels[ppp[i].name] # None
  <2>1. tunnels'[ppp[i].name] # None
    BY <1>4, <1>7, TunnelsStay
  <2>2. CASE \A h \in Hooks : ~PPPDown(i, h)
    BY <1>2, <1>7, <2>1, <2>2, NamesStay DEF Owned
  <2>3. ASSUME NEW h \in Hooks, PPPDown(i, h) PROVE Owned(i)'
    <3> DEFINE f == Call("down", TearDown("down", i), ppp[i].name, i,
                         tunnels[ppp[i].name].subnets, "map")
    <3>1. frame'[h] = f
      BY <1>7, <2>3, HooksAreProcs DEF PPPDown, Inv, TypeOK, FramesOK
    <3>2. f.iface = i /\ f.pc = "unroute"
      BY <1>2, DistinctAssumption DEF Call, TearDown
    <3> HIDE DEF f
    <3> QED BY <3>1, <3>2 DEF Owned
  <2> QED BY <2>2, <2>3
<1>8. ASSUME NEW p \in Procs, EnableNAT(p), i \notin nat
      PROVE  ppp[i] # None /\ tunnels[ppp[i].name] # None
  <2>1. p \in Hooks /\ frame[p].op = "up" /\ frame[p].iface = i
    BY <1>3, <1>8 DEF EnableNAT, At, Inv, CallsAreShaped, Shaped
  <2> QED BY <1>1, <2>1 DEF ScriptsHold, Backs, TunnelsLast
<1>9. i \in nat \/ \E p \in Procs : EnableNAT(p)
  BY RulesWritten DEF DisableNAT
<1> QED BY <1>1, <1>5, <1>6, <1>7, <1>8, <1>9 DEF RulesAreOwned, Owned, Removing

(* While no connection is disabled, no hook outlives its five seconds and  *)
(* no ip or iptables command fails, an interface with iptables rules has a *)
(* pppd or a call about to remove them, whatever else happens.             *)
THEOREM RulesLast == Spec => []NoLeakedRules
<1>1. Init => ScriptsHold /\ TunnelsLast /\ RulesAreOwned
  <2>1. Init => \A h \in Hooks : frame[h].live /\ frame[h].op = "idle"
    BY HooksAreProcs DEF Init, Idle
  <2> QED BY <2>1 DEF Init, ScriptsHold, Nothing, TunnelsLast, RulesAreOwned
<1>2. Inv /\ ScriptsHold /\ TunnelsLast /\ RulesAreOwned /\ [Next]_vars
        => ScriptsHold' /\ TunnelsLast' /\ RulesAreOwned'
  BY ScriptsHold_Next, TunnelsLast_Next, RulesAreOwned_Next
<1>3. RulesAreOwned => NoLeakedRules
  BY HooksAreProcs DEF RulesAreOwned, Owned, NoLeakedRules, RulesHaveOwner
<1> QED BY <1>1, <1>2, <1>3, InvHolds, PTL DEF Spec

-----------------------------------------------------------------------------
(* What is rendered, loaded and dialled *)

(* No load failed, no control command, and charon has not exited. *)
Clean == \A k \in {"load", "ctl", "charon"} : spent[k] = 0

(* xl2tpd has no LAC of n but the one that c asks for. *)
Defines(n, c) == lacs[n] \in {None, c[n].row}

(* The files, charon and xl2tpd have what c renders. *)
InForce(c) == disk = c /\ loaded = c /\ \A n \in Keys(c) : Defines(n, c)

(* The reconciler is about to take the LAC of n away. *)
Redefining(n) ==
  frame[Rec].op = "drop" /\ frame[Rec].name = n /\ frame[Rec].pc # "add"

(* What a pass has rendered so far of what it wants. *)
PassRenders ==
  /\ charon # "ready" => rendered = Nothing /\ rpc \notin {"commit", "drop"}
  /\ rpc \in {"idle", "disconnect", "write"} /\ rendered # Nothing => InForce(rendered)
  /\ rpc = "write" => \A n \in Keys(want) \ todo : disk[n] = want[n] /\ Defines(n, want)
  /\ rpc \in {"load", "commit", "drop"} => disk = want
  /\ rpc \in {"commit", "drop"} => loaded = want
  /\ rpc \in {"load", "commit", "drop"} =>
       \A n \in Keys(want) \ todo : Redefining(n) \/ Defines(n, want)
  /\ rpc \in {"drop", "step"} => rendered \in {Nothing, want}
  /\ rpc = "step" /\ want # Nothing => InForce(want)

RenderInv ==
  /\ xl2tpd # "ready" => lacs = Nothing
  /\ rpc \notin {"idle", "disconnect"} => Keys(want) = Keys(snap)
  /\ Clean => PassRenders

(* drop goes on until it has taken the LAC away. *)
LEMMA Redefining_Next ==
  ASSUME Inv, [Next]_vars, ~ControlRemove, NEW n \in Names, Redefining(n)
  PROVE  Redefining(n)'
<1> FramesOK /\ Rec \in Procs /\ Shaped(Rec, frame[Rec]) /\ frame[Rec].op = "drop"
    /\ rpc = "drop" /\ frame[Rec].pc \notin {"idle", "add"}
  BY RecCall DEF Inv, TypeOK, Redefining, Shaped, PassIsShaped
<1>1. CASE Pass
  BY <1>1, RestingOp DEF Pass, StartPass, Render, WriteFiles, LoadAll, Commit,
     StepAll, Advertise, Disconnect, Drop, Step
<1>2. CASE Command
  <2>1. ~ControlAdd /\ ~Initiate /\ ~ControlConnect
    BY RecCall DEF ControlAdd, Initiate, ControlConnect, At
  <2>2. SameCall(frame[Rec], frame'[Rec]) /\ frame'[Rec].pc \in {"terminate", "say"}
    BY <1>2, <2>1, GotoStep DEF Command, ControlDisconnect, Terminate, AfterHangUp, Points
  <2> QED BY <2>2 DEF SameCall, Redefining
<1>3. CASE Continue(Rec)
  <2>1. CASE RemoveRoutes(Rec) \/ DisableNAT(Rec)
    BY <2>1, GotoStep DEF RemoveRoutes, DisableNAT, AfterTearDown, Points, SameCall,
       Redefining
  <2>2. CASE SetStatus(Rec)
    BY <2>2, GotoStep DEF SetStatus, Points, SameCall, Redefining
  <2>3. CASE ~(RemoveRoutes(Rec) \/ DisableNAT(Rec) \/ SetStatus(Rec))
    BY <1>3, <2>3 DEF Continue, AddRoutes, EnableNAT, SetPhase, Came, Went, Failed,
       Connecting, DialFailed, Unhealthy, Fail, At, Shaped
  <2> QED BY <2>1, <2>2, <2>3
<1>4. CASE frame'[Rec] = frame[Rec]
  BY <1>4 DEF Redefining
<1> QED BY <1>1, <1>2, <1>3, <1>4, OthersLeaveRec DEF Next

(* What Render, the load and xl2tpd's control commands work on. *)
rendering == <<rendered, disk, loaded, lacs, want, rpc, todo, snap>>

LEMMA OthersLeaveRendering ==
  ASSUME \/ \E p \in Procs : Continue(p)
         \/ ControlDisconnect \/ Terminate \/ Initiate \/ ControlConnect
         \/ Sessions \/ Operator \/ UNCHANGED vars
  PROVE  UNCHANGED rendering /\ UNCHANGED <<xl2tpd, charon>>
<1>1. CASE \E p \in Procs : Continue(p)
  BY <1>1 DEF Continue, RemoveRoutes, DisableNAT, AddRoutes, EnableNAT,
     SetPhase, SetStatus, Unhealthy, Fail, outsideCall, l2tp, ike, pass, rendering
<1>2. CASE ControlDisconnect \/ Terminate \/ Initiate \/ ControlConnect
  BY <1>2 DEF ControlDisconnect, Terminate, Initiate, ControlConnect,
     outsideCommand, pass, rendering
<1>3. CASE Sessions
  BY <1>3 DEF Sessions, SessionUp, LinkDies, PPPUp, PPPDown, Abandon,
     outsideEvent, pass, ike, l2tp, rendering
<1>4. CASE Operator
  BY <1>4 DEF Operator, Flap, SwitchOff, Elapse, Trip, Leave, Edit, outsideOperator,
     outsideEvent, pass, ike, l2tp, rendering
<1>5. CASE UNCHANGED vars
  BY <1>5 DEF vars, pass, ike, l2tp, rendering
<1> QED BY <1>1, <1>2, <1>3, <1>4, <1>5

(* Faults are not taken back. *)
LEMMA CleanBefore ==
  ASSUME Inv, [Next]_vars, Clean'
  PROVE  Clean /\ ~Spend("load") /\ ~Spend("ctl") /\ ~Spend("charon")
<1>1. Clean
  BY SpentGrows DEF Clean, Kinds
<1>2. \A k \in {"load", "ctl", "charon"} : Spend(k) => spent'[k] # 0
  BY DEF Spend, Inv, TypeOK, DataOK, Kinds
<1> QED BY <1>1, <1>2 DEF Clean

(* A step that renders nothing. *)
LEMMA RenderInv_Same ==
  ASSUME Inv, RenderInv, [Next]_vars, ~ControlRemove, UNCHANGED rendering,
         xl2tpd' # "ready" => lacs = Nothing \/ xl2tpd # "ready",
         Clean' /\ charon = "ready" => charon' = "ready"
  PROVE  RenderInv'
<1>1. \A n \in Keys(want) : Redefining(n) => Redefining(n)'
  BY Redefining_Next DEF Keys
<1>2. ASSUME Clean' PROVE PassRenders'
  <2>1. PassRenders
    BY <1>2, CleanBefore DEF RenderInv
  <2> QED BY <1>1, <1>2, <2>1 DEF PassRenders, InForce, Defines, rendering
<1> QED BY <1>2 DEF RenderInv, rendering

(* What desiredTunnels renders is enabled, and what is enabled rendered. *)
LEMMA DesiredKeys ==
  ASSUME Inv
  PROVE  Keys(Desired) = Keys(snap)
<1>1. \A r, t \in Configs : Fingerprint(r, t) \in Rendering
  BY DEF Fingerprint, Rendering, Inv, TypeOK, DataOK
<1>2. \A n \in Names : snap[n] \in Configs \cup {None} /\ conns[n] \in Configs \cup {None}
  BY DEF Inv, TypeOK, DataOK, PassOK
<1>3. \A n \in Names : Desired[n] = None <=> snap[n] = None
  BY <1>1, <1>2, DistinctAssumption DEF Desired
<1> QED BY <1>3 DEF Keys

(* The early return of writeConfigs, and what it does not return from. *)
LEMMA RenderInv_Render ==
  ASSUME Inv, RenderInv, [Next]_vars, Render
  PROVE  RenderInv'
<1>1. UNCHANGED <<rendered, disk, loaded, lacs, xl2tpd, charon, spent>> /\ rpc = "disconnect"
  BY DEF Render, outsidePass, l2tp
<1>2. CASE /\ want' = Desired /\ snap' = snap
           /\ rpc' = IF Skips(rendered, want') THEN "step" ELSE "write"
           /\ todo' = IF Skips(rendered, want') THEN Keys(snap)
                      ELSE ChangedTunnels(rendered, want')
  <2>1. Keys(want') = Keys(snap')
    BY <1>2, DesiredKeys
  <2>2. Skips(rendered, want') => rendered = want'
    BY <1>2, DesiredOK, SkipsMeansSame DEF Inv, TypeOK, DataOK
  <2>3. \A n \in Keys(want') \ ChangedTunnels(rendered, want') :
          rendered[n] = want'[n] /\ n \in Keys(rendered)
    BY DEF ChangedTunnels, Keys
  <2>4. ASSUME Clean' PROVE PassRenders'
    <3>1. PassRenders
      BY <2>4, CleanBefore DEF RenderInv
    <3>2. rendered # Nothing => InForce(rendered)
      BY <1>1, <3>1 DEF PassRenders
    <3>3. CASE Skips(rendered, want')
      <4>1. rpc' = "step" /\ rendered' = want'
        BY <1>1, <1>2, <2>2, <3>3
      <4> QED BY <1>1, <3>1, <3>2, <4>1 DEF PassRenders, InForce, Defines
    <3>4. CASE ~Skips(rendered, want')
      <4>1. rpc' = "write" /\ todo' = ChangedTunnels(rendered, want')
        BY <1>2, <3>4
      <4>2. (\A n \in Keys(want) \ todo : disk[n] = want[n] /\ Defines(n, want))'
        <5>1. ASSUME NEW n \in Keys(want') \ todo'
              PROVE  disk'[n] = want'[n] /\ lacs'[n] \in {None, want'[n].row}
          <6>1. n \in Keys(rendered) /\ rendered[n] = want'[n]
            BY <2>3, <4>1, <5>1
          <6>2. InForce(rendered)
            BY <3>2, <6>1 DEF Keys, Nothing
          <6> QED BY <1>1, <6>1, <6>2 DEF InForce, Defines
        <5> QED BY <5>1 DEF Defines
      <4> QED BY <1>1, <3>1, <3>2, <4>1, <4>2 DEF PassRenders, InForce, Defines
    <3> QED BY <3>3, <3>4
  <2> QED BY <1>1, <2>1, <2>4 DEF RenderInv
<1>3. CASE EndPass
  <2>1. rpc' = "idle"
    BY <1>3 DEF EndPass
  <2>2. ASSUME Clean' PROVE PassRenders'
    <3>1. PassRenders
      BY <2>2, CleanBefore DEF RenderInv
    <3> QED BY <1>1, <2>1, <3>1 DEF PassRenders, InForce, Defines
  <2> QED BY <1>1, <2>1, <2>2 DEF RenderInv
<1> QED BY <1>2, <1>3 DEF Render

(* Write, and what charon makes of the files. *)
LEMMA RenderInv_Load ==
  ASSUME Inv, RenderInv, [Next]_vars, WriteFiles \/ LoadAll
  PROVE  RenderInv'
<1>1. UNCHANGED <<rendered, lacs, xl2tpd, charon, frame>> /\ rpc \in {"write", "load"}
  BY DEF WriteFiles, LoadAll, outsidePass, l2tp
<1>2. rpc' = "idle" \/ (UNCHANGED <<want, snap, todo>> /\ rpc' \in {"load", "commit"})
  BY DEF WriteFiles, LoadAll, EndPass
<1>3. ASSUME Clean' PROVE PassRenders'
  <2>1. PassRenders /\ ~Spend("load")
    BY <1>3, CleanBefore DEF RenderInv
  <2>2. CASE WriteFiles
    BY <1>1, <2>1, <2>2 DEF PassRenders, WriteFiles, InForce, Defines
  <2>3. CASE LoadAll
    BY <1>1, <2>1, <2>3 DEF PassRenders, LoadAll, EndPass, InForce, Defines, Redefining
  <2> QED BY <2>2, <2>3
<1> QED BY <1>1, <1>2, <1>3 DEF RenderInv

(* The rest of the pass takes over what was loaded, and only drop touches  *)
(* a LAC.                                                                  *)
LEMMA RenderInv_Pass ==
  ASSUME Inv, RenderInv, [Next]_vars, Pass
  PROVE  RenderInv'
<1>1. CASE Render \/ WriteFiles \/ LoadAll
  BY <1>1, RenderInv_Render, RenderInv_Load
<1>2. ASSUME NEW n \in Names, Step(n) \/ Disconnect(n) \/ Drop(n) PROVE RenderInv'
  <2>1. UNCHANGED <<rendered, disk, loaded, lacs, want, rpc, snap, xl2tpd, charon>>
    BY <1>2 DEF Step, Disconnect, Drop, outsidePass, l2tp, pass
  <2>2. ASSUME Clean' PROVE PassRenders'
    <3>1. PassRenders
      BY <2>2, CleanBefore DEF RenderInv
    <3>2. CASE rpc \in {"step", "disconnect"}
      BY <2>1, <3>1, <3>2 DEF PassRenders, InForce, Defines
    <3>3. CASE Drop(n)
      <4>1. todo' = todo \ {n} /\ rpc = "drop" /\ frame[Rec].op = "idle"
        BY <3>3, RestingOp DEF Drop
      <4>2. Redefining(n)'
        BY <3>3, DropStep DEF Redefining
      <4>3. \A m \in Names : ~Redefining(m)
        BY <4>1 DEF Redefining
      <4> QED BY <2>1, <3>1, <4>1, <4>2, <4>3 DEF PassRenders, InForce, Defines, Keys
    <3> QED BY <1>2, <3>2, <3>3 DEF Step, Disconnect
  <2> QED BY <2>1, <2>2 DEF RenderInv
<1>3. CASE StartPass \/ Commit \/ StepAll \/ Advertise
  <2>1. UNCHANGED <<disk, loaded, lacs, xl2tpd, charon>>
    BY <1>3 DEF StartPass, Commit, StepAll, Advertise, outsidePass, l2tp
  <2>2. rpc' \in {"idle", "disconnect"} \/ (UNCHANGED <<want, snap>> /\ rpc \in {"commit", "drop"})
    BY <1>3 DEF StartPass, Commit, StepAll, Advertise, EndPass
  <2>3. ASSUME Clean' PROVE PassRenders'
    <3>1. PassRenders
      BY <2>3, CleanBefore DEF RenderInv
    <3>2. CASE StartPass \/ Advertise
      BY <2>1, <3>1, <3>2 DEF PassRenders, InForce, Defines, StartPass, Advertise, EndPass
    <3>3. CASE Commit
      BY <2>1, <3>1, <3>3 DEF PassRenders, InForce, Defines, Commit, Redefining
    <3>4. CASE StepAll
      <4>1. frame[Rec].op = "idle"
        BY <3>4, RestingOp DEF StepAll
      <4> QED BY <2>1, <3>1, <3>4, <4>1 DEF PassRenders, InForce, Defines, StepAll, Redefining
    <3> QED BY <1>3, <3>2, <3>3, <3>4
  <2> QED BY <2>1, <2>2, <2>3 DEF RenderInv
<1> QED BY <1>1, <1>2, <1>3 DEF Pass

(* xl2tpd forgets a LAC, or gets the wanted one, unless it is not there:   *)
(* then it has none and reads the files when it starts.                    *)
LEMMA RenderInv_Control ==
  ASSUME Inv, RenderInv, [Next]_vars, ControlRemove \/ ControlAdd
  PROVE  RenderInv'
<1> DEFINE n == frame[Rec].name
<1>1. UNCHANGED <<rendered, disk, loaded, want, rpc, todo, snap, xl2tpd, charon>>
  BY DEF ControlRemove, ControlAdd, outsideCommand, pass
<1>2. n \in Names /\ lacs \in [Names -> Configs \cup {None}] /\ Rec \in Procs /\ FramesOK
  BY RecCall DEF ControlRemove, ControlAdd, Inv, TypeOK, DaemonsOK
<1>3. xl2tpd # "ready" => lacs' = lacs
  BY DEF ControlRemove, ControlAdd, CtlFails
<1>4. ASSUME Clean' PROVE PassRenders'
  <2>1. PassRenders /\ ~Spend("ctl")
    BY <1>4, CleanBefore DEF RenderInv
  <2>2. xl2tpd # "ready" => lacs = Nothing
    BY DEF RenderInv
  <2>3. CASE ControlRemove
    <3>1. lacs'[n] = None /\ \A m \in Names : m # n => lacs'[m] = lacs[m]
      BY <1>2, <2>1, <2>2, <2>3 DEF ControlRemove, CtlFails, Nothing
    <3>2. \A m \in Names : Redefining(m) => m = n
      BY DEF Redefining
    <3> HIDE DEF n
    <3> QED BY <1>1, <1>2, <2>1, <3>1, <3>2 DEF PassRenders, InForce, Defines, Keys
  <2>4. CASE ControlAdd
    <3>1. rpc = "drop" /\ want[n] # None /\ \A m \in Names : ~Redefining(m)
      BY <2>4, RecCall DEF ControlAdd, Inv, PassIsShaped, At, Redefining
    <3>2. \A m \in Names : m # n => lacs'[m] = lacs[m]
      BY <1>2, <2>4 DEF ControlAdd, CtlFails
    <3>3. lacs'[n] = lacs[n] \/ lacs'[n] = want[n].row
      BY <1>2, <2>4 DEF ControlAdd, CtlFails
    <3> HIDE DEF n
    <3> QED BY <1>1, <2>1, <3>1, <3>2, <3>3 DEF PassRenders, InForce, Defines, Keys
  <2> QED BY <2>3, <2>4
<1> QED BY <1>1, <1>3, <1>4 DEF RenderInv

(* What the daemons' starts and exits do to what they have loaded. *)
LEMMA RenderInv_Daemons ==
  ASSUME Inv, RenderInv, [Next]_vars, Daemons
  PROVE  RenderInv'
<1>1. UNCHANGED <<disk, want, rpc, todo, snap, frame>>
  BY DEF Daemons, CharonStarts, CharonReady, CharonExits, Xl2tpdStarts, Xl2tpdReady,
     Xl2tpdExits, Invalidate, outsideEvent, pass
<1>2. CASE CharonStarts \/ CharonReady \/ Xl2tpdStarts
  <2>1. UNCHANGED rendering /\ (xl2tpd = "ready" => xl2tpd' = "ready")
        /\ (charon = "ready" => charon' = "ready")
    BY <1>1, <1>2 DEF CharonStarts, CharonReady, Xl2tpdStarts, outsideEvent, l2tp, ike, rendering
  <2>2. ~ControlRemove
    BY <1>1, RecCall, GotoStep DEF ControlRemove, At, Inv, TypeOK, AfterRemove, Points
  <2> QED BY <2>1, <2>2, RenderInv_Same
<1>3. CASE CharonExits
  <2>1. ~Clean'
    BY <1>3, CleanBefore DEF CharonExits
  <2> QED BY <1>1, <1>3, <2>1 DEF RenderInv, CharonExits, l2tp
<1>4. CASE Xl2tpdReady \/ Xl2tpdExits
  <2>1. UNCHANGED <<rendered, charon, loaded>> /\ (xl2tpd' # "ready" => lacs' = Nothing)
    BY <1>4 DEF Xl2tpdReady, Xl2tpdExits, ike
  <2>2. \A n \in Names : lacs'[n] = None \/ (disk[n] # None /\ lacs'[n] = disk[n].row)
    BY <1>4 DEF Xl2tpdReady, Xl2tpdExits, Nothing
  <2>3. ASSUME Clean' PROVE PassRenders'
    <3>1. PassRenders
      BY <2>3, CleanBefore DEF RenderInv
    <3> QED BY <1>1, <2>1, <2>2, <3>1 DEF PassRenders, InForce, Defines, Redefining, Keys
  <2> QED BY <1>1, <2>1, <2>3 DEF RenderInv
<1>5. ASSUME NEW d, Invalidate(d) PROVE RenderInv'
  <2>1. UNCHANGED <<charon, loaded, xl2tpd, lacs>> /\ rendered' = Nothing
    BY <1>5 DEF Invalidate, ike, l2tp
  <2>2. ASSUME Clean' PROVE PassRenders'
    <3>1. PassRenders
      BY <2>2, CleanBefore DEF RenderInv
    <3> QED BY <1>1, <2>1, <3>1 DEF PassRenders, InForce, Defines, Redefining
  <2> QED BY <1>1, <2>1, <2>2 DEF RenderInv
<1> QED BY <1>2, <1>3, <1>4, <1>5 DEF Daemons

LEMMA RenderInv_Next ==
  ASSUME Inv, RenderInv, [Next]_vars
  PROVE  RenderInv'
<1>1. CASE ~ControlRemove /\ (\/ \E p \in Procs : Continue(p)
                             \/ ControlDisconnect \/ Terminate \/ Initiate \/ ControlConnect
                             \/ Sessions \/ Operator \/ UNCHANGED vars)
  BY <1>1, OthersLeaveRendering, RenderInv_Same DEF RenderInv
<1> QED BY <1>1, RenderInv_Pass, RenderInv_Control, RenderInv_Daemons DEF Next, Command

(* However edits, restarts of xl2tpd and reports of starts interleave with *)
(* a pass: when it dials, the files, charon and xl2tpd have what the pass  *)
(* wants, for any number of connections.                                   *)
THEOREM DialsWanted == Spec => []DialsWhatItWants
<1>1. Init => RenderInv
  BY DEF Init, RenderInv, PassRenders
<1>2. RenderInv => DialsWhatItWants
  <2> SUFFICES ASSUME RenderInv, rpc = "step", Clean, NEW n \in Keys(snap)
               PROVE  /\ disk[n] = want[n]
                      /\ loaded[n] \in {None, want[n]}
                      /\ lacs[n] \in {None, want[n].row}
    BY DEF DialsWhatItWants, Clean
  <2>1. n \in Keys(want)
    BY DEF RenderInv
  <2>2. InForce(want)
    BY <2>1 DEF RenderInv, PassRenders, Keys, Nothing
  <2> QED BY <2>1, <2>2 DEF InForce, Defines
<1>3. Inv /\ RenderInv /\ [Next]_vars => RenderInv'
  BY RenderInv_Next
<1> QED BY <1>1, <1>2, <1>3, InvHolds, PTL DEF Spec

-----------------------------------------------------------------------------
(* Redialling: Manager implements Redial *)

(* What dial and fail of the reconciler will write to is in the map. *)
WorksOnMap == frame[Rec].op \in {"dial", "fail"} => frame[Rec].obj = "map"

(* An object that leaves the map while the reconciler works on it would   *)
(* have to leave in a pass of its own, which waits for the call to end.    *)
LEMMA WorksOnMap_Next ==
  ASSUME Inv, WorksOnMap, [Next]_vars
  PROVE  WorksOnMap'
<1> FramesOK /\ Rec \in Procs /\ frame[Rec] \in Frame /\ Shaped(Rec, frame[Rec])
  BY RecCall DEF Inv, TypeOK
<1>1. ASSUME \/ frame'[Rec].op \notin {"dial", "fail"}
             \/ frame'[Rec].op = frame[Rec].op /\ frame'[Rec].obj = frame[Rec].obj
      PROVE  WorksOnMap'
  BY <1>1 DEF WorksOnMap
<1>2. CASE Pass
  <2>1. CASE StartPass
    <3>1. frame[Rec].op = "idle"
      BY <2>1, PushingIsIdle DEF StartPass
    <3> QED BY <1>1, <2>1, <3>1, MovedStep DEF StartPass
  <2>2. ASSUME NEW n \in Names, Disconnect(n) PROVE WorksOnMap'
    BY <1>1, <2>2, DisconnectStep
  <2>3. ASSUME NEW n \in Names, Drop(n) PROVE WorksOnMap'
    BY <1>1, <2>3, DropStep
  <2>4. ASSUME NEW n \in Names, Step(n) PROVE WorksOnMap'
    BY <1>1, <2>4, StepStep, IdleIsFrame DEF WorksOnMap
  <2>5. CASE frame' = frame
    BY <1>1, <2>5
  <2> QED BY <1>2, <2>1, <2>2, <2>3, <2>4, <2>5
          DEF Pass, Render, WriteFiles, LoadAll, Commit, StepAll, Advertise
<1>3. CASE Command
  <2>1. \/ frame'[Rec] = Idle
        \/ \E x : frame' = [frame EXCEPT ![Rec].pc = x]
    BY <1>3 DEF Command, ControlDisconnect, ControlRemove, ControlAdd, Terminate,
       Initiate, ControlConnect, Goto, Return, FramesOK
  <2>2. CASE frame'[Rec] = Idle
    BY <1>1, <2>2, IdleIsFrame
  <2>3. ASSUME NEW x, frame' = [frame EXCEPT ![Rec].pc = x] PROVE WorksOnMap'
    <3>1. frame'[Rec].op = frame[Rec].op /\ frame'[Rec].obj = frame[Rec].obj
      BY <2>3 DEF FramesOK, Frame
    <3> QED BY <1>1, <3>1
  <2> QED BY <2>1, <2>2, <2>3
<1>4. CASE Continue(Rec)
  <2>1. CASE RemoveRoutes(Rec) \/ DisableNAT(Rec)
    BY <1>1, <2>1, GotoStep DEF RemoveRoutes, DisableNAT, AfterTearDown, Points, SameCall
  <2>2. CASE SetPhase(Rec)
    BY <1>1, <2>2, SetPhaseStep DEF SameCall
  <2>3. CASE SetStatus(Rec)
    BY <1>1, <2>3, GotoStep, CallStep, IdleIsFrame DEF SetStatus, Return, SameCall, Points
  <2>4. CASE Unhealthy(Rec)
    <3>1. \/ frame'[Rec] = Idle
          \/ \E x, i : frame' = [frame EXCEPT ![Rec].pc = x, ![Rec].iface = i]
      BY <2>4 DEF Unhealthy, Return, FramesOK
    <3>2. CASE frame'[Rec] = Idle
      BY <1>1, <3>2, IdleIsFrame
    <3>3. ASSUME NEW x, NEW i, frame' = [frame EXCEPT ![Rec].pc = x, ![Rec].iface = i]
          PROVE  WorksOnMap'
      <4>1. frame'[Rec].op = frame[Rec].op /\ frame'[Rec].obj = frame[Rec].obj
        BY <3>3 DEF FramesOK, Frame
      <4> QED BY <1>1, <4>1
    <3> QED BY <3>1, <3>2, <3>3
  <2>5. CASE Fail(Rec)
    <3>1. \/ frame'[Rec] = Idle
          \/ \E x, ss : frame' = [frame EXCEPT ![Rec].pc = x, ![Rec].subnets = ss,
                                               ![Rec].obj = "map"]
      BY <2>5 DEF Fail, Return, FramesOK
    <3>2. CASE frame'[Rec] = Idle
      BY <1>1, <3>2, IdleIsFrame
    <3>3. ASSUME NEW x, NEW ss,
                 frame' = [frame EXCEPT ![Rec].pc = x, ![Rec].subnets = ss,
                                        ![Rec].obj = "map"]
          PROVE  WorksOnMap'
      <4>1. frame'[Rec].obj = "map"
        BY <3>3 DEF FramesOK, Frame
      <4> QED BY <4>1 DEF WorksOnMap
    <3> QED BY <3>1, <3>2, <3>3
  <2>6. CASE AddRoutes(Rec) \/ EnableNAT(Rec)
    BY <2>6, DistinctAssumption DEF AddRoutes, EnableNAT, At, Shaped
  <2> QED BY <1>4, <2>1, <2>2, <2>3, <2>4, <2>5, <2>6 DEF Continue
<1>5. CASE frame'[Rec] = frame[Rec]
  BY <1>1, <1>5
<1> QED BY <1>2, <1>3, <1>4, <1>5, OthersLeaveRec DEF Next

(* The refinement mapping of Manager's R. *)
Phasing == [n \in Names |-> PhaseOf(n)]
Waits == [n \in Names |-> WaitOf(n)]

(* Both are what they are at each name, and functions to truth values that *)
(* agree everywhere are equal.                                             *)
LEMMA TruthValues ==
  ASSUME NEW t, NEW f, f = [n \in Names |-> t[n] # None /\ t[n].wait]
  PROVE  /\ f \in [Names -> BOOLEAN]
         /\ \A n \in Names : f[n] <=> t[n] # None /\ t[n].wait
<1>1. \A n \in Names : (t[n] # None /\ t[n].wait) \in BOOLEAN
  OBVIOUS
<1>2. \A n \in Names : f[n] = (t[n] # None /\ t[n].wait)
  OBVIOUS
<1>3. f \in [Names -> BOOLEAN]
  BY <1>1
<1>4. \A n \in Names : f[n] <=> t[n] # None /\ t[n].wait
  BY <1>2, Zenon
<1> QED BY <1>3, <1>4

(* Waits is such a function, before a step and after it. *)
LEMMA WaitsOf ==
  /\ Waits \in [Names -> BOOLEAN] /\ Waits' \in [Names -> BOOLEAN]
  /\ \A n \in Names : /\ Waits[n] <=> tunnels[n] # None /\ tunnels[n].wait
                      /\ Waits'[n] <=> tunnels'[n] # None /\ tunnels'[n].wait
<1>1. /\ Waits = [n \in Names |-> tunnels[n] # None /\ tunnels[n].wait]
      /\ Waits' = [n \in Names |-> tunnels'[n] # None /\ tunnels'[n].wait]
  BY DEF Waits, WaitOf
<1> QED BY <1>1, TruthValues

(* A function that agrees with it after a step is it. *)
LEMMA WaitsAre ==
  ASSUME NEW f \in [Names -> BOOLEAN], \A m \in Names : Waits'[m] <=> f[m]
  PROVE  Waits' = f
<1>1. Waits' \in [Names -> BOOLEAN]
  BY WaitsOf
<1> QED BY <1>1

(* A step that keeps every phase and every wait keeps both functions. *)
LEMMA SameFunctions ==
  ASSUME \A n \in Names : PhaseOf(n)' = PhaseOf(n) /\ (WaitOf(n)' <=> WaitOf(n))
  PROVE  Phasing' = Phasing /\ Waits' = Waits
<1>1. Phasing' = Phasing
  BY DEF Phasing
<1>2. \A n \in Names : Waits'[n] <=> Waits[n]
  BY WaitsOf DEF WaitOf
<1> QED BY <1>1, <1>2, WaitsOf, WaitsAre

(* A step that changes neither phase nor wait of any connection nor what   *)
(* the reconciler has in hand is none of Redial.                           *)
LEMMA SamePhases ==
  ASSUME \A n \in Names : PhaseOf(n)' = PhaseOf(n) /\ (WaitOf(n)' <=> WaitOf(n)),
         InHand' = InHand
  PROVE  UNCHANGED R!vars
BY SameFunctions DEF R!vars, Phasing, Waits

(* So is one that leaves the map alone, too. *)
LEMMA Stutter ==
  ASSUME tunnels' = tunnels, InHand' = InHand
  PROVE  UNCHANGED R!vars
BY SamePhases DEF PhaseOf, WaitOf

(* One tunnel of the map gets a phase and a timer. *)
LEMMA Redials ==
  ASSUME NEW n \in Names, \A m \in Names : m # n => tunnels'[m] = tunnels[m],
         NEW ph, NEW w \in BOOLEAN, tunnels'[n] # None,
         tunnels'[n].phase = ph, tunnels'[n].wait = w
  PROVE  R!Set(n, ph, w)
<1>1. Phasing' = [Phasing EXCEPT ![n] = ph]
  BY DEF Phasing, PhaseOf
<1>2. Waits' = [Waits EXCEPT ![n] = w]
  <2> DEFINE g == [Waits EXCEPT ![n] = w]
  <2>1. /\ g \in [Names -> BOOLEAN] /\ g[n] = w
        /\ \A m \in Names : m # n => g[m] = Waits[m]
    BY WaitsOf
  <2>2. Waits'[n] <=> w
    BY WaitsOf
  <2>3. \A m \in Names : m # n => (Waits'[m] <=> Waits[m])
    BY WaitsOf
  <2> HIDE DEF g
  <2>4. \A m \in Names : Waits'[m] <=> g[m]
    BY <2>1, <2>2, <2>3
  <2>5. Waits' = g
    BY <2>1, <2>4, WaitsAre
  <2> QED BY <2>5 DEF g
<1> QED BY <1>1, <1>2 DEF R!Set, Phasing, Waits

(* Some tunnels leave the map or are reset, and the others stay. *)
LEMMA StartsOver ==
  ASSUME NEW ns \in SUBSET Names,
         \A n \in Names \ ns : tunnels'[n] = tunnels[n],
         \A n \in ns : tunnels'[n] # None =>
                         tunnels'[n].phase = "disconnected" /\ tunnels'[n].wait = FALSE,
         InHand = R!Idle, InHand' = R!Idle
  PROVE  R!StartOver
<1>1. Phasing' = [n \in Names |-> IF n \in ns THEN "disconnected" ELSE Phasing[n]]
  BY DEF Phasing, PhaseOf
<1>2. Waits' = [n \in Names |-> IF n \in ns THEN FALSE ELSE Waits[n]]
  <2> DEFINE g == [n \in Names |-> IF n \in ns THEN FALSE ELSE Waits[n]]
  <2>1. g \in [Names -> BOOLEAN] /\ \A m \in Names : g[m] = IF m \in ns THEN FALSE ELSE Waits[m]
    BY WaitsOf
  <2>2. \A m \in ns : ~Waits'[m]
    BY WaitsOf
  <2>3. \A m \in Names \ ns : Waits'[m] <=> Waits[m]
    BY WaitsOf
  <2> HIDE DEF g
  <2>4. \A m \in Names : Waits'[m] <=> g[m]
    BY <2>1, <2>2, <2>3
  <2>5. Waits' = g
    BY <2>1, <2>4, WaitsAre
  <2> QED BY <2>5 DEF g
<1> QED BY <1>1, <1>2 DEF R!StartOver, Phasing, Waits

(* What the reconciler has in hand is a matter of its call.  *)
LEMMA SameHand ==
  ASSUME \/ frame'[Rec] = frame[Rec]
         \/ /\ frame'[Rec].op = frame[Rec].op /\ frame'[Rec].name = frame[Rec].name
            /\ frame'[Rec].pc = "say" <=> frame[Rec].pc = "say"
         \/ /\ frame[Rec].op \in {"dial", "fail"} => frame[Rec].pc = "say"
            /\ frame'[Rec].op \in {"dial", "fail"} => frame'[Rec].pc = "say"
  PROVE  InHand' = InHand
BY DEF InHand, At

(* The pass starts tunnels over, or takes up one that waits no longer. *)
LEMMA Refines_Pass ==
  ASSUME Inv, Pass
  PROVE  R!Next \/ UNCHANGED R!vars
<1> FramesOK /\ MemoryOK /\ Rec \in Procs
  BY RecCall DEF Inv, TypeOK
<1>1. ASSUME UNCHANGED <<frame, memory>> PROVE UNCHANGED R!vars
  BY <1>1, Stutter, SameHand DEF memory
<1>2. CASE StartPass
  <2>1. frame[Rec].op = "idle"
    BY <1>2, PushingIsIdle DEF StartPass
  <2>2. frame'[Rec].op = "idle"
    <3>1. \A q \in Procs : frame'[q].op = frame[q].op
      BY <1>2, MovedStep DEF FramesOK, StartPass
    <3> QED BY <2>1, <3>1
  <2>3. InHand = R!Idle /\ InHand' = R!Idle
    BY <2>1, <2>2 DEF InHand, R!Idle
  <2>4. /\ \A n \in Names \ Orphans : tunnels'[n] = tunnels[n]
        /\ \A n \in Orphans : tunnels'[n] = None
        /\ Orphans \in SUBSET Names
    BY <1>2 DEF StartPass, Orphans
  <2> QED BY <2>3, <2>4, StartsOver DEF R!Next
<1>3. ASSUME NEW n \in Names, Disconnect(n) PROVE UNCHANGED R!vars
  <2>1. frame[Rec].op = "idle" /\ frame'[Rec].op = "disconnect" /\ tunnels' = tunnels
    BY <1>3, RestingOp, DisconnectStep DEF Disconnect
  <2> QED BY <2>1, SameHand, Stutter
<1>4. ASSUME NEW n \in Names, Drop(n) PROVE R!Next
  <2>1. frame[Rec].op = "idle" /\ frame'[Rec].op = "drop"
    BY <1>4, RestingOp, DropStep DEF Drop
  <2>2. InHand = R!Idle /\ InHand' = R!Idle
    BY <2>1 DEF InHand, R!Idle
  <2>3. \A m \in Names \ {n} : tunnels'[m] = tunnels[m]
    BY <1>4 DEF Drop, MemoryOK
  <2>4. tunnels'[n] # None => tunnels'[n].phase = "disconnected" /\ tunnels'[n].wait = FALSE
    <3>1. CASE tunnels[n] = None
      BY <1>4, <3>1 DEF Drop
    <3>2. CASE tunnels[n] # None
      <4> DEFINE u == Dropped(tunnels[n])
      <4>1. tunnels[n] \in Tunnel
        BY <3>2 DEF MemoryOK
      <4>2. u.phase = "disconnected" /\ u.wait = FALSE
        BY <4>1 DEF Dropped, Tunnel
      <4>3. tunnels' = [tunnels EXCEPT ![n] = u]
        BY <1>4, <3>2 DEF Drop
      <4> HIDE DEF u
      <4> QED BY <4>2, <4>3 DEF MemoryOK
    <3> QED BY <3>1, <3>2
  <2>5. /\ {n} \in SUBSET Names
        /\ \A m \in {n} : tunnels'[m] # None =>
             tunnels'[m].phase = "disconnected" /\ tunnels'[m].wait = FALSE
    BY <2>4
  <2>6. R!StartOver
    BY <2>2, <2>3, <2>5, StartsOver
  <2> QED BY <2>6 DEF R!Next
<1>5. ASSUME NEW n \in Names, Step(n) PROVE R!Next \/ UNCHANGED R!vars
  <2>1. frame[Rec].op = "idle" /\ InHand = R!Idle
    BY <1>5, RestingOp DEF Step, InHand, R!Idle
  <2>2. CASE frame'[Rec] = Idle
    <3>1. InHand' = InHand
      BY <2>1, <2>2, SameHand, IdleIsFrame
    <3>2. \A m \in Names : PhaseOf(m)' = PhaseOf(m) /\ (WaitOf(m)' <=> WaitOf(m))
      BY <1>5, StepStep DEF PhaseOf, WaitOf
    <3> QED BY <3>1, <3>2, SamePhases
  <2>3. CASE frame'[Rec] # Idle
    <3>1. \A m \in Names : PhaseOf(m)' = PhaseOf(m) /\ (WaitOf(m)' <=> WaitOf(m))
      BY <1>5, StepStep DEF PhaseOf, WaitOf
    <3>2. Phasing' = Phasing /\ Waits' = Waits
      BY <3>1, SameFunctions
    <3>3. PhaseOf(n)' # "up" /\ ~WaitOf(n)'
      BY <1>5, <2>3, StepStep DEF PhaseOf, WaitOf
    <3>4. InHand' = IF PhaseOf(n)' = "connecting" THEN R!Fail(n) ELSE R!Dial(n)
      BY <1>5, <2>3, StepStep DEF PhaseOf, InHand, At, R!Fail, R!Dial
    <3>5. Phasing[n] = PhaseOf(n) /\ ~Waits[n]
      BY <3>1, <3>3, WaitsOf DEF Phasing, WaitOf
    <3>6. R!TakesUp(n)
      BY <2>1, <3>1, <3>2, <3>3, <3>4, <3>5 DEF R!TakesUp, Phasing, Waits
    <3> QED BY <3>6 DEF R!Next
  <2> QED BY <2>2, <2>3
<1>6. CASE Render \/ WriteFiles \/ LoadAll \/ Commit \/ StepAll \/ Advertise
  <2>1. UNCHANGED <<frame, memory>>
    BY <1>6 DEF Render, WriteFiles, LoadAll, Commit, StepAll, Advertise
  <2> QED BY <1>1, <2>1
<1> QED BY <1>2, <1>3, <1>4, <1>5, <1>6 DEF Pass

(* The reconciler's commands keep in hand what it works on. *)
LEMMA Refines_Command ==
  ASSUME Inv, Command
  PROVE  UNCHANGED R!vars
<1> FramesOK /\ Rec \in Procs /\ Shaped(Rec, frame[Rec])
  BY RecCall DEF Inv, TypeOK
<1>1. tunnels' = tunnels
  BY DEF Command, ControlDisconnect, ControlRemove, ControlAdd, Terminate,
     Initiate, ControlConnect, outsideCommand, memory
<1>2. InHand' = InHand
  <2>1. CASE ControlDisconnect \/ Initiate \/ ControlConnect
    BY <2>1, GotoStep, SameHand DEF ControlDisconnect, Initiate, ControlConnect,
       AfterHangUp, Points, SameCall, At
  <2>2. CASE ControlRemove \/ Terminate
    <3>1. frame[Rec].op \in {"disconnect", "drop"}
      BY <2>2, RecCall DEF ControlRemove, Terminate
    <3>2. frame'[Rec].op = frame[Rec].op
      BY <2>2, GotoStep DEF ControlRemove, Terminate, AfterRemove, Points, SameCall
    <3> QED BY <3>1, <3>2, SameHand
  <2>3. CASE ControlAdd
    <3>1. frame[Rec].op = "drop" /\ frame'[Rec] = Idle
      BY <2>3, RecCall, CallStep, IdleIsFrame DEF ControlAdd, Return
    <3> QED BY <3>1, SameHand, IdleIsFrame
  <2> QED BY <2>1, <2>2, <2>3 DEF Command
<1> QED BY <1>1, <1>2, Stutter

(* What a write through a state pointer is to Redial: nothing, if the map  *)
(* does not have the object any more.                                      *)
LEMMA PutRedials ==
  ASSUME Inv, NEW p \in Procs, NEW ph, NEW i, NEW w \in BOOLEAN, Put(p, ph, i, w),
         frame[p].name \in Names, SameKeys
  PROVE  IF frame[p].obj = "map" THEN R!Set(frame[p].name, ph, w) ELSE tunnels' = tunnels
<1>1. CASE frame[p].obj # "map"
  BY <1>1 DEF Put
<1>2. CASE frame[p].obj = "map"
  <2> DEFINE n == frame[p].name
             t == [phase |-> ph, iface |-> i, subnets |-> Target(p).subnets, wait |-> w]
  <2>1. tunnels' = [tunnels EXCEPT ![n] = t]
    BY <1>2 DEF Put
  <2>2. t.phase = ph /\ t.wait = w
    OBVIOUS
  <2> HIDE DEF t
  <2>3. tunnels'[n] = t /\ \A m \in Names : m # n => tunnels'[m] = tunnels[m]
    BY <2>1 DEF Inv, TypeOK, MemoryOK
  <2>4. tunnels'[n] # None
    BY <1>2 DEF Inv, PointersLead, SameKeys
  <2>5. R!Set(n, ph, w)
    BY <2>2, <2>3, <2>4, Redials
  <2> QED BY <1>2, <2>5
<1> QED BY <1>1, <1>2

(* The critical section that sets a phase is a step of Redial, or none if  *)
(* the map does not have the tunnel any more; what the reconciler has in   *)
(* hand ends with it.                                                      *)
LEMMA Refines_SetPhase ==
  ASSUME Inv, WorksOnMap, NEW p \in Procs, SetPhase(p)
  PROVE  R!Next \/ UNCHANGED R!vars
<1> DEFINE n == frame[p].name
<1>1. /\ Others(p) /\ SameCall(frame[p], frame'[p]) /\ frame'[p].pc = "say" /\ SameKeys
  BY SetPhaseStep
<1>2. Shaped(p, frame[p]) /\ Rec \in Procs
  BY RecCall DEF Inv, CallsAreShaped
<1>3. /\ n \in Names
      /\ Came(p) => p \in Hooks
      /\ Went(p) => p \in Hooks
      /\ Failed(p) => frame[p].op = "fail" /\ frame[p].pc = "failed"
      /\ Connecting(p) => frame[p].op = "dial" /\ p = Rec /\ frame[p].pc = "connecting"
      /\ DialFailed(p) => frame[p].op = "dial" /\ p = Rec /\ frame[p].pc = "dialfailed"
  BY <1>2 DEF Shaped, SetPhase, Came, Went, Failed, Connecting, DialFailed, At
<1>4. CASE p # Rec
  <2>1. InHand' = InHand
    BY <1>1, <1>2, <1>4, SameHand DEF Others
  <2>2. CASE Came(p)
    <3>1. IF frame[p].obj = "map" THEN R!Set(n, "up", FALSE) ELSE tunnels' = tunnels
      BY <1>1, <1>3, <2>2, PutRedials DEF Came
    <3> QED BY <1>3, <2>1, <3>1, Stutter DEF R!Next, R!Comes
  <2>3. CASE Went(p)
    <3>1. IF frame[p].obj = "map" THEN R!Set(n, "disconnected", TRUE) ELSE tunnels' = tunnels
      BY <1>1, <1>3, <2>3, PutRedials DEF Went
    <3> QED BY <1>3, <2>1, <3>1, Stutter DEF R!Next, R!Goes
  <2>4. CASE Failed(p)
    <3>1. IF frame[p].obj = "map" THEN R!Set(n, "failed", TRUE) ELSE tunnels' = tunnels
      BY <1>1, <1>3, <2>4, PutRedials DEF Failed
    <3> QED BY <1>3, <2>1, <3>1, Stutter DEF R!Next, R!Fails
  <2> QED BY <1>3, <1>4, <2>2, <2>3, <2>4 DEF SetPhase
<1>5. CASE p = Rec
  <2>1. InHand' = R!Idle
    BY <1>1, <1>5 DEF InHand, At, R!Idle
  <2>2. ~Came(p) /\ ~Went(p)
    BY <1>3, <1>5, DistinctAssumption
  <2>3. CASE Failed(p)
    <3>1. frame[p].obj = "map" /\ InHand = R!Fail(n)
      BY <1>3, <1>5, <2>3 DEF WorksOnMap, InHand, At, R!Fail
    <3>2. R!Set(n, "failed", TRUE)
      BY <1>1, <1>3, <2>3, <3>1, PutRedials DEF Failed
    <3> QED BY <1>3, <2>1, <3>1, <3>2 DEF R!Next, R!TimesOut
  <2>4. CASE Connecting(p)
    <3>1. frame[p].obj = "map" /\ InHand = R!Dial(n)
      BY <1>3, <1>5, <2>4 DEF WorksOnMap, InHand, At, R!Dial
    <3>2. R!Set(n, "connecting", TRUE)
      BY <1>1, <1>3, <2>4, <3>1, PutRedials DEF Connecting
    <3> QED BY <1>3, <2>1, <3>1, <3>2 DEF R!Next, R!Dialled
  <2>5. CASE DialFailed(p)
    <3>1. frame[p].obj = "map" /\ InHand = R!Dial(n)
      BY <1>3, <1>5, <2>5 DEF WorksOnMap, InHand, At, R!Dial
    <3>2. R!Set(n, "failed", TRUE)
      BY <1>1, <1>3, <2>5, <3>1, PutRedials DEF DialFailed
    <3> QED BY <1>3, <2>1, <3>1, <3>2 DEF R!Next, R!Dialled
  <2> QED BY <2>2, <2>3, <2>4, <2>5 DEF SetPhase
<1> QED BY <1>4, <1>5

(* The other steps of the reconciler's own calls keep in hand what it      *)
(* works on, which is still in the map.                                    *)
LEMMA Refines_Continue ==
  ASSUME Inv, WorksOnMap, Continue(Rec), ~SetPhase(Rec)
  PROVE  UNCHANGED R!vars
<1> FramesOK /\ Rec \in Procs /\ frame[Rec] \in Frame /\ Shaped(Rec, frame[Rec])
  BY RecCall DEF Inv, TypeOK
<1>1. tunnels' = tunnels
  BY DEF Continue, RemoveRoutes, DisableNAT, AddRoutes, EnableNAT, SetStatus,
     Unhealthy, Fail, memory
<1>2. InHand' = InHand
  <2>1. CASE RemoveRoutes(Rec) \/ DisableNAT(Rec)
    BY <2>1, GotoStep, SameHand DEF RemoveRoutes, DisableNAT, AfterTearDown, Points,
       SameCall, At
  <2>2. CASE SetStatus(Rec)
    <3>1. frame[Rec].pc = "say"
      BY <2>2 DEF SetStatus, At
    <3>2. frame'[Rec].op \notin {"dial", "fail"}
      BY <2>2, GotoStep, CallStep, IdleIsFrame DEF SetStatus, Return, Points, SameCall
    <3> QED BY <3>1, <3>2, SameHand
  <2>3. ASSUME Unhealthy(Rec) \/ Fail(Rec) PROVE tunnels[frame[Rec].name] # None
    BY <2>3 DEF Unhealthy, Fail, At, Shaped, WorksOnMap, Inv, PointersLead
  <2>4. CASE Unhealthy(Rec)
    <3> DEFINE f == [frame[Rec] EXCEPT !.pc = "lookup", !.iface = tunnels[frame[Rec].name].iface]
    <3>1. frame' = [frame EXCEPT ![Rec] = f] /\ frame[Rec].pc = "probe"
      BY <2>3, <2>4 DEF Unhealthy, At
    <3>2. f.op = frame[Rec].op /\ f.name = frame[Rec].name /\ f.pc = "lookup"
      BY DEF Frame
    <3> HIDE DEF f
    <3>3. frame'[Rec] = f
      BY <3>1 DEF FramesOK
    <3> QED BY <3>1, <3>2, <3>3, SameHand
  <2>5. CASE Fail(Rec)
    <3> DEFINE x == TearDown("fail", frame[Rec].iface)
               f == [frame[Rec] EXCEPT !.pc = x, !.obj = "map",
                                       !.subnets = tunnels[frame[Rec].name].subnets]
    <3>1. frame' = [frame EXCEPT ![Rec] = f] /\ frame[Rec].pc = "lookup"
      BY <2>3, <2>5 DEF Fail, At
    <3>2. x # "say"
      BY DEF TearDown, AfterTearDown
    <3> HIDE DEF x
    <3>3. f.op = frame[Rec].op /\ f.name = frame[Rec].name /\ f.pc = x
      BY DEF Frame
    <3> HIDE DEF f
    <3>4. frame'[Rec] = f
      BY <3>1 DEF FramesOK
    <3> QED BY <3>1, <3>2, <3>3, <3>4, SameHand
  <2>6. ~AddRoutes(Rec) /\ ~EnableNAT(Rec)
    BY DistinctAssumption DEF AddRoutes, EnableNAT, At, Shaped
  <2> QED BY <2>1, <2>2, <2>4, <2>5, <2>6 DEF Continue
<1> QED BY <1>1, <1>2, Stutter

(* What the other goroutines and the surroundings do besides writing a     *)
(* phase is nothing to Redial, but for a timer that runs out.              *)
LEMMA Refines_Around ==
  ASSUME Inv, \/ Daemons \/ Sessions \/ Operator \/ UNCHANGED vars
              \/ \E p \in Procs \ {Rec} : Continue(p) /\ ~SetPhase(p)
  PROVE  R!Next \/ UNCHANGED R!vars
<1>1. InHand' = InHand
  BY OthersLeaveRec, SameHand
<1>2. ASSUME NEW n \in Names, Elapse(n) PROVE R!Next
  <2> DEFINE g == [m \in Names |-> IF m \in {n} THEN FALSE ELSE Waits[m]]
  <2>1. /\ g \in [Names -> BOOLEAN]
        /\ \A m \in Names : g[m] = IF m \in {n} THEN FALSE ELSE Waits[m]
    BY WaitsOf
  <2>2. Waits'[n] <=> FALSE
    BY <1>2, ElapseStep, WaitsOf
  <2>3. \A m \in Names : m # n => (Waits'[m] <=> Waits[m])
    BY <1>2, ElapseStep, WaitsOf
  <2> HIDE DEF g
  <2>4. \A m \in Names : Waits'[m] <=> g[m]
    BY <2>1, <2>2, <2>3
  <2>5. Waits' = g
    BY <2>1, <2>4, WaitsAre
  <2>6. Phasing' = Phasing
    BY <1>2, ElapseStep DEF Phasing, PhaseOf, SameKeys
  <2>7. R!Elapses({n})
    BY <1>1, <2>5, <2>6 DEF g, R!Elapses, Phasing, Waits
  <2>8. {n} \in SUBSET Names
    OBVIOUS
  <2> QED BY <2>7, <2>8 DEF R!Next
<1>3. CASE tunnels' = tunnels
  BY <1>1, <1>3, Stutter
<1>4. (\E n \in Names : Elapse(n)) \/ tunnels' = tunnels
  BY DEF Daemons, CharonStarts, CharonReady, CharonExits, Xl2tpdStarts, Xl2tpdReady,
     Xl2tpdExits, Invalidate, Sessions, SessionUp, LinkDies, PPPUp, PPPDown, Abandon,
     Operator, Flap, SwitchOff, Trip, Leave, Edit, Continue, RemoveRoutes, DisableNAT,
     AddRoutes, EnableNAT, SetStatus, Unhealthy, Fail, outsideEvent, memory, vars
<1> QED BY <1>2, <1>3, <1>4

(* The first state: no tunnel, no call. *)
LEMMA Refines_Init == Init => R!Init /\ WorksOnMap
<1> SUFFICES ASSUME Init PROVE R!Init /\ WorksOnMap
  OBVIOUS
<1>1. frame[Rec].op = "idle" /\ WorksOnMap
  BY IdleIsFrame DEF Init, Procs, WorksOnMap
<1>2. InHand = R!Idle
  BY <1>1 DEF InHand, R!Idle
<1>3. \A n \in Names : tunnels[n] = None
  BY DEF Init, Nothing
<1>4. Phasing = [n \in Names |-> "disconnected"]
  BY <1>3 DEF Phasing, PhaseOf
<1>5. \A n \in Names : Waits[n] = FALSE
  BY <1>3, WaitsOf
<1>6. Waits = [n \in Names |-> FALSE]
  BY <1>5, WaitsOf
<1> QED BY <1>1, <1>2, <1>4, <1>6 DEF R!Init, Phasing, Waits

(* Every step of Manager is one of Redial or none. *)
LEMMA Refines_Next == Inv /\ WorksOnMap /\ [Next]_vars => [R!Next]_(R!vars)
<1> SUFFICES ASSUME Inv, WorksOnMap, [Next]_vars PROVE R!Next \/ UNCHANGED R!vars
  OBVIOUS
<1>1. CASE Pass
  BY <1>1, Refines_Pass
<1>2. CASE Command
  BY <1>2, Refines_Command
<1>3. ASSUME NEW p \in Procs, Continue(p) PROVE R!Next \/ UNCHANGED R!vars
  BY <1>3, Refines_SetPhase, Refines_Continue, Refines_Around
<1>4. CASE Daemons \/ Sessions \/ Operator \/ UNCHANGED vars
  BY <1>4, Refines_Around
<1> QED BY <1>1, <1>2, <1>3, <1>4 DEF Next

(* However the goroutines interleave, what they do to the phases is what   *)
(* Redial allows: the reconciler takes a connection up only when its dial  *)
(* timeout or its backoff is over, one at a time, and every failure and    *)
(* every lost session has to wait before it is dialled again.              *)
THEOREM RedialsInTurn == Spec => ImplementsRedial
<1>1. Spec => []WorksOnMap
  BY InvHolds, Refines_Init, WorksOnMap_Next, PTL DEF Spec
<1>2. Spec => R!Safety
  BY <1>1, InvHolds, Refines_Init, Refines_Next, PTL DEF Spec, R!Safety
<1> QED BY <1>2 DEF ImplementsRedial
=============================================================================
