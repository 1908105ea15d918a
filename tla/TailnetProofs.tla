----------------------------- MODULE TailnetProofs -----------------------------
(***************************************************************************)
(* Proofs about Tailnet, for every set of subnets and requests and every   *)
(* number of failures and changes.                                         *)
(***************************************************************************)
EXTENDS Tailnet, TLAPS

(* While what tailscaled was told last is not what is stored, and no login *)
(* is due to tell it, the request that stored it is about to.              *)
ExitInv ==
  ~missed /\ ~overtaken /\ prefs.exit # ExitNode =>
    \E r \in Requests : call[r].pc = "tell"

Inv == TypeOK /\ ExitInv

-----------------------------------------------------------------------------
(* Types *)

Call == [pc: {"idle", "wait", "remote", "local", "exit", "up", "login", "done", "set", "store",
              "tell"}, routes: SUBSET Subnets, exit: BOOLEAN]

LEMMA IdleType ==
  /\ Idle \in Call
  /\ [Idle EXCEPT !.pc = "wait"] \in Call /\ [Idle EXCEPT !.pc = "done"] \in Call
  /\ [Idle EXCEPT !.pc = "login"] \in Call
  /\ \A on \in BOOLEAN : [Idle EXCEPT !.pc = "store", !.exit = on] \in Call
  BY DEF Idle, Call

LEMMA CallersType ==
  Rec \in Callers /\ Join \in Callers /\ Requests \subseteq Callers
  BY DEF Callers, Logins

(* A call takes its next step, with what it read, or it ends. *)
Goes(c) == \E f \in Call : call' = [call EXCEPT ![c] = f]

LEMMA GotoGoes ==
  ASSUME TypeOK, NEW c \in Callers, NEW pc \in {"remote", "up", "tell"}, Goto(c, pc)
  PROVE  Goes(c)
  <1> DEFINE f == [call[c] EXCEPT !.pc = pc]
  <1>1. call[c] \in Call
    BY DEF TypeOK, Call
  <1>2. f \in Call
    BY <1>1 DEF Call
  <1>3. call' = [call EXCEPT ![c] = f]
    BY DEF Goto
  <1> HIDE DEF f
  <1> QED BY <1>2, <1>3 DEF Goes

LEMMA EndGoes ==
  ASSUME TypeOK, NEW c \in Callers, End(c) \/ Return(c)
  PROVE  Goes(c)
  BY IdleType DEF End, Return, Goes

LEMMA ReadGoes ==
  ASSUME TypeOK, NEW c \in Callers, ReadRemote(c) \/ ReadLocal(c) \/ ReadExit(c)
  PROVE  Goes(c)
  <1>1. call[c] \in Call /\ remote \in SUBSET Subnets /\ local \in SUBSET Subnets
    BY DEF TypeOK, Call, Subnets
  <1>2. CASE ReadRemote(c)
    <2> DEFINE f == [call[c] EXCEPT !.pc = "local", !.routes = remote]
    <2>1. f \in Call
      BY <1>1 DEF Call
    <2>2. call' = [call EXCEPT ![c] = f]
      BY <1>2 DEF ReadRemote
    <2> HIDE DEF f
    <2> QED BY <2>1, <2>2 DEF Goes
  <1>3. CASE ReadLocal(c)
    <2> DEFINE ps == call[c].routes \cup local
               pc == IF c = Rec THEN "set" ELSE "exit"
               f == [call[c] EXCEPT !.pc = pc, !.routes = ps]
    <2>1. pc \in {"set", "exit"} /\ ps \in SUBSET Subnets
      BY <1>1 DEF Call
    <2>2. Return(c) \/ call' = [call EXCEPT ![c] = f]
      BY <1>3 DEF ReadLocal
    <2> HIDE DEF pc, ps
    <2>3. f \in Call
      BY <1>1, <2>1 DEF Call
    <2> HIDE DEF f
    <2> QED BY <2>2, <2>3, EndGoes DEF Goes
  <1>4. CASE ReadExit(c)
    <2> DEFINE f == [call[c] EXCEPT !.pc = "up", !.exit = ExitNode]
    <2>1. ExitNode \in BOOLEAN
      BY DEF ExitNode
    <2>2. f \in Call
      BY <1>1, <2>1 DEF Call
    <2>3. call' = [call EXCEPT ![c] = f]
      BY <1>4 DEF ReadExit
    <2> HIDE DEF f
    <2> QED BY <2>2, <2>3 DEF Goes
  <1> QED BY <1>2, <1>3, <1>4

LEMMA NextGoes ==
  ASSUME TypeOK, [Next]_vars
  PROVE  UNCHANGED call \/ \E c \in Callers : Goes(c)
  <1>1. CASE WaitForSocket
    BY <1>1, CallersType, GotoGoes, EndGoes DEF WaitForSocket
  <1>2. CASE SetRoutes
    BY <1>2, CallersType, EndGoes DEF SetRoutes
  <1>3. ASSUME NEW c \in Callers, Begin(c) PROVE Goes(c)
    BY <1>3, GotoGoes DEF Begin
  <1>4. ASSUME NEW c \in Callers, Up(c) PROVE Goes(c)
    BY <1>4, IdleType DEF Up, Goes
  <1>5. ASSUME NEW c \in Callers, UpReturns(c) \/ Abort(c) PROVE Goes(c)
    BY <1>5, EndGoes DEF UpReturns, Abort
  <1>6. ASSUME NEW r \in Requests, PostExitNode(r) PROVE Goes(r)
    BY <1>6, IdleType DEF PostExitNode, Goes
  <1>7. ASSUME NEW r \in Requests, StoreExitNode(r) \/ SetExitNode(r) PROVE Goes(r)
    BY <1>7, CallersType, GotoGoes, EndGoes DEF StoreExitNode, SetExitNode
  <1>8. CASE Change \/ TailscaledStarts \/ TailscaledExits \/ UNCHANGED vars
    BY <1>8 DEF Change, TailscaledStarts, TailscaledExits, vars
  <1> QED BY <1>1, <1>2, <1>3, <1>4, <1>5, <1>6, <1>7, <1>8, CallersType, ReadGoes
          DEF Next, Continue

LEMMA Type_Tables ==
  ASSUME TypeOK, [Next]_vars
  PROVE  /\ remote' \in SUBSET Remotes /\ local' \in SUBSET Locals /\ setting' \in {"", "0", "1"}
         /\ tailscaled' \in {"down", "up"}
  BY DEF TypeOK, Next, Continue, vars, tables, WaitForSocket, SetRoutes, Begin, ReadRemote,
         ReadLocal, ReadExit, Up, UpReturns, Abort, PostExitNode, StoreExitNode, SetExitNode,
         Change, TailscaledStarts, TailscaledExits

LEMMA Type_Prefs ==
  ASSUME TypeOK, [Next]_vars
  PROVE  /\ advertised' \in SUBSET Subnets /\ prefs' \in [routes: SUBSET Subnets, exit: BOOLEAN]
  <1>1. prefs \in [routes: SUBSET Subnets, exit: BOOLEAN] /\ advertised \in SUBSET Subnets
        /\ \A c \in Callers : call[c].routes \in SUBSET Subnets /\ call[c].exit \in BOOLEAN
    BY DEF TypeOK
  <1>2. \/ UNCHANGED prefs
        \/ prefs' = [prefs EXCEPT !.routes = call[Rec].routes]
        \/ \E c \in Callers : prefs' = [routes |-> call[c].routes, exit |-> call[c].exit]
        \/ \E c \in Callers : prefs' = [prefs EXCEPT !.exit = call[c].exit]
    BY CallersType
       DEF Next, Continue, vars, WaitForSocket, SetRoutes, Begin, ReadRemote,
           ReadLocal, ReadExit, Up, UpReturns, Abort, PostExitNode, StoreExitNode, SetExitNode,
           Change, TailscaledStarts, TailscaledExits, Told
  <1>3. UNCHANGED advertised \/ advertised' = call[Rec].routes
    BY DEF Next, Continue, vars, WaitForSocket, SetRoutes, Begin, ReadRemote,
           ReadLocal, ReadExit, Up, UpReturns, Abort, PostExitNode, StoreExitNode, SetExitNode,
           Change, TailscaledStarts, TailscaledExits
  <1>4. prefs' \in [routes: SUBSET Subnets, exit: BOOLEAN]
    BY <1>1, <1>2, CallersType
  <1> QED BY <1>1, <1>3, <1>4, CallersType

LEMMA Type_History ==
  ASSUME TypeOK, [Next]_vars
  PROVE  bypassed' \in BOOLEAN /\ missed' \in BOOLEAN /\ overtaken' \in BOOLEAN
  <1>1. bypassed \in BOOLEAN /\ missed \in BOOLEAN /\ overtaken \in BOOLEAN
    BY DEF TypeOK
  <1>2. \/ bypassed' = bypassed \/ bypassed' = FALSE
        \/ \E c \in Callers : bypassed' = (call[c].routes # advertised)
    BY DEF Next, Continue, vars, history, WaitForSocket, SetRoutes, Begin, ReadRemote,
           ReadLocal, ReadExit, Up, UpReturns, Abort, PostExitNode, StoreExitNode, SetExitNode,
           Change, TailscaledStarts, TailscaledExits
  <1>3. missed' = missed \/ missed' = FALSE \/ missed' = TRUE
    BY DEF Next, Continue, vars, history, WaitForSocket, SetRoutes, Begin, ReadRemote,
           ReadLocal, ReadExit, Up, UpReturns, Abort, PostExitNode, StoreExitNode, SetExitNode,
           Change, TailscaledStarts, TailscaledExits
  <1>4. \/ overtaken' = overtaken
        \/ \E c \in Callers : overtaken' = (call[c].exit # ExitNode)
    BY CallersType
       DEF Next, Continue, vars, history, WaitForSocket, SetRoutes, Begin, ReadRemote,
           ReadLocal, ReadExit, Up, UpReturns, Abort, PostExitNode, StoreExitNode, SetExitNode,
           Change, TailscaledStarts, TailscaledExits
  <1>5. bypassed' \in BOOLEAN
    BY <1>1, <1>2
  <1>6. missed' \in BOOLEAN
    BY <1>1, <1>3
  <1>7. overtaken' \in BOOLEAN
    BY <1>1, <1>4
  <1> QED BY <1>5, <1>6, <1>7

LEMMA Type_Bounds ==
  ASSUME TypeOK, [Next]_vars
  PROVE  faults' \in 0..MaxFaults /\ changes' \in 0..MaxChanges
  <1>1. faults \in 0..MaxFaults /\ changes \in 0..MaxChanges
        /\ MaxFaults \in Nat /\ MaxChanges \in Nat
    BY TailnetAssumption DEF TypeOK
  <1>2. faults' = faults \/ (faults < MaxFaults /\ faults' = faults + 1)
    BY DEF Next, Continue, vars, bounds, WaitForSocket, SetRoutes, Begin, ReadRemote,
           ReadLocal, ReadExit, Up, UpReturns, Abort, PostExitNode, StoreExitNode, SetExitNode,
           Change, TailscaledStarts, TailscaledExits, Fault
  <1>3. changes' = changes \/ (changes < MaxChanges /\ changes' = changes + 1)
    BY DEF Next, Continue, vars, bounds, WaitForSocket, SetRoutes, Begin, ReadRemote,
           ReadLocal, ReadExit, Up, UpReturns, Abort, PostExitNode, StoreExitNode, SetExitNode,
           Change, TailscaledStarts, TailscaledExits
  <1> QED BY <1>1, <1>2, <1>3

LEMMA Type_Next ==
  ASSUME TypeOK, [Next]_vars
  PROVE  TypeOK'
  <1>1. call' \in [Callers -> Call]
    BY NextGoes DEF TypeOK, Call, Goes
  <1> QED BY <1>1, Type_Tables, Type_Prefs, Type_History, Type_Bounds DEF TypeOK, Call

-----------------------------------------------------------------------------
(* The exit node *)

LEMMA Exit_Told ==
  ASSUME prefs'.exit = ExitNode' \/ overtaken' \/ missed'
  PROVE  ExitInv'
  BY DEF ExitInv

(* Steps of calls that neither store nor tell it leave it as it is. *)
LEMMA Exit_Same ==
  ASSUME ExitInv, UNCHANGED <<missed, overtaken, setting>>, prefs'.exit = prefs.exit,
         \A r \in Requests : call[r].pc = "tell" => call'[r].pc = "tell"
  PROVE  ExitInv'
  BY DEF ExitInv, ExitNode

LEMMA OthersCalls ==
  ASSUME TypeOK, NEW c \in Callers, call[c].pc # "tell", Goes(c)
  PROVE  \A r \in Requests : call[r].pc = "tell" => call'[r].pc = "tell"
  BY CallersType DEF Goes, TypeOK

LEMMA Exit_Next ==
  ASSUME TypeOK, ExitInv, [Next]_vars
  PROVE  ExitInv'
  <1>1. prefs \in [routes: SUBSET Subnets, exit: BOOLEAN]
    BY DEF TypeOK
  <1>2. CASE WaitForSocket
    <2>1. Goes(Join) /\ call[Join].pc # "tell" /\ UNCHANGED <<missed, overtaken, setting, prefs>>
      BY <1>2, CallersType, GotoGoes, EndGoes DEF WaitForSocket, At, history, tables
    <2> QED BY <2>1, CallersType, OthersCalls, Exit_Same
  <1>3. CASE SetRoutes
    <2>1. Goes(Rec) /\ call[Rec].pc # "tell" /\ UNCHANGED <<missed, overtaken, setting>>
      BY <1>3, CallersType, EndGoes DEF SetRoutes, At, tables
    <2>2. prefs'.exit = prefs.exit
      BY <1>1, <1>3 DEF SetRoutes
    <2> QED BY <2>1, <2>2, CallersType, OthersCalls, Exit_Same
  <1>4. ASSUME NEW c \in Callers, \/ Begin(c) \/ ReadRemote(c) \/ ReadLocal(c) \/ ReadExit(c)
                                 \/ UpReturns(c) \/ Abort(c)
        PROVE  ExitInv'
    <2>1. call[c].pc # "tell" /\ UNCHANGED <<missed, overtaken, setting, prefs>>
      BY <1>4 DEF Begin, ReadRemote, ReadLocal, ReadExit, UpReturns, Abort, At, history, tables
    <2>2. Goes(c)
      BY <1>4, GotoGoes, EndGoes, ReadGoes DEF Begin, UpReturns, Abort
    <2> QED BY <2>1, <2>2, OthersCalls, Exit_Same
  <1>5. ASSUME NEW c \in Callers, Up(c) PROVE ExitInv'
    <2>1. prefs'.exit = call[c].exit /\ ExitNode' = ExitNode /\ overtaken' = (call[c].exit # ExitNode)
      BY <1>5 DEF Up, Told, tables, ExitNode
    <2> QED BY <2>1, Exit_Told
  <1>6. ASSUME NEW r \in Requests, PostExitNode(r) PROVE ExitInv'
    <2>1. Goes(r) /\ call[r].pc # "tell" /\ UNCHANGED <<missed, overtaken, setting, prefs>>
      BY <1>6, IdleType DEF PostExitNode, Goes, At, history, tables
    <2> QED BY <2>1, CallersType, OthersCalls, Exit_Same
  <1>7. ASSUME NEW r \in Requests, StoreExitNode(r) PROVE ExitInv'
    <2>1. call'[r].pc = "tell"
      <3>1. call' = [call EXCEPT ![r] = [call[r] EXCEPT !.pc = "tell"]] /\ call[r] \in Call
            /\ r \in Callers /\ call \in [Callers -> Call]
        BY <1>7, CallersType DEF StoreExitNode, Goto, TypeOK, Call
      <3>2. [call[r] EXCEPT !.pc = "tell"].pc = "tell"
        BY <3>1 DEF Call
      <3> QED BY <3>1, <3>2
    <2> QED BY <2>1 DEF ExitInv
  <1>8. ASSUME NEW r \in Requests, SetExitNode(r) PROVE ExitInv'
    <2>1. CASE missed' = TRUE
      BY <2>1, Exit_Told
    <2>2. CASE prefs' = [prefs EXCEPT !.exit = call[r].exit] /\ overtaken' = (call[r].exit # ExitNode)
      <3>1. prefs'.exit = call[r].exit
        BY <1>1, <2>2
      <3>2. ExitNode' = ExitNode
        BY <1>8 DEF SetExitNode, tables, ExitNode
      <3> QED BY <2>2, <3>1, <3>2, Exit_Told
    <2> QED BY <1>8, <2>1, <2>2 DEF SetExitNode
  <1>9. CASE Change \/ TailscaledStarts \/ TailscaledExits \/ UNCHANGED vars
    BY <1>9, Exit_Same DEF Change, TailscaledStarts, TailscaledExits, vars, tables, history
  <1> QED BY <1>2, <1>3, <1>4, <1>5, <1>6, <1>7, <1>8, <1>9 DEF Next, Continue

-----------------------------------------------------------------------------
(* Invariants *)

LEMMA Inv_Init == Init => Inv
  <1> SUFFICES ASSUME Init PROVE Inv
    OBVIOUS
  <1>1. call \in [Callers -> Call]
    BY IdleType DEF Init
  <1>2. missed = TRUE /\ bypassed \in BOOLEAN /\ missed \in BOOLEAN /\ overtaken \in BOOLEAN
    BY DEF Init
  <1>3. prefs \in [routes: SUBSET Subnets, exit: BOOLEAN]
    BY DEF Init, Subnets
  <1>4. faults \in 0..MaxFaults /\ changes \in 0..MaxChanges
    <2>1. 0 \in 0..MaxFaults /\ 0 \in 0..MaxChanges
      BY TailnetAssumption
    <2> QED BY <2>1 DEF Init
  <1>5. TypeOK
    BY <1>1, <1>2, <1>3, <1>4 DEF Init, TypeOK, Call
  <1> QED BY <1>2, <1>5 DEF Inv, ExitInv

LEMMA Inv_Next == Inv /\ [Next]_vars => Inv'
  BY Type_Next, Exit_Next DEF Inv

(* The invariant holds in every reachable state. *)
LEMMA InvHolds == Spec => []Inv
  <1> QED BY Inv_Init, Inv_Next, PTL DEF Spec

(* Only stored subnets are ever advertised, and the calls of the login     *)
(* goroutine, the reconciler and the requests keep to their steps.         *)
THEOREM TypeCorrect == Spec => []TypeOK
  <1>1. Inv => TypeOK
    BY DEF Inv
  <1> QED BY <1>1, InvHolds, PTL

(* However the login, the reconciler and the requests interleave: once a   *)
(* login has made up for a missed exit node, tailscaled has the stored     *)
(* value whenever no request is about to tell it, or was last told one     *)
(* that another request had overtaken.                                     *)
THEOREM LoginsReplayExitNode == Spec => []LoginReplaysExitNode
  <1>1. Inv => LoginReplaysExitNode
    BY DEF Inv, ExitInv, LoginReplaysExitNode
  <1> QED BY <1>1, InvHolds, PTL
=============================================================================
