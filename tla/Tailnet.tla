------------------------------- MODULE Tailnet -------------------------------
(***************************************************************************)
(* What tailscaled is told by tsv-vpn (cmd/tsv-vpn, internal/tailnet,      *)
(* internal/web/tailnet.go): the reconciler advertises the stored routes,  *)
(* joinTailnet logs the node in once after the start, and requests of the  *)
(* web UI log it in or offer it as an exit node, all at the same time.     *)
(*                                                                         *)
(* An action is one query of the database or one run of the tailscale      *)
(* command.  tailscaled keeps its prefs over a restart.                    *)
(***************************************************************************)
EXTENDS Naturals

CONSTANTS
  Remotes,    \* subnets behind connections
  Locals,     \* local subnets
  Requests,   \* web requests to the tailnet page
  MaxFaults,  \* bound: failures and restarts of tailscaled
  MaxChanges  \* bound: changes of the stored routes and of the exit node

ASSUME TailnetAssumption == MaxFaults \in Nat /\ MaxChanges \in Nat

Rec == "reconciler"
Join == "join"
Logins == Requests \cup {Join}
Callers == Logins \cup {Rec}

VARIABLES
  remote,     \* subnets of the enabled connections
  local,      \* enabled local subnets
  setting,    \* the setting exit_node: absent (""), "0" or "1"
  advertised, \* m.advertised; the empty string is the empty set
  tailscaled, \* "up" once it answers on its socket
  prefs,      \* what tailscaled was told
  call,       \* the calls in progress
  bypassed,   \* history: tailscaled's routes are not the ones in advertised
  missed,     \* history: exit node stored, not told, and no login since
  overtaken,  \* history: the exit node last told was stored no longer
  faults, changes

tables == <<remote, local, setting>>
history == <<bypassed, missed, overtaken>>
bounds == <<faults, changes>>
vars == <<tables, advertised, tailscaled, prefs, call, history, bounds>>

Routes == remote \cup local

ExitNode == setting = "1"

Idle == [pc |-> "idle", routes |-> {}, exit |-> FALSE]

(* main starts tailscaled, joinTailnet and the reconciler together; routes *)
(* and prefs are what an earlier life of the container left.               *)
Init ==
  /\ remote \in SUBSET Remotes /\ local \in SUBSET Locals /\ setting = ""
  /\ advertised = {}
  /\ tailscaled = "down"
  /\ prefs \in [routes: SUBSET (Remotes \cup Locals), exit: {FALSE}]
  /\ call = [c \in Callers |-> IF c = Join THEN [Idle EXCEPT !.pc = "wait"] ELSE Idle]
  /\ bypassed = TRUE /\ missed = TRUE /\ overtaken = FALSE
  /\ faults = 0 /\ changes = 0

-----------------------------------------------------------------------------
(* Calls *)

At(c, pc) == call[c].pc = pc
Goto(c, pc) == call' = [call EXCEPT ![c].pc = pc]
Return(c) == call' = [call EXCEPT ![c] = Idle]
Fault == faults < MaxFaults /\ faults' = faults + 1

(* joinTailnet runs once. *)
End(c) ==
  IF c = Join THEN call' = [call EXCEPT ![c] = [Idle EXCEPT !.pc = "done"]]
  ELSE Return(c)

(* WaitForSocket: tailscaled answers, or half a minute is over. *)
WaitForSocket ==
  /\ At(Join, "wait")
  /\ \/ tailscaled = "up" /\ Goto(Join, "remote") /\ faults' = faults
     \/ tailscaled = "down" /\ Fault /\ End(Join)
  /\ UNCHANGED <<tables, advertised, tailscaled, prefs, history, changes>>

(* advertise, and the login button. *)
Begin(c) ==
  /\ c # Join /\ At(c, "idle") /\ Goto(c, "remote")
  /\ UNCHANGED <<tables, advertised, tailscaled, prefs, history, bounds>>

(* AdvertisedRoutes: connections first, then local subnets. *)
ReadRemote(c) ==
  /\ At(c, "remote")
  /\ call' = [call EXCEPT ![c].pc = "local", ![c].routes = remote]
  /\ UNCHANGED <<tables, advertised, tailscaled, prefs, history, bounds>>

(* The reconciler has nothing to do if that is what it advertised last. *)
ReadLocal(c) ==
  LET found == call[c].routes \cup local IN
  /\ At(c, "local")
  /\ IF c = Rec /\ found = advertised THEN Return(c)
     ELSE call' = [call EXCEPT ![c].pc = IF c = Rec THEN "set" ELSE "exit",
                               ![c].routes = found]
  /\ UNCHANGED <<tables, advertised, tailscaled, prefs, history, bounds>>

ReadExit(c) ==
  /\ At(c, "exit")
  /\ call' = [call EXCEPT ![c].pc = "up", ![c].exit = ExitNode]
  /\ UNCHANGED <<tables, advertised, tailscaled, prefs, history, bounds>>

(* Mutant: routes that could not be set count as advertised. *)
SetRoutes_Forgets ==
  /\ At(Rec, "set") /\ Return(Rec)
  /\ advertised' = call[Rec].routes
  /\ \/ /\ tailscaled = "up" /\ faults' = faults
        /\ prefs' = [prefs EXCEPT !.routes = call[Rec].routes]
        /\ bypassed' = FALSE
     \/ /\ Fault \/ (tailscaled = "down" /\ faults' = faults)
        /\ UNCHANGED <<prefs, bypassed>>
  /\ UNCHANGED <<tables, tailscaled, missed, overtaken, changes>>

(* SetRoutes, and the assignment that follows if it worked. *)
SetRoutes ==
  /\ At(Rec, "set") /\ Return(Rec)
  /\ \/ /\ tailscaled = "up" /\ faults' = faults
        /\ advertised' = call[Rec].routes
        /\ prefs' = [prefs EXCEPT !.routes = call[Rec].routes]
        /\ bypassed' = FALSE
     \/ /\ Fault \/ (tailscaled = "down" /\ faults' = faults)
        /\ UNCHANGED <<advertised, prefs, bypassed>>
  /\ UNCHANGED <<tables, tailscaled, missed, overtaken, changes>>

(* Mutant: only a set exit node is mentioned. *)
Told_OnlyTrue(c) ==
  [routes |-> call[c].routes, exit |-> call[c].exit \/ prefs.exit]

(* upArgs: every pref is always passed. *)
Told(c) == [routes |-> call[c].routes, exit |-> call[c].exit]

(* "tailscale up" hands over the prefs and waits for the login, for ever   *)
(* if it has no key.                                                       *)
Up(c) ==
  /\ At(c, "up") /\ tailscaled = "up"
  /\ prefs' = Told(c)
  /\ bypassed' = (call[c].routes # advertised)
  /\ overtaken' = (call[c].exit # ExitNode)
  /\ missed' = FALSE
  /\ call' = [call EXCEPT ![c] = [Idle EXCEPT !.pc = "login"]]
  /\ UNCHANGED <<tables, advertised, tailscaled, bounds>>

UpReturns(c) ==
  /\ At(c, "login") /\ End(c)
  /\ UNCHANGED <<tables, advertised, tailscaled, prefs, history, bounds>>

(* A query fails, the command does or the browser goes away; joinTailnet   *)
(* is not tried again.                                                     *)
Abort(c) ==
  /\ call[c].pc \in {"remote", "local", "exit", "up", "store"}
  /\ Fault \/ (At(c, "up") /\ tailscaled = "down" /\ faults' = faults)
  /\ End(c)
  /\ UNCHANGED <<tables, advertised, tailscaled, prefs, history, changes>>

(* The exit node button: store, then tell. *)
PostExitNode(r) ==
  /\ At(r, "idle") /\ changes < MaxChanges /\ changes' = changes + 1
  /\ \E on \in BOOLEAN :
       call' = [call EXCEPT ![r] = [Idle EXCEPT !.pc = "store", !.exit = on]]
  /\ UNCHANGED <<tables, advertised, tailscaled, prefs, history, faults>>

(* Mutant: it is stored the way tailscale spells it. *)
StoreExitNode_Bool(r) ==
  /\ At(r, "store") /\ Goto(r, "tell")
  /\ setting' = IF call[r].exit THEN "true" ELSE "false"
  /\ UNCHANGED <<remote, local, advertised, tailscaled, prefs, history, bounds>>

StoreExitNode(r) ==
  /\ At(r, "store") /\ Goto(r, "tell")
  /\ setting' = IF call[r].exit THEN "1" ELSE "0"
  /\ UNCHANGED <<remote, local, advertised, tailscaled, prefs, history, bounds>>

SetExitNode(r) ==
  /\ At(r, "tell") /\ Return(r)
  /\ \/ /\ tailscaled = "up" /\ faults' = faults
        /\ prefs' = [prefs EXCEPT !.exit = call[r].exit]
        /\ overtaken' = (call[r].exit # ExitNode)
        /\ missed' = missed
     \/ /\ Fault \/ (tailscaled = "down" /\ faults' = faults)
        /\ missed' = TRUE
        /\ UNCHANGED <<prefs, overtaken>>
  /\ UNCHANGED <<tables, advertised, tailscaled, bypassed, changes>>

-----------------------------------------------------------------------------
(* The surroundings *)

(* The operator creates, edits, switches or deletes what has subnets. *)
Change ==
  /\ changes < MaxChanges /\ changes' = changes + 1
  /\ \/ remote' \in SUBSET Remotes \ {remote} /\ local' = local
     \/ local' \in SUBSET Locals \ {local} /\ remote' = remote
  /\ UNCHANGED <<setting, advertised, tailscaled, prefs, call, history, faults>>

TailscaledStarts ==
  /\ tailscaled = "down" /\ tailscaled' = "up"
  /\ UNCHANGED <<tables, advertised, prefs, call, history, bounds>>

TailscaledExits ==
  /\ tailscaled = "up" /\ tailscaled' = "down" /\ Fault
  /\ UNCHANGED <<tables, advertised, prefs, call, history, changes>>

-----------------------------------------------------------------------------
(* The specification *)

Continue(c) == ReadRemote(c) \/ ReadLocal(c) \/ ReadExit(c) \/ Up(c)

Next ==
  \/ WaitForSocket \/ SetRoutes
  \/ \E c \in Callers : Begin(c) \/ Continue(c) \/ UpReturns(c) \/ Abort(c)
  \/ \E r \in Requests : PostExitNode(r) \/ StoreExitNode(r) \/ SetExitNode(r)
  \/ Change \/ TailscaledStarts \/ TailscaledExits

Spec == Init /\ [][Next]_vars

(* The reconciler passes again and again, queries and commands end, and    *)
(* tailscaled is restarted; nothing makes a login return.                  *)
FairSpec ==
  /\ Spec
  /\ WF_vars(Begin(Rec)) /\ WF_vars(SetRoutes) /\ WF_vars(WaitForSocket)
  /\ WF_vars(TailscaledStarts)
  /\ \A c \in Callers : WF_vars(Continue(c) \/ (Abort(c) /\ faults' = faults))
  /\ \A r \in Requests : WF_vars(StoreExitNode(r) \/ SetExitNode(r))

Subnets == Remotes \cup Locals

TypeOK ==
  /\ remote \in SUBSET Remotes /\ local \in SUBSET Locals
  /\ setting \in {"", "0", "1"}
  /\ advertised \in SUBSET Subnets
  /\ tailscaled \in {"down", "up"}
  /\ prefs \in [routes: SUBSET Subnets, exit: BOOLEAN]
  /\ call \in [Callers -> [pc: {"idle", "wait", "remote", "local", "exit", "up",
                                "login", "done", "set", "store", "tell"},
                           routes: SUBSET Subnets, exit: BOOLEAN]]
  /\ bypassed \in BOOLEAN /\ missed \in BOOLEAN /\ overtaken \in BOOLEAN
  /\ faults \in 0..MaxFaults /\ changes \in 0..MaxChanges

-----------------------------------------------------------------------------
(* Properties *)

(* Whichever command fails, and even if no login ever returns, tailscaled  *)
(* ends up advertising the stored routes.  The one way to miss them: a     *)
(* login, or an earlier life of the container, told it other routes than   *)
(* the reconciler did last, and the stored ones are back to those, so that *)
(* advertise finds them unchanged (m.advertised starts empty).             *)
RoutesConverge ==
  <>[](prefs.routes = Routes \/ (bypassed /\ advertised = Routes))

(* An exit node that was stored while tailscaled did not answer is told by *)
(* the next login: when no request is at work, tailscaled has the stored   *)
(* value, unless the last one to tell it was overtaken by another request. *)
LoginReplaysExitNode ==
  (~missed /\ \A r \in Requests : call[r].pc \notin {"store", "tell"}) =>
    prefs.exit = ExitNode \/ overtaken
=============================================================================
