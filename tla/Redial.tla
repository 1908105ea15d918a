-------------------------------- MODULE Redial --------------------------------
(***************************************************************************)
(* What the tunnel manager of tsv-vpn promises about redialling, without   *)
(* clocks, commands and interfaces.  A connection that is connecting waits *)
(* for its dial timeout, one that is down for its backoff; wait says that  *)
(* the one that counts in its phase still runs.  The reconciler works on   *)
(* one connection at a time, and takes up only one whose wait is over;     *)
(* hooks, checks and edits change the phase at any time.                   *)
(*                                                                         *)
(* Manager implements it with the goroutines, Schedule with the clock.     *)
(***************************************************************************)
CONSTANT Names

VARIABLES
  phase,  \* tunnel.phase
  wait,   \* the dial timeout or the backoff has to run
  busy    \* what the reconciler does to which connection

vars == <<phase, wait, busy>>

Phases == {"disconnected", "connecting", "up", "failed"}

(* It does nothing; it times a dial out; it dials. *)
Idle == [op |-> "idle"]
Fail(n) == [op |-> "fail", name |-> n]
Dial(n) == [op |-> "dial", name |-> n]

Init ==
  /\ phase = [n \in Names |-> "disconnected"]
  /\ wait = [n \in Names |-> FALSE]
  /\ busy = Idle

Set(n, p, w) == phase' = [phase EXCEPT ![n] = p] /\ wait' = [wait EXCEPT ![n] = w]

TakesUp(n) ==
  /\ busy = Idle /\ ~wait[n] /\ phase[n] # "up"
  /\ busy' = IF phase[n] = "connecting" THEN Fail(n) ELSE Dial(n)
  /\ UNCHANGED <<phase, wait>>

TimesOut(n) == busy = Fail(n) /\ busy' = Idle /\ Set(n, "failed", TRUE)

Dialled(n) ==
  /\ busy = Dial(n) /\ busy' = Idle
  /\ Set(n, "connecting", TRUE) \/ Set(n, "failed", TRUE)

(* A session came, went, or could not be used; a health check tripped. *)
Comes(n) == Set(n, "up", FALSE) /\ UNCHANGED busy
Goes(n)  == Set(n, "disconnected", TRUE) /\ UNCHANGED busy
Fails(n) == Set(n, "failed", TRUE) /\ UNCHANGED busy

(* Connections that were edited or removed start over. *)
StartOver == \E ns \in SUBSET Names :
  /\ phase' = [n \in Names |-> IF n \in ns THEN "disconnected" ELSE phase[n]]
  /\ wait' = [n \in Names |-> IF n \in ns THEN FALSE ELSE wait[n]]
  /\ busy = Idle /\ busy' = Idle

Elapses(ns) ==
  /\ UNCHANGED <<phase, busy>>
  /\ wait' = [n \in Names |-> IF n \in ns THEN FALSE ELSE wait[n]]

Next ==
  \/ \E ns \in SUBSET Names : Elapses(ns)
  \/ \E n \in Names : \/ TakesUp(n) \/ TimesOut(n) \/ Dialled(n)
                      \/ Comes(n) \/ Goes(n) \/ Fails(n)
  \/ StartOver

Safety == Init /\ [][Next]_vars

(* What the reconciler took up it finishes, and it takes up what waits no  *)
(* longer again and again.                                                 *)
Attended(n) == wait[n] \/ phase[n] = "up" \/ busy # Idle

Spec ==
  /\ Safety
  /\ WF_vars(\E n \in Names : TimesOut(n) \/ Dialled(n))
  /\ \A n \in Names : []<>Attended(n)
=============================================================================
