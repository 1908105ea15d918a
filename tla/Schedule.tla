------------------------------- MODULE Schedule -------------------------------
(***************************************************************************)
(* When the tunnel manager of tsv-vpn does something: the loop of Run, its *)
(* nudge channel and timer, and the dial timeouts and backoffs of the      *)
(* tunnels (internal/tunnel/reconcile.go).                                 *)
(*                                                                         *)
(* Time is discrete.  A deadline is kept as what is left of it, so that    *)
(* the clock needs no bound: 0 says that it has passed or was never set,   *)
(* which the code does not tell apart.  A goroutine that can go on does so *)
(* before the next tick of the clock; a pass of Reconcile takes up to      *)
(* PassTime, with ticks anywhere in it.  What a pass does to a connection, *)
(* and how it interleaves with the hooks, is the subject of Manager.       *)
(***************************************************************************)
EXTENDS Naturals, FiniteSetsExt

CONSTANTS
  Names,                           \* enabled connections
  Tick, RetryTick, DialTimeout,    \* as in the code, in units of the clock
  MinRedialDelay, MaxRedialDelay,
  MaxShift,                        \* the 16 of redialDelay
  Second,                          \* the second nextRetry waits at least
  PassTime,                        \* bound: the longest a pass takes
  MaxMissed,                       \* bound: failed passes while Followed is due
  Followed                         \* the connection whose history is kept

ASSUME ScheduleAssumption ==
  /\ {Tick, RetryTick, DialTimeout, MinRedialDelay, MaxRedialDelay, Second}
       \subseteq Nat \ {0}
  /\ {MaxShift, PassTime, MaxMissed} \subseteq Nat
  /\ RetryTick <= Tick /\ Second <= RetryTick
  /\ MinRedialDelay <= MaxRedialDelay
  /\ Followed \in Names

VARIABLES
  phase,     \* tunnel.phase
  failures,  \* tunnel.failures
  retry,     \* time to tunnel.retryAt
  dialed,    \* time since tunnel.dialedAt, up to DialTimeout, when connecting
  loop,      \* where Run is: "start" of a pass, "pass" or "sleep"
  todo,      \* the connections the pass has not stepped
  busy,      \* the dial or the failure step is in the middle of
  worked,    \* time the pass has taken
  timer,     \* time to the timer of Run
  nudge,     \* the nudge channel holds its one element
  edited,    \* connections whose fingerprint is not the rendered one
  telling,   \* the handler of an edit has not called Nudge yet
  idle,      \* history: time since its backoff ran out, or its dial timed out
  pending,   \* history: its backoff ran when Run went to sleep, and since
  missed     \* history: passes that failed while it was due

deadlines == <<phase, failures, retry, dialed>>
run       == <<loop, todo, busy, worked, timer>>
channel   == <<nudge, edited, telling>>
history   == <<idle, pending, missed>>
vars == <<deadlines, run, channel, history>>

Idle == [op |-> "idle"]
Doing(op, n) == [op |-> op, name |-> n]

Init ==
  /\ phase = [n \in Names |-> "disconnected"]
  /\ failures = [n \in Names |-> 0]
  /\ retry = [n \in Names |-> 0] /\ dialed = [n \in Names |-> DialTimeout]
  /\ loop = "start" /\ todo = {} /\ busy = Idle /\ worked = 0 /\ timer = 0
  /\ nudge = FALSE /\ edited = {} /\ telling = FALSE
  /\ idle = 0 /\ pending = FALSE /\ missed = 0

-----------------------------------------------------------------------------
(* Deadlines *)

Least(m, n) == IF m <= n THEN m ELSE n
Most(m, n) == IF m >= n THEN m ELSE n

(* Mutant: every failure doubles the delay, the first one too, without end. *)
redialDelay_NoCap(f) == MinRedialDelay * 2^f

redialDelay(f) == Least(MinRedialDelay * 2^Least(f - 1, MaxShift), MaxRedialDelay)

(* Beyond the largest shift the count makes no difference. *)
OneMore(f) == Least(f + 1, MaxShift + 1)

Set(n, p, f, r) ==
  /\ phase' = [phase EXCEPT ![n] = p]
  /\ failures' = [failures EXCEPT ![n] = f]
  /\ retry' = [retry EXCEPT ![n] = r]
  /\ dialed' = [dialed EXCEPT ![n] = IF p = "connecting" THEN 0 ELSE DialTimeout]

(* fail and dialFailed *)
Failed(n) ==
  LET f == OneMore(failures[n]) IN
  Set(n, "failed", f, redialDelay(f))

(* What step finds to do. *)
Expired(n) ==
  \/ phase[n] = "connecting" /\ dialed[n] >= DialTimeout
  \/ phase[n] \in {"disconnected", "failed"} /\ retry[n] = 0

(* The history of a connection whose deadline was seen, or set again. *)
Seen(ns) ==
  /\ idle' = IF Followed \in ns THEN 0 ELSE idle
  /\ pending' = (pending /\ Followed \notin ns)
  /\ missed' = IF Followed \in ns THEN 0 ELSE missed

-----------------------------------------------------------------------------
(* Run *)

(* The select of Run. *)
Wake ==
  /\ loop = "sleep" /\ loop' = "start"
  /\ \/ timer = 0 /\ nudge' = nudge
     \/ nudge /\ nudge' = FALSE
  /\ timer' = 0
  /\ UNCHANGED <<deadlines, todo, busy, worked, edited, telling, history>>

(* drop: the backoff of an edited connection starts over. *)
Dropped(ns) ==
  /\ phase' = [n \in Names |-> IF n \in ns THEN "disconnected" ELSE phase[n]]
  /\ failures' = [n \in Names |-> IF n \in ns THEN 0 ELSE failures[n]]
  /\ retry' = [n \in Names |-> IF n \in ns THEN 0 ELSE retry[n]]
  /\ dialed' = [n \in Names |-> IF n \in ns THEN DialTimeout ELSE dialed[n]]

(* Reconcile up to the first step: what changed is rendered and dropped. *)
Start ==
  /\ loop = "start" /\ loop' = "pass"
  /\ todo' = Names
  /\ edited' = {}
  /\ Dropped(edited) /\ Seen(edited)
  /\ UNCHANGED <<busy, worked, timer, nudge, telling>>

(* The next connection of the pass: ListConnections has a fixed order. *)
First(ns) == CHOOSE n \in ns : TRUE

(* step, up to the call of dial or fail, when it looks for what is due. *)
StepsTo(n, due) ==
  /\ loop = "pass" /\ busy = Idle /\ todo # {} /\ n = First(todo)
  /\ todo' = todo \ {n}
  /\ busy' = IF ~due THEN Idle
             ELSE Doing(IF phase[n] = "connecting" THEN "fail" ELSE "dial", n)
  /\ IF due THEN Seen({n}) ELSE UNCHANGED history
  /\ UNCHANGED <<deadlines, loop, worked, timer, channel>>

(* Mutant: a dial never times out. *)
Step_NoTimeout(n) == StepsTo(n, Expired(n) /\ phase[n] # "connecting")

(* Mutant: the backoff is not looked at. *)
Step_NoBackoff(n) == StepsTo(n, Expired(n) \/ phase[n] \in {"disconnected", "failed"})

Step(n) == StepsTo(n, Expired(n))

(* dial and fail end. *)
StepEnds(n) ==
  /\ \/ busy \in {Doing("dial", n), Doing("fail", n)} /\ Failed(n)
     \/ /\ busy = Doing("dial", n)
        /\ Set(n, "connecting", failures[n], retry[n])
  /\ busy' = Idle /\ Seen({n})
  /\ UNCHANGED <<loop, todo, worked, timer, channel>>

Running == {n \in Names : retry[n] > 0}

(* Mutant: no backoff shortens the wait. *)
nextRetry_SlowTick == Most(Second, Tick)

(* The shortest backoff that runs, up to the slow tick. *)
nextRetry == Most(Second, Min({Tick} \cup {retry[n] : n \in Running}))

Sleep(wait) ==
  /\ loop' = "sleep" /\ timer' = Least(wait, nextRetry)
  /\ todo' = {} /\ worked' = 0
  /\ pending' = (Followed \in Running /\ phase[Followed] # "connecting")
  /\ UNCHANGED <<deadlines, busy, channel>>

(* Reconcile returns, from advertise. *)
PassEnds ==
  /\ loop = "pass" /\ busy = Idle /\ todo = {}
  /\ Sleep(Tick) \/ Sleep(RetryTick)
  /\ UNCHANGED <<idle, missed>>

(* ListConnections or writeConfigs failed: nothing was dropped or dialled, *)
(* and what was due goes on waiting.                                       *)
StartFails ==
  /\ loop = "start"
  /\ Sleep(RetryTick)
  /\ IF Expired(Followed) THEN missed < MaxMissed /\ missed' = missed + 1
     ELSE missed' = missed
  /\ UNCHANGED idle

-----------------------------------------------------------------------------
(* Hooks, checks, edits and restarted daemons *)

(* Mutant: a nudge is lost unless Run waits for it. *)
Nudge_Unbuffered == nudge' = (nudge \/ loop = "sleep")

(* A send that does not block, to a channel of capacity one. *)
Nudge == nudge' = TRUE

PPPUp(n) ==
  /\ Set(n, "up", 0, 0) /\ Seen({n})
  /\ UNCHANGED <<run, channel>>

(* The routes or the rules of a new session could not be set. *)
PPPUpFails(n) ==
  /\ Failed(n) /\ Seen({n})
  /\ UNCHANGED <<run, channel>>

PPPDown(n) ==
  /\ Set(n, "disconnected", failures[n], MinRedialDelay) /\ Seen({n})
  /\ Nudge
  /\ UNCHANGED <<run, edited, telling>>

Unhealthy(n) ==
  /\ Failed(n) /\ Seen({n})
  /\ Nudge
  /\ UNCHANGED <<run, edited, telling>>

(* A handler of the web UI stores an edit, then nudges. *)
Edit(n) ==
  /\ ~telling /\ telling' = TRUE
  /\ edited' = edited \cup {n}
  /\ UNCHANGED <<deadlines, run, nudge, history>>

Tell ==
  /\ telling /\ telling' = FALSE
  /\ Nudge
  /\ UNCHANGED <<deadlines, run, edited, history>>

(* A daemon was started again: no connection counts as rendered. *)
Invalidate ==
  /\ edited' = Names
  /\ Nudge
  /\ UNCHANGED <<deadlines, run, telling, history>>

-----------------------------------------------------------------------------
(* Time *)

(* Run has nothing to do yet, or its pass may take longer. *)
MayTick ==
  /\ ~telling
  /\ IF loop = "sleep" THEN timer > 0 /\ ~nudge ELSE worked < PassTime

Down(t) == IF t > 0 THEN t - 1 ELSE 0

Clock ==
  /\ MayTick
  /\ retry' = [n \in Names |-> Down(retry[n])]
  /\ dialed' = [n \in Names |-> Least(dialed[n] + 1, DialTimeout)]
  /\ timer' = Down(timer)
  /\ worked' = IF loop = "sleep" THEN 0 ELSE worked + 1
  /\ idle' = IF Expired(Followed) THEN idle + 1 ELSE 0
  /\ UNCHANGED <<phase, failures, loop, todo, busy, channel, pending, missed>>

-----------------------------------------------------------------------------
(* The specification *)

Run ==
  \/ Wake \/ Start \/ StartFails \/ PassEnds
  \/ \E n \in Names : Step(n) \/ StepEnds(n)

Others ==
  \/ Tell \/ Invalidate
  \/ \E n \in Names : \/ PPPUp(n) \/ PPPUpFails(n) \/ PPPDown(n) \/ Unhealthy(n)
                      \/ Edit(n)

Next == Run \/ Others \/ Clock

Spec == Init /\ [][Next]_vars

(* The goroutine of Run is scheduled, a handler returns, time goes on, and *)
(* the store and charon do not fail every pass.                            *)
FairSpec == Spec /\ WF_vars(Run) /\ SF_vars(Start) /\ WF_vars(Clock) /\ WF_vars(Tell)

TypeOK ==
  /\ phase \in [Names -> {"disconnected", "connecting", "up", "failed"}]
  /\ failures \in [Names -> 0..(MaxShift + 1)]
  /\ retry \in [Names -> 0..MaxRedialDelay]
  /\ dialed \in [Names -> 0..DialTimeout]
  /\ loop \in {"start", "pass", "sleep"} /\ todo \in SUBSET Names
  /\ busy \in {Idle} \cup {Doing(op, n) : op \in {"dial", "fail"}, n \in Names}
  /\ worked \in 0..PassTime /\ timer \in 0..Tick
  /\ nudge \in BOOLEAN /\ telling \in BOOLEAN /\ edited \in SUBSET Names
  /\ idle \in Nat /\ pending \in BOOLEAN /\ missed \in 0..MaxMissed

-----------------------------------------------------------------------------
(* Properties *)

(* Run never sleeps long over an edit or a restarted daemon: one that no   *)
(* pass took up has its nudge in the channel, or in a handler that is      *)
(* about to send it, or the pass failed and the next one follows soon.     *)
EditIsNotSleptOver ==
  loop = "sleep" /\ edited # {} => nudge \/ telling \/ timer <= RetryTick

(* A backoff that ran when Run went to sleep is taken up in the pass that  *)
(* starts when it ends, for which the timer was set, or when the second    *)
(* is over that the timer was set to instead, unless that pass fails.      *)
BackoffWakes == pending /\ Expired(Followed) => idle < Second + PassTime

(* Nothing waits longer than a slow tick and the two passes around it, and *)
(* a retry tick and a pass more for each pass that failed meanwhile: not a *)
(* dial that timed out, which no timer is set for, not a backoff that ran  *)
(* out behind the step of a pass, nor one that a hook set meanwhile.       *)
NothingLingers == idle <= Tick + 2 * PassTime + missed * (RetryTick + PassTime)

(* The clock, the deadlines and the loop do what Redial says of waits.     *)
Waits == [n \in Names |->
  IF phase[n] = "connecting" THEN dialed[n] < DialTimeout ELSE retry[n] > 0]

R == INSTANCE Redial WITH wait <- Waits

ImplementsRedial == R!Spec
=============================================================================
