------------------------------ MODULE Supervisor ------------------------------
(***************************************************************************)
(* The daemon supervisor of tsv-vpn (internal/supervise): one goroutine    *)
(* for each daemon starts it, reads its two output streams to the end,     *)
(* waits for it, backs off and starts it again, until the context ends.    *)
(*                                                                         *)
(* A daemon writes its lines to pipes of PipeSize lines and blocks on a    *)
(* full one.  A child it forked may hold the pipes open after it exited.   *)
(*                                                                         *)
(* Process runs the supervisor as a part of the tsv-vpn process.           *)
(***************************************************************************)
EXTENDS Naturals

CONSTANTS
  Daemons,     \* the supervised processes
  MinBackoff,  \* s.min(), in seconds
  MaxBackoff,  \* s.max()
  PipeSize     \* bound: lines a pipe holds

Streams == {"stdout", "stderr"}

VARIABLES
  pc,        \* where supervise is with each daemon
  backoff,   \* its backoff variable
  streak,    \* history: restarts since the last run that was stable
  alive,     \* the daemon runs
  writers,   \* who holds the write ends of its pipes
  pipe,      \* lines in each pipe
  reader,    \* the goroutine that runs scan on each pipe
  cancelled  \* the context is done

vars == <<pc, backoff, streak, alive, writers, pipe, reader, cancelled>>

process == <<alive, writers>>
output  == <<pipe, reader>>

Least(m, n) == IF m <= n THEN m ELSE n

(* The state before Run is called. *)
Fresh ==
  [pc |-> [d \in Daemons |-> "launch"],
   backoff |-> [d \in Daemons |-> MinBackoff],
   streak |-> [d \in Daemons |-> 0],
   alive |-> [d \in Daemons |-> FALSE],
   writers |-> [d \in Daemons |-> {}],
   pipe |-> [d \in Daemons |-> [s \in Streams |-> 0]],
   reader |-> [d \in Daemons |-> [s \in Streams |-> "eof"]]]

Init ==
  /\ pc = Fresh.pc /\ backoff = Fresh.backoff /\ streak = Fresh.streak
  /\ alive = Fresh.alive /\ writers = Fresh.writers
  /\ pipe = Fresh.pipe /\ reader = Fresh.reader
  /\ cancelled = FALSE

(* The process around it ends, and its children with it. *)
Ends ==
  /\ pc' = Fresh.pc /\ backoff' = Fresh.backoff /\ streak' = Fresh.streak
  /\ alive' = Fresh.alive /\ writers' = Fresh.writers
  /\ pipe' = Fresh.pipe /\ reader' = Fresh.reader
  /\ cancelled' = FALSE

-----------------------------------------------------------------------------
(* supervise and start *)

At(d, where) == pc[d] = where
Goto(d, where) == pc' = [pc EXCEPT ![d] = where]

Launch(d) ==
  /\ At(d, "launch") /\ ~cancelled
  /\ Goto(d, "running")
  /\ alive' = [alive EXCEPT ![d] = TRUE]
  /\ writers' = [writers EXCEPT ![d] = {"daemon"}]
  /\ pipe' = [pipe EXCEPT ![d] = [s \in Streams |-> 0]]
  /\ reader' = [reader EXCEPT ![d] = [s \in Streams |-> "scan"]]
  /\ UNCHANGED <<backoff, streak, cancelled>>

(* Mutant: a daemon that ran for long keeps the backoff it had. *)
Rest_NoReset(d, stable) ==
  /\ UNCHANGED backoff
  /\ streak' = [streak EXCEPT ![d] = IF stable THEN 0 ELSE @]

(* What remains of supervise's loop once start has returned.  streak stops *)
(* counting where the backoff has reached its maximum.                     *)
Rest(d, stable) ==
  /\ backoff' = [backoff EXCEPT ![d] = IF stable THEN MinBackoff ELSE @]
  /\ streak' = [streak EXCEPT ![d] = IF stable THEN 0 ELSE @]

Returned(d, stable) ==
  IF cancelled
  THEN Goto(d, "returned") /\ UNCHANGED <<backoff, streak>>
  ELSE Goto(d, "waiting") /\ Rest(d, stable)

(* StdoutPipe, StderrPipe or Start fails. *)
LaunchFails(d) ==
  /\ At(d, "launch") /\ ~cancelled
  /\ Returned(d, FALSE)
  /\ UNCHANGED <<process, output, cancelled>>

(* streams.Wait *)
StreamsEnd(d) ==
  /\ At(d, "running") /\ \A s \in Streams : reader[d][s] = "eof"
  /\ Goto(d, "reaping")
  /\ UNCHANGED <<backoff, streak, process, output, cancelled>>

(* Mutant: start returns when the streams end. *)
Reap_NoWait(d) ==
  /\ At(d, "reaping")
  /\ \E stable \in BOOLEAN : Returned(d, stable)
  /\ UNCHANGED <<process, output, cancelled>>

(* command.Wait; the run may have lasted StableAfter or not. *)
Reap(d) ==
  /\ At(d, "reaping") /\ ~alive[d]
  /\ \E stable \in BOOLEAN : Returned(d, stable)
  /\ UNCHANGED <<process, output, cancelled>>

(* Mutant: the backoff has no maximum. *)
BackedOff_NoMax(d) ==
  /\ At(d, "waiting")
  /\ Goto(d, "launch")
  /\ backoff' = [backoff EXCEPT ![d] = 2 * @]
  /\ streak' = [streak EXCEPT ![d] = @ + 1]
  /\ UNCHANGED <<process, output, cancelled>>

(* time.After(backoff), and the doubling. *)
BackedOff(d) ==
  /\ At(d, "waiting")
  /\ Goto(d, "launch")
  /\ backoff' = [backoff EXCEPT ![d] = Least(2 * @, MaxBackoff)]
  /\ streak' = [streak EXCEPT ![d] = IF backoff[d] = MaxBackoff THEN @ ELSE @ + 1]
  /\ UNCHANGED <<process, output, cancelled>>

(* The loop's condition and the backoff's select see the context end. *)
Stop(d) ==
  /\ (At(d, "launch") \/ At(d, "waiting")) /\ cancelled
  /\ Goto(d, "returned")
  /\ UNCHANGED <<backoff, streak, process, output, cancelled>>

-----------------------------------------------------------------------------
(* scan *)

(* Mutant: a stream is left alone after a line the scanner cannot hold. *)
AfterOverlong_Stop == "eof"

(* It is drained. *)
AfterOverlong == "drain"

(* A line is read; in "scan" it may be longer than the scanner's buffer. *)
Read(d, s) ==
  /\ reader[d][s] # "eof" /\ pipe[d][s] > 0
  /\ pipe' = [pipe EXCEPT ![d][s] = @ - 1]
  /\ \/ reader' = reader
     \/ /\ reader[d][s] = "scan"
        /\ reader' = [reader EXCEPT ![d][s] = AfterOverlong]
  /\ UNCHANGED <<pc, backoff, streak, process, cancelled>>

(* Nobody can write to the pipe any more. *)
EndOfFile(d, s) ==
  /\ reader[d][s] # "eof" /\ pipe[d][s] = 0 /\ writers[d] = {}
  /\ reader' = [reader EXCEPT ![d][s] = "eof"]
  /\ UNCHANGED <<pc, backoff, streak, process, pipe, cancelled>>

-----------------------------------------------------------------------------
(* The daemon and its child *)

Blocked(d) == \E s \in Streams : pipe[d][s] = PipeSize

Write(d, s) ==
  /\ alive[d] /\ "daemon" \in writers[d] /\ ~Blocked(d)
  /\ pipe' = [pipe EXCEPT ![d][s] = @ + 1]
  /\ UNCHANGED <<pc, backoff, streak, process, reader, cancelled>>

Fork(d) ==
  /\ alive[d] /\ "daemon" \in writers[d] /\ ~Blocked(d)
  /\ writers' = [writers EXCEPT ![d] = @ \cup {"child"}]
  /\ UNCHANGED <<pc, backoff, streak, alive, output, cancelled>>

(* The daemon closes its output and goes on. *)
Detach(d) ==
  /\ alive[d] /\ "daemon" \in writers[d] /\ ~Blocked(d)
  /\ writers' = [writers EXCEPT ![d] = @ \ {"daemon"}]
  /\ UNCHANGED <<pc, backoff, streak, alive, output, cancelled>>

Gone(d) ==
  /\ alive' = [alive EXCEPT ![d] = FALSE]
  /\ writers' = [writers EXCEPT ![d] = @ \ {"daemon"}]
  /\ UNCHANGED <<pc, backoff, streak, output, cancelled>>

Exits(d) == alive[d] /\ ~Blocked(d) /\ Gone(d)

(* Mutant: no WaitDelay, so a daemon may sit SIGTERM out. *)
Kill_OnlyAsked(d) == cancelled /\ Exits(d)

(* Once the context ends: SIGTERM, and SIGKILL after WaitDelay. *)
Kill(d) == alive[d] /\ cancelled /\ Gone(d)

ChildExits(d) ==
  /\ "child" \in writers[d]
  /\ writers' = [writers EXCEPT ![d] = @ \ {"child"}]
  /\ UNCHANGED <<pc, backoff, streak, alive, output, cancelled>>

(* SIGINT or SIGTERM reaches tsv-vpn. *)
Cancel ==
  /\ ~cancelled /\ cancelled' = TRUE
  /\ UNCHANGED <<pc, backoff, streak, process, output>>

-----------------------------------------------------------------------------
(* The specification *)

Supervise(d) ==
  \/ Launch(d) \/ LaunchFails(d) \/ StreamsEnd(d) \/ Reap(d) \/ BackedOff(d)
  \/ Stop(d)

Scan(d, s) == Read(d, s) \/ EndOfFile(d, s)

Daemon(d) ==
  \/ Fork(d) \/ Detach(d) \/ Exits(d) \/ Kill(d) \/ ChildExits(d)
  \/ \E s \in Streams : Write(d, s)

Steps(d) == Supervise(d) \/ Daemon(d) \/ \E s \in Streams : Scan(d, s)

Next == Cancel \/ \E d \in Daemons : Steps(d)

Spec == Init /\ [][Next]_vars

TypeOK ==
  /\ pc \in [Daemons -> {"launch", "running", "reaping", "waiting", "returned"}]
  /\ backoff \in [Daemons -> MinBackoff..MaxBackoff]
  /\ streak \in [Daemons -> Nat]
  /\ alive \in [Daemons -> BOOLEAN]
  /\ writers \in [Daemons -> SUBSET {"daemon", "child"}]
  /\ pipe \in [Daemons -> [Streams -> 0..PipeSize]]
  /\ reader \in [Daemons -> [Streams -> {"scan", "drain", "eof"}]]
  /\ cancelled \in BOOLEAN

-----------------------------------------------------------------------------
(* Properties *)

(* supervise is at the point of starting a daemon, or done with it, only   *)
(* when the instance before is gone and nobody can still write to its      *)
(* pipes: two instances never run at once, and none outlives Run.          *)
OneInstance == \A d \in Daemons :
  pc[d] \in {"launch", "waiting", "returned"} => ~alive[d] /\ writers[d] = {}

(* The wait before a restart starts at the minimum after a stable run and  *)
(* doubles with every restart since, up to the maximum.                    *)
WaitFollowsStreak == \A d \in Daemons :
  At(d, "waiting") => backoff[d] = Least(MinBackoff * 2^streak[d], MaxBackoff)

(* A daemon runs and is not stuck in a write, or is being started, again   *)
(* and again until tsv-vpn stops: no exit, failed start or line of output  *)
(* leaves it stopped or blocked for good.                                  *)
KeepsServing == \A d \in Daemons :
  []<>(cancelled \/ At(d, "launch") \/ (alive[d] /\ ~Blocked(d)))
=============================================================================
