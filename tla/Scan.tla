--------------------------------- MODULE Scan ---------------------------------
(***************************************************************************)
(* One subnet scan of tsv-vpn: the job behind the web UI's polling         *)
(* fragment (internal/web/scan.go) and the sweep it runs                   *)
(* (internal/discover/sweep.go).                                           *)
(*                                                                         *)
(* A feeder hands hosts to workers over an unbuffered channel; a worker    *)
(* pings its host and hands an answer over a second unbuffered channel to  *)
(* the drainer, which appends it to the job.  The context of the sweep     *)
(* and the job itself live for scanRetention.                              *)
(***************************************************************************)
EXTENDS Integers, Sequences

CONSTANTS
  Width,         \* bits of an address
  MaxSweepBits,  \* the shortest prefix that is swept
  Workers,       \* Sweeper.Workers
  None

ASSUME ScanAssumption ==
  /\ Width \in Nat /\ MaxSweepBits \in 0..Width /\ Workers \in Nat \ {0}
  /\ None \notin Int

Addresses == 0..(2^Width - 1)

VARIABLES
  prefix,   \* job.Prefix
  feeder,   \* Sweep: "called", "feeding", "waiting" (for the workers), "returned"
  unfed,    \* hosts not handed to a worker yet
  worker,   \* what each worker does, and with which host
  answered, \* history: hosts whose ping was answered
  silent,   \* history: hosts whose ping was not answered in time
  drainer,  \* what the drainer does, and with which result
  results,  \* job.results
  done,     \* job.done
  err,      \* what Sweep returned: job.err, once done
  retired,  \* scanRetention has passed since job.StartedAt
  expired,  \* scanRetention has passed for the context, created after that
  page      \* the request that asks for the job's fragment, and what it showed

vars == <<prefix, feeder, unfed, worker, answered, silent, drainer, results, done,
          err, retired, expired, page>>

pings == <<answered, silent>>
clock == <<retired, expired>>
job   == <<prefix, results, done>>

-----------------------------------------------------------------------------
(* Hosts, and what it uses of netip.Prefix and netip.Addr *)

Size(p) == 2^(Width - p.bits)

Masked(p) == [p EXCEPT !.addr = @ - (@ % Size(p))]

(* There is no address after the last one, and no prefix contains it. *)
Successor(a) == IF a + 1 \in Addresses THEN a + 1 ELSE None

Contains(p, a) == a # None /\ a \div Size(p) = p.addr \div Size(p)

(* Network and broadcast address, unless there is nothing between them. *)
Trimmed(p, hosts) ==
  IF p.bits <= Width - 2 THEN SubSeq(hosts, 2, Len(hosts) - 1) ELSE hosts

Hosts(p) ==
  LET from[a \in Addresses \cup {None}] ==
        IF Contains(p, a) THEN <<a>> \o from[Successor(a)] ELSE <<>>
  IN  Trimmed(p, from[Masked(p).addr])

(* ParseSubnet and Hosts return no error. *)
Sweepable == {p \in [addr: Addresses, bits: MaxSweepBits..Width] : p = Masked(p)}

-----------------------------------------------------------------------------
(* startScan *)

(* A request holds the job; stale: its time was over when it was looked up. *)
Got(stale) == [pc |-> "got", stale |-> stale]
Asking == [pc |-> "asking"]
Gone == [pc |-> "gone"]

Idle == [pc |-> "idle", host |-> None]
Receiving == [pc |-> "receive", host |-> None]

Init ==
  /\ prefix \in Sweepable
  /\ feeder = "called" /\ unfed = <<>> /\ worker = <<>>
  /\ answered = {} /\ silent = {}
  /\ drainer = Receiving /\ results = {} /\ done = FALSE /\ err = FALSE
  /\ retired = FALSE /\ expired = FALSE /\ page = Got(FALSE)

-----------------------------------------------------------------------------
(* Sweep *)

(* The interface of a tunnel that has gone down has no address. *)
NoAddress ==
  /\ feeder = "called" /\ feeder' = "returned" /\ err' = TRUE
  /\ UNCHANGED <<unfed, worker, pings, drainer, job, clock, page>>

Least(m, n) == IF m <= n THEN m ELSE n

StartWorkers ==
  /\ feeder = "called" /\ feeder' = "feeding"
  /\ unfed' = Hosts(prefix)
  /\ worker' = [w \in 1..Least(Workers, Len(unfed')) |-> Idle]
  /\ UNCHANGED <<pings, drainer, job, err, clock, page>>

(* queue <- host *)
Feed(w) ==
  /\ feeder = "feeding" /\ worker[w].pc = "idle" /\ unfed # <<>>
  /\ worker' = [worker EXCEPT ![w] = [pc |-> "ping", host |-> Head(unfed)]]
  /\ unfed' = Tail(unfed)
  /\ UNCHANGED <<feeder, pings, drainer, job, err, clock, page>>

(* Mutant: handing out a host does not watch the context. *)
CloseQueue_NotExpired ==
  /\ feeder = "feeding" /\ unfed = <<>>
  /\ feeder' = "waiting" /\ err' = err
  /\ UNCHANGED <<unfed, worker, pings, drainer, job, clock, page>>

(* close(queue): all hosts are fed, or the context ended before. *)
CloseQueue ==
  /\ feeder = "feeding" /\ (unfed = <<>> \/ expired)
  /\ feeder' = "waiting" /\ err' = (unfed # <<>>)
  /\ UNCHANGED <<unfed, worker, pings, drainer, job, clock, page>>

WorkerStops(w) ==
  /\ feeder = "waiting" /\ worker[w].pc = "idle"
  /\ worker' = [worker EXCEPT ![w].pc = "returned"]
  /\ UNCHANGED <<feeder, unfed, pings, drainer, job, err, clock, page>>

(* A ping whose context has ended fails; Lookup comes before the send. *)
Ping(w) ==
  LET h == worker[w].host IN
  /\ worker[w].pc = "ping"
  /\ \/ /\ ~expired
        /\ answered' = answered \cup {h} /\ silent' = silent
        /\ worker' = [worker EXCEPT ![w].pc = "send"]
     \/ /\ silent' = (IF expired THEN silent ELSE silent \cup {h})
        /\ answered' = answered
        /\ worker' = [worker EXCEPT ![w] = Idle]
  /\ UNCHANGED <<feeder, unfed, drainer, job, err, clock, page>>

(* Mutant: the worker's next host overwrites the result it sends. *)
Send_Overwritten(w) ==
  /\ worker[w].pc = "send" /\ drainer = Receiving
  /\ worker' = [worker EXCEPT ![w] = Idle]
  /\ drainer' = [pc |-> "append", host |-> worker'[w].host]
  /\ UNCHANGED <<feeder, unfed, answered, silent, job, err, clock, page>>

(* results <- result, when the drainer receives. *)
Send(w) ==
  /\ worker[w].pc = "send" /\ drainer = Receiving
  /\ drainer' = [pc |-> "append", host |-> worker[w].host]
  /\ worker' = [worker EXCEPT ![w] = Idle]
  /\ UNCHANGED <<feeder, unfed, answered, silent, job, err, clock, page>>

(* The select of the send sees the context end: the worker returns. *)
GiveUp(w) ==
  /\ worker[w].pc = "send" /\ expired
  /\ worker' = [worker EXCEPT ![w].pc = "returned"]
  /\ UNCHANGED <<feeder, unfed, pings, drainer, job, err, clock, page>>

(* group.Wait, and then close(results). *)
SweepReturns ==
  /\ feeder = "waiting" /\ \A w \in DOMAIN worker : worker[w].pc = "returned"
  /\ feeder' = "returned"
  /\ UNCHANGED <<unfed, worker, pings, drainer, job, err, clock, page>>

-----------------------------------------------------------------------------
(* runScan *)

Landed ==
  /\ drainer.pc = "append"
  /\ results' = results \cup {drainer.host}
  /\ drainer' = Receiving
  /\ UNCHANGED <<feeder, unfed, worker, pings, prefix, done, err, clock, page>>

Drained ==
  /\ drainer = Receiving /\ feeder = "returned"
  /\ drainer' = [drainer EXCEPT !.pc = "drained"]
  /\ UNCHANGED <<feeder, unfed, worker, answered, silent, job, err, clock, page>>

(* Mutant: done does not wait for the drainer. *)
Finish_NoDrain ==
  /\ feeder = "returned" /\ ~done
  /\ done' = TRUE
  /\ UNCHANGED <<feeder, unfed, worker, pings, drainer, prefix, results, err, clock, page>>

(* <-drained, and the last critical section. *)
Finish ==
  /\ feeder = "returned" /\ drainer.pc = "drained" /\ ~done
  /\ done' = TRUE
  /\ UNCHANGED <<feeder, unfed, worker, pings, drainer, prefix, results, err, clock, page>>

-----------------------------------------------------------------------------
(* scanStatus *)

(* scans.get: a job past its retention is not shown any more. *)
Get ==
  /\ page = Asking
  /\ page' = IF retired THEN Gone ELSE Got(expired)
  /\ UNCHANGED <<feeder, unfed, worker, pings, drainer, job, err, clock>>

(* view, under the job's own lock.  A page of a running scan asks again;   *)
(* late: the time of the sweep ended since the job was looked up.          *)
View ==
  /\ page.pc = "got"
  /\ page' = IF done THEN [pc |-> "shown", results |-> results, err |-> err,
                           late |-> expired /\ ~page.stale]
             ELSE Asking
  /\ UNCHANGED <<feeder, unfed, worker, pings, drainer, job, err, clock>>

-----------------------------------------------------------------------------
(* Time *)

Retire ==
  /\ ~retired /\ retired' = TRUE
  /\ UNCHANGED <<feeder, unfed, worker, pings, drainer, job, err, expired, page>>

Expire ==
  /\ retired /\ ~expired /\ expired' = TRUE
  /\ UNCHANGED <<feeder, unfed, worker, pings, drainer, job, err, retired, page>>

-----------------------------------------------------------------------------
(* The specification *)

Work(w) == Feed(w) \/ WorkerStops(w) \/ Ping(w) \/ Send(w) \/ GiveUp(w)
RunScan == Landed \/ Drained \/ Finish

Next ==
  \/ \E w \in DOMAIN worker : Work(w)
  \/ NoAddress \/ StartWorkers \/ CloseQueue \/ SweepReturns \/ RunScan \/ Get \/ View
  \/ Retire \/ Expire

Spec == Init /\ [][Next]_vars

(* The goroutines run, and a ping has a deadline. *)
FairSpec ==
  /\ Spec /\ WF_vars(StartWorkers) /\ WF_vars(CloseQueue) /\ WF_vars(SweepReturns)
  /\ WF_vars(RunScan)
  /\ \A w \in 1..Workers : WF_vars(w \in DOMAIN worker /\ Work(w))

TypeOK ==
  /\ prefix \in Sweepable
  /\ feeder \in {"called", "feeding", "waiting", "returned"}
  /\ unfed \in Seq(Addresses)
  /\ DOMAIN worker \subseteq 1..Workers
  /\ \A w \in DOMAIN worker :
       worker[w] \in [pc: {"idle", "ping", "send", "returned"},
                     host: {None} \cup Addresses]
  /\ answered \subseteq Addresses /\ silent \subseteq Addresses
  /\ drainer \in [pc: {"receive", "append", "drained"}, host: {None} \cup Addresses]
  /\ results \subseteq Addresses
  /\ {done, err, retired, expired} \subseteq BOOLEAN
  /\ page \in {Asking, Gone} \cup {Got(stale) : stale \in BOOLEAN}
              \cup [pc: {"shown"}, results: SUBSET Addresses, err: BOOLEAN, late: BOOLEAN]

-----------------------------------------------------------------------------
(* Properties *)

(* The addresses a host of the subnet may have, by their numbers. *)
Usable ==
  LET last == prefix.addr + Size(prefix) - 1
  IN  IF Size(prefix) >= 4 THEN (prefix.addr + 1)..(last - 1) ELSE prefix.addr..last

(* A page that shows a finished scan without an error shows every host     *)
(* that answered, and every address a host of the subnet may have was      *)
(* tried and no other, also in a subnet of one or two addresses and in the *)
(* last one there is: the fragment stops polling there, so what is missing *)
(* would stay missing.  The job's retention is checked when it is looked   *)
(* up (scan.go:217-226), and the job is read after that, under another     *)
(* lock: a page whose request saw the sweep's context end in between is    *)
(* the exception, since pings that failed then are no error.               *)
FinishedScanIsWhole ==
  page.pc = "shown" /\ ~page.err /\ ~page.late =>
    page.results = answered /\ answered \cup silent = Usable

(* A scan always finishes, even if its time runs out while every worker    *)
(* holds a result: no goroutine is left waiting for another.               *)
Finishes == <>(done /\ \A w \in DOMAIN worker : worker[w].pc = "returned")
=============================================================================
