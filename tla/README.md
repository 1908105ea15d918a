# A TLA+ verification of tsv-vpn

tsv-vpn is one container: tailscaled, charon (strongSwan), xl2tpd and a Go
program that supervises them. An operator describes L2TP/IPsec connections in a
web UI; a reconciler renders the daemons' configurations, dials, and advertises
the remote subnets to the tailnet. This directory holds the specifications of
that program, the TLC runs that check them on small instances, and proofs, for
every value of the constants, of every safety property the runs check.

Paths are relative to the repository; `reconcile.go` is
`internal/tunnel/reconcile.go`.

## 1. The system

| Part | State it keeps | Operations | What is hard |
|---|---|---|---|
| Tunnel manager (`internal/tunnel`) | `tunnels` (phase, interface, subnets, timers of each connection), `rendered` (fingerprints), `advertised` | `Reconcile` (one goroutine), `PPPUp`/`PPPDown` (goroutines of the hook listener), `Unhealthy` (health checker), `Invalidate` (supervisor), `Nudge` | every call releases the lock around external commands and works on with what it read before; hooks race the pass, each other and the daemons' restarts |
| Rendered files (`render.go`) | swanctl.conf, xl2tpd.conf, chap-secrets, peers | `Write` | replaced one by one; read by a daemon only when it starts or is told to load |
| Connection store (`internal/db`) | connections, local subnets, status rows | creation, edit, switch, deletion, `SetStatus`, `RecordCheck` | checks and writes are separate statements over a pool of one SQLite connection; ids are used again |
| Supervisor (`internal/supervise`) | backoff and process of each daemon | `supervise`, `start`, `scan` | pipes that fill, children that hold them open, exits at any time, shutdown |
| Health checker (`internal/health`) | failure counts by name | ticker, check button | the ping is outside the lock; two goroutines check the same connection; names are used again |
| Subnet scan (`internal/discover/sweep.go`, `internal/web/scan.go`) | one job: results, done, error | feeder, workers, drainer, polling page | two unbuffered channels and a context that may end anywhere |
| Tailnet (`internal/tailnet`, `web/tailnet.go`) | what tailscaled was told | `SetRoutes`, login, exit node, `joinTailnet` | joining and advertising concurrently |
| Sessions and throttle (`web/auth.go`, `credentials.go`, `setup.go`, `password.go`) | password hash, tokens, attempts per address | login, logout, setup, password change, `reset-password` | throttle, comparison, change and revocation are separate critical sections |
| Process (`cmd/tsv-vpn/main.go`, `internal/db/db.go`) | schema version, hook listener, scripts, web server | start, migrate, signal, shutdown | killed anywhere and started again; a second process on the same file; who must outlive whom |
| Log ring and log files (`internal/logbuf`, `internal/logging`) | last lines per connection; one file a day | add, roll, prune | bounded sizes, day boundary |
| Discovery, crypto, changelog, pages | the hops a probe found, kept for ten minutes (`web/subnets.go:186-202`) | reads | the cached hops only fill a list of suggestions |

How they interact: the UI writes SQLite and calls `Nudge`; the reconciler reads
SQLite, runs `swanctl`, `xl2tpd-control`, `ip` and `iptables` and writes status
rows; pppd's `ip-up` and `ip-down` scripts call back over HTTP with five seconds
of patience; the supervisor's line "started" of charon or xl2tpd calls
`Invalidate`; the checker reads `Status` and calls `Unhealthy`.

What makes each part correct:

- *manager*: an enabled connection is up or on its way, whatever failed before;
  a disabled one loses its session, its routes and its rules; what is dialled is
  what the database says; a tunnel called up has a pppd.
- *store*: no two routed subnets overlap, unless two forms were posted at once;
  an edit is stored whole or not at all;
  a status row is about its own connection; every request is answered.
- *supervisor*: one instance at a time, kept running, restarted at the backoff
  the code documents, stopped with the program.
- *checker*: a dead tunnel is torn down, and only for failures in a row.
- *scan*: a finished scan has tried every address of the subnet and shows
  everything that answered, and it finishes.
- *access*: guesses are bounded, a lock ends, and a changed password ends the
  sessions of the old one.
- *process*: the schema is what its version says; daemons find their files and
  their listener; a signal ends everything; log files are kept as long as said.

`PROJECT.json` lists every component with what is left out of it, and every
hazard with the properties that watch it.

## 2. Modules

| Module | What it is |
|---|---|
| `Redial` | abstract: what the manager promises about redialling |
| `Manager` | the tunnel manager and what surrounds it; implements `Redial!Safety` |
| `MCManager` | its instances: budgets of faults, a start after boot, symmetry |
| `Schedule` | Run's loop, timer and nudges, dial timeouts and backoffs, with a clock; implements `Redial!Spec` |
| `Store`, `MCStore` | the connection store, and an instance with nested subnets |
| `Supervisor` | the daemon supervisor |
| `Process` | main and start, migrations, log files; runs `Supervisor` (`S == INSTANCE Supervisor`) |
| `Scan` | one subnet scan |
| `Checker` | the health checker |
| `Tailnet` | what tailscaled is told, and by whom |
| `Access` | password, sessions and login throttle |
| `ManagerProofs`, `ScheduleProofs`, `StoreProofs`, `ProcessProofs`, `ScanProofs`, `CheckerProofs`, `TailnetProofs`, `AccessProofs` | the theorems about each (section 5); `ProcessProofs` has those about `Supervisor` |

### Redial, and the two modules that implement it

`Redial` has for each connection a phase and `wait` (its dial timeout, when it is
connecting, or its backoff, when it is down, still runs), and what the reconciler
is doing to which connection (`busy`). Its safety: the reconciler takes up one
connection at a time, only one whose wait is over, and ends it in a phase with a
new wait; hooks, checks and edits change phases at any time. Its liveness: what
is taken up is finished, and no connection stays without a wait, down and
unattended for good.

`Manager` implements the safety part (`ImplementsRedial == R!Safety`) with all
its goroutines: `PhaseOf` and `WaitOf` read the tunnel in the map, a name that is
not in it counts as disconnected without a wait, and `InHand` reads the
reconciler's frame. `Schedule` implements all of it (`R!Spec`) with a clock: a
deadline has a number of ticks left, and `Waits` says whether it is positive.
Together they say that the flag `wait` of `Manager`, which runs out at any time,
stands for the deadlines of the code.

### Manager

*Steps.* An action is the code between two points where another goroutine or
process can be seen: one critical section of `Manager.mu`, one external command,
one read of the database. Each call in progress is a frame `frame[p]`: which
function process `p` is in (`op`), where it is (`pc`), and what it read before it
let go of the lock (`name`, `iface`, `subnets`). Processes are the reconciler,
the checks that trip (`Checks`: the ticker's, or one of the check button, whose
browser may go away, `Leave`) and the goroutines of the hook listener.

*The `*state` pointer.* `fail`, `PPPUp`, `PPPDown`, `dial` and `dialFailed` write
through a pointer they looked up earlier, and `staleTunnels` takes objects out of
the map while they hold it. The field `obj` says where the object is: in the map
(`tunnels`), taken out but not yet read by `disconnect` (`stale`), or where
nobody will look again (`gone`). `Put` writes accordingly.

*The pass.* `rpc` walks through `Reconcile`: `StartPass` (ListConnections and
staleTunnels), `Disconnect` for each stale object, `Render` (desiredTunnels and
the early return of writeConfigs), `WriteFiles`, `LoadAll`, `Commit`, `Drop` with
`ControlRemove` and `ControlAdd` for each changed tunnel, `Step` for each
enabled one, `Advertise`. An error of `writeConfigs` ends the pass where it is.

*Calls.* `PPPUp`: `AddRoutes`, `EnableNAT`, `Came`, `SetStatus`; an error goes on
in `fail` (`Unwind`). `PPPDown`: `RemoveRoutes`, `DisableNAT`, `Went`,
`SetStatus`. `Unhealthy` and a timed out dial: `Fail`, tear-down, `Failed`,
`SetStatus`. `dial`: `ControlDisconnect`, `Initiate`, `ControlConnect`,
`Connecting` or `DialFailed`, `SetStatus`. A frame whose request was given up
(`live = FALSE`) can still read and write memory and SQLite, but each further
command fails.

*Surroundings.* charon has what it loaded and its IKE_SAs; xl2tpd its LACs and
the call of each; pppd an interface from before `ip-up` until `ip-down`; the
kernel routes (which vanish with their device) and iptables rules (which do
not). Both daemons forget everything when they exit; xl2tpd reads the file when
it starts. A call gets through only inside an SA. Every fault has a kind, and
`Budget[k]` bounds how often kind `k` happens, `Budget["any"]` how many faults
there are in all; `spent` counts.

*Abstracted.* A connection's row and secrets are one value of `Configs`, read in
two steps as in `desiredTunnels`. DNS is one flag for all names. The dial timeout
and the backoff are one flag `wait`. The commands for the subnets of one call
are one step that fails part-way; so are the two rules of `natRules`. Local
subnets are left out of `AdvertisedRoutes`. A rename is a disable of one name
and an enable of another. All status rows start as disconnected. `PPPDown` is
always given an interface, as pppd always gives one. A `Nudge` and the wait of
Run are in `Schedule`; here the pass repeats for ever.

### Schedule

Time is discrete and every deadline is what is left of it, so the clock needs no
bound. `Wake`, `Start`, `Step`, `StepEnds` and `PassEnds` are a turn of Run and
its pass, `StartFails` a pass that ends in `writeConfigs` or before it; a pass
takes up to `PassTime`, with ticks between its steps. `Nudge` is the send to the
channel of capacity one. An edit is stored (`Edit`) before its handler nudges
(`Tell`). A goroutine that can go on does so before the next tick (`MayTick`):
the properties are about deadlines the code sets, not about the scheduler. What
they show of the code: a backoff that runs when Run goes to sleep is taken up on
time, but a dial timeout, a backoff that ran out behind `step` in the same pass,
and one set by a failing `PPPUp`, which does not nudge, wait for the slow tick.
`idle`, `pending` and `missed` are the history of one connection: how long it has
been due, whether Run slept for its backoff, and how many passes failed
(`StartFails`) since it was due. A failed pass leaves it due, so the bound of
`NothingLingers` grows with each by a retry tick and a pass.

### Store

An action is one SQL statement; the pool has one connection, so statements never
overlap and a transaction keeps the others out (`holder`). `Lookup`, `ReadConns`
and `ReadLocals` are the reads of UpdateConnection and checkRouteConflicts,
`Insert` and `InsertLocal` the creations, `Update`, `SetPSK`, `SetPassword` and
`Commit` the transaction of an edit, each of which may fail and roll back. A
secret is the number of the form it came with, and `due` remembers which form it
ought to be from. `Learn` and `SetStatus` are a status write: the manager reads a
connection and writes to its id some time later, if a connection has it.
`NextId` is SQLite's choice for an INTEGER PRIMARY KEY, one above the largest in
use. `unseen[r]` is history: the subnets that other requests stored since `r` read
the table they went to. With it `OnlyRacesOverlap` says of every store what
CheckOverlap is worth: what it could see does not overlap, and an overlap is
always with something that came after it read. Fields that are validated alone
(names, hosts, addresses) and health check addresses are left out.

### Supervisor

One `pc` per daemon for `supervise` and `start`, one `reader` per output pipe for
`scan`. The daemon may write, close its output and go on, fork a child that holds
the pipes, or exit; a full pipe blocks it. After the context ends it gets SIGTERM
and, ten seconds later, SIGKILL: `Kill`. The log lines the supervisor adds itself
are left out, but for the "started" lines, which `Manager` has as `owed`.

### Process

`main` says how far `start` has come, `opener` how far `db.Open` is in `start` and
in `reset-password`, which "docker compose exec" runs beside it. The version is
read outside a transaction (`ReadVersion`); each migration is a transaction of its
own (`Apply`, `Commit`) that takes the write lock with its first statement and
fails on a database that has had it. `Killed` may happen anywhere: memory is gone,
SQLite has rolled back, children and sockets are gone, files stay. `Boot` starts
any version. The supervisor is `S`, an instance of `Supervisor` over variables of
`Process`; its daemons run from `Prerender`, which stands for the rest of `start`
up to the goroutines, until the process ends. The log's days are counted back
from today, so that time has no bound; a clock in UTC and a retention of whole
days are assumed (`prune` compares a local date with a UTC one).

### Scan

A scan is of any prefix startScan accepts, over addresses of `Width` bits.
`Hosts` is the loop of the code, with `Successor` undefined after the last
address as netip.Addr.Next is; `Usable` is the reference it is compared with, by
numbers. `feeder` is Sweep's loop, `worker[w]` its goroutines, `drainer` the goroutine of
runScan. A send over an unbuffered channel is one action of both sides. The job's
retention starts before the context's, so `retired` precedes `expired`. `page` is
one request of the polling page: `Get` looks the job up and checks its retention
under one lock, `View` reads it later under another (scan.go:102-107). The sweep's
time may run out in between, which `page.late` remembers.

### Checker

`call[c]` is one run of `Check`, by the ticker (`Loop`) or the check button.
`row`, `earned`, `mixed` and `inherited` are history: the failed pings of the
connection since its last answer; the names for which a row of `FailureLimit` has
been seen since the last trip; those whose count two checks at once have worked
on; and those that were deleted, with a count or a check under way or due, and may have
handed it to a new connection of the name (`Delete`, `Create`). The first two
start over with a new connection. What `RecordCheck` stores and `CheckSubnet`, which
escalates nothing, are left out.

### Access

`request[b]` is the request of browser `b`: the throttle's check (`Login`,
`ChangePassword`), the comparison (`Matches`), the throttle's count
(`loginFailed`, `loginSucceeded`), the settings table (`Set`), `RevokeAll` and
`Grant` are a step each, as each takes its lock alone. A password is only told
apart from the ones before it (`changes`), and `since` of a request or a session
says which one it goes by. Sessions expire at any time. All browsers share one
address: the throttle never relates two. What the module shows of the code: a
setting that cannot be read counts as no password, so `Setup` is open for that
request; of two setups at once both succeed and the last one wins, though
setup.go:17 says the first does; sessions survive `reset-password` and the setup
after it. `SessionsFollowPassword` names the cases it leaves out.

### Tailnet

Three kinds of callers tell tailscaled its prefs: the reconciler (`advertise`),
`joinTailnet`, which runs once after the start, and the login and exit node
buttons of the tailnet page. Each reads the database query by query
(`ReadRemote`, `ReadLocal`, `ReadExit`) and runs one tailscale command later
(`SetRoutes`, `Up`, `SetExitNode`). "tailscale up" hands its prefs over when it
starts and then waits for the login, for ever if it has no key. tailscaled keeps
its prefs over restarts, so the initial ones are what an earlier life of the
container left. `bypassed`, `missed` and `overtaken` are history: tailscaled was
told other routes than the reconciler told it last; an exit node could not be
told and no login has run since; the exit node last told was no longer the
stored one. In `Manager` the advertised set is a variable that nobody else
writes; here the others are.

## 3. Runs

Passing runs:

| Run | Question | Size of the instance |
|---|---|---|
| `sessions` | Does a session ever escape the manager; is "up" ever said without a pppd; are the rules of a session left that was given up for another; does every change of a phase keep to `Redial`? | two interfaces, two hooks, one check; any two of an enable, a disable, a timer that fires early, a check that trips, a browser that leaves it |
| `configs` | Is every state well typed from the start of the daemons on; is an older configuration ever dialled; is the early return right? | two connections, two configurations; any three of an edit, a disable, an xl2tpd restart, a failed control command, a failed advertisement, a failing resolver |
| `outages` | Does a connection always come back, and does a disabled one end? | one connection and interface; any two of: charon exits, xl2tpd exits, a load, an initiate or an ip or iptables command fails, a link is lost, a hook is given up late, a disable |
| `schedule` | Is an edit, a backoff or a timeout ever slept over? Do the deadlines implement `Redial`? | two connections; slow tick 3, retry tick 2, the second of `nextRetry` 2, dial timeout 4, backoff 2 and 4, passes of up to one unit; the history of one connection, with one failed pass while it is due |
| `edits` | Do stored subnets overlap only by a race, are edits whole, and is every request answered? | two requests at once, one subnet they compete for, two names, two forms besides those for local subnets, one status write |
| `process` | Does the process come up whole, keep its daemons, and end, however often it is killed? | one daemon (they share nothing but the context), backoff 1 to 30 s as in the code, pipes of one line; two versions, a retention of one day |
| `scan` | Is a finished scan that a page shows whole, and does it finish? | all prefixes from /1 to /4 of four-bit addresses (one to six hosts), two workers, one page |
| `tailnet` | Does tailscaled end up with the stored routes, and does a login replay the exit node? | one remote and one local subnet, one request besides joinTailnet and the reconciler, two changes, one failure or restart |
| `button` | Is a tunnel torn down only for failures in a row, and a dead one noticed although the button interferes? | one name, the ticker and one button, limit 3 as in the code, five changes of the tunnel |
| `access` | How many guesses does the throttle let through, does a lock end, and whose session survives a password? | two browsers, two failures, window and lockout of two ticks, three changes of the password, one failed read |

Why the bounds are enough: a race of the manager needs two calls about the same
connection, or one call and the pass, and, for stale interfaces, a second
interface; two hooks and two interfaces give each of them. A fault of a kind
happens once, in every place, up to the total the run allows. Two connections are
needed only where the pass compares maps (`configs`) or one timer serves all
(`schedule`, where the second one sets it too early or too late for the first).
A run without interfaces (`Ifaces = {}`) asks only about files, charon and LACs,
and has no hooks; where no check trips (`configs`, `outages`) `Checks` is empty. In
`sessions` interfaces and hooks are symmetric: no action or property names one of
them, and the run checks no liveness (`R!Safety` has none). In `schedule` the
numbers keep the order of the code's (retry 5 s, first backoff 10 s, tick 30 s,
dial timeout 60 s, longest backoff 5 min) as far as they differ: the first
backoff is shorter than the slow tick and the second is longer, and so is a dial.
The backoff doubles once; that is both the most it may be shifted and its cap,
and that it never passes the cap for other numbers is `TypeCorrect`'s. In `edits`
one subnet is enough for a race, since every two owners of it overlap; two
connections and a connection against a local subnet both meet in it, and a
disabled owner counts like another. Subnets of different length are in `overlap`, and any
overlapping at all in the theorem. Two failures in a
window of two ticks are the smallest throttle whose window, lock and count
differ, and `GuessesAreBounded` is tight there. In `process` two versions give an
upgrade, a downgrade that is refused and a kill between the two migrations.

Violation runs, each a disagreement of the code with its own documentation (see
`findings`):

| Run | Property | What happens |
|---|---|---|
| `restart` | `Recovers` | charon restarted just before the fingerprints are committed stays empty |
| `overlap` | `RoutesDisjoint` | two forms posted at once store overlapping subnets |

Some properties begin with the faults under which the code does not keep them.
What the model shows without those conditions, and other behaviour met while
modelling:

- `NoLeakedRules`, a disable: `disconnect` reads a stale object before the
  `PPPUp` that holds it writes the interface; `PPPDown` then finds no tunnel
  (reconcile.go:459-463) and the rules of that interface stay.
- `DialsWhatItWants`, a failed load: the files are written before
  `swanctl --load-all`, so an edit that failed to load and was taken back stays
  in them while the fingerprints match (reconcile.go:238-256).
- `Recovers`, a failed control command: a LAC whose `Control.Add` failed is not
  pushed again until its fingerprint changes (reconcile.go:165-168).
- the status row is written after the lock is released, so `dial`'s "connecting"
  may replace the "up" that `PPPUp` of a fast gateway has written, addresses and
  all (reconcile.go:342-346, 438-454). No property is stated about the rows.
- `RoutesConverge`, its exception: a login tells tailscaled the routes it read,
  and `m.advertised`, which is empty at the start, knows nothing of it. If the
  stored routes are then again what `m.advertised` says, `advertise` returns
  early and tailscaled keeps the others until the next change
  (reconcile.go:513-518).
- `UpIsBacked`, a hook given up: `PPPUp` may write "up" after the `PPPDown` of
  its session.
- `TripIsEarned`, the button and the ticker at once: a failed ping may be counted
  after a later answer has reset the count (check.go:121-132).
- `TripIsEarned`, a name used again between two ticks: the comment of `prune` says
  "so a reused name does not inherit them" (check.go:158), but `prune` runs once
  per tick and looks at names. A connection that is deleted and created again in
  between has its predecessor's failures, and is torn down on them.
- `FinishedScanIsWhole`, the sweep's time running out between `get` and `view`:
  the page is given the job after its retention was checked, the last pings fail
  with the context, `Sweep` returns no error, and the page says the scan is done
  (scan.go:102-107, 174-226).
- `SessionsFollowPassword`, its exceptions: two `Setup` requests at once both
  succeed and the last one wins, although setup.go:17 says "First request to set a
  password wins"; a login that was compared with the old password is granted its
  session after `RevokeAll`, although password.go:15 says "Changing the password
  drops every other session".
- after `Invalidate` has emptied the fingerprints, disabling the last connection
  leaves its files on disk: both sides of the early return are empty
  (reconcile.go:238-242).
- an id is given out again after the connection with the largest one is deleted,
  so a late status write may land in its successor's row (status.go:55-74).
- `dial` may write "connecting" over the "up" of a `PPPUp` that was quicker
  (reconcile.go:342-346): the working tunnel is torn down as timed out later.
  `Recovers` does not exclude it, as the tunnel was up for a moment.

Deadlock checking is off where the system really stops: `Scan` when done, `Store`
when the forms of the bound are used up.

## 4. Fairness

- `Manager`: the reconciler's loop has no exit; every command has a deadline
  (`run.go`: 30 s unless said otherwise), so a frame moves on; the supervisor
  restarts what exits and reports it; timers fire; pppd runs its scripts; a call
  inside an SA gets through; a session without its SA or its call dies. Nothing
  is assumed of faults, edits, health checks or new links beyond that. A timer
  fires before the event it outlasts only as the fault `slow`: 10 s of backoff
  against 5 s of curl, 60 s of dialling against the negotiation, 1 s of the
  supervisor's backoff against one step of the manager.
- `Store`: strong fairness of each request's statements: `database/sql` serves
  waiting requests in order, and every transaction ends.
- `Schedule`: Run is scheduled, handlers return, time goes on, and (strong
  fairness of `Start`) the store and charon do not fail every pass: a pass that
  fails for ever takes nothing up, and nothing in the code could change that.
- `Process`: start goes on, reset-password ends; of the supervisor: the
  goroutines run; WaitDelay ends in SIGKILL. That a child which
  holds the pipes of a dead daemon ends at some time is an assumption: the code
  has no deadline for it.
- `Scan`: the goroutines run; a ping has a deadline of its own.
- `Tailnet`: the reconciler passes again and again, queries and commands end,
  tailscaled is restarted. Nothing makes a login return: that is why `main` does
  not put the reconciler behind it.
- `Checker`: the ticker ticks, pings have a deadline, the manager reconciles.
- `Access` states safety only.

## 5. Proofs

Every theorem is about `Spec`, without fairness, and for every value of the
constants its module's assumptions allow. The assumptions are these and no
others; TLC evaluates them in the runs:

- `ConstantsAssumption` (`Manager`): types; `Names` is finite, as the keys of a
  map are. `DistinctAssumption`: `None` and the process names differ from
  everything else.
- `ScheduleAssumption`: the ticks, delays and timeouts are positive, the retry
  tick is not longer than the slow one, the second of `nextRetry` not longer than
  the retry tick, nor the least backoff than the longest.
- `StoreAssumption`, `NoneAssumption`: overlapping is reflexive and symmetric,
  requests are finite, `None` is none of them and no row.
- `ProcessAssumption`: the least backoff is positive and not above the longest,
  a pipe holds something, there is a migration.
- `ScanAssumption`: prefixes up to the width of an address, at least one worker.
- `CheckerAssumption`: the limit is positive, `""` is the name of nothing, names
  and requests are finite.
- `TailnetAssumption`: the bounds are numbers.
- `AccessAssumption`: limit, window and lockout are positive and the window is
  not longer than the lockout (one minute each in auth.go), browsers are finite.

Nearly all of the properties are not inductive. What each proof adds:

**Manager** (`ManagerProofs`).

- `TypeCorrect`: a step through a frame's pointer needs the object to be where
  the frame says, and a command of the reconciler needs its frame to be about a
  connection of this pass. `Inv` adds that: a frame in the map names a tunnel the
  map has; one that is stale names a stale object; the reconciler's frame fits
  `rpc`; `want` and `snap` agree.
- `SkipSound`: from `ChangedTunnels = {}` and equal cardinalities of the two
  finite sets of names, the sets are equal, so the fingerprints are: the
  finiteness of `Names` is what makes the comparison of lengths enough.
- `SessionsManaged`: `SessionInv` adds what `NoUnmanagedSession` leaves out: who
  may have a call in each phase of the pass, and that a pppd that was not hung up
  belongs to the current call of its name.
- `UpBacked`: `ScriptsHold` adds why an interface cannot change hands under a
  hook: `ip-down` of a pppd runs only after its `ip-up` got its answer, so as
  long as no hook outlived its five seconds, a frame in `PPPUp` still has its
  pppd.
- `RulesLast`: `LeakInv` adds that, while nothing is switched off, whatever the
  pass works from is enabled and the tunnel `PPPUp` works on stays in the map, so
  that `PPPDown` finds it, and that rules are owned by a pppd or by a hook
  already past the look-up.
- `DialsWanted`: `RenderInv` says for every point of the pass how much of what it
  wants is in the files, in charon and in xl2tpd. It holds over a restart of
  xl2tpd, which reads the file, and over late reports of a start, which empty the
  fingerprints; what it needs is that no load and no control command failed and
  that charon did not exit.
- `RedialsInTurn`: every step is a step of `Redial` or a stutter. The phase the
  map shows is the one `dial` and `fail` write to only because the reconciler's
  object is in the map all the time (`WorksOnMap`): an object leaves it in the
  first step of a pass, and a pass waits for the call to end.

**Schedule** (`ScheduleProofs`). `TypeCorrect` needs that doubling a backoff no
more than `MaxShift` times and cutting it off stays between its bounds, with
powers of two as cardinalities. `EditInv` (an edit that came too late for this
pass has its nudge), `LingerInv` and `BackoffInv` (how long a connection may have
been due, at every point of the loop, in terms of the timer, of the pass so far
and of the passes that failed since) give `EditsAreNotSleptOver`,
`NothingLingersLong` and `BackoffsWake`. The bound of `BackoffWakes` in the model comes from this proof: a backoff that ends
less than a second before the timer would have to wait for the second `nextRetry`
rounds up to. `ImplementsRedialSafety` is the refinement of `Redial`, action by
action; its fairness stays with TLC.

**Store** (`StoreProofs`). `EditsAreWhole`: `DraftInv` says that a transaction's
draft differs from the table in one row, whose secrets are those that are due but
for the ones still to be written. `StatusIsOwned` holds because the row is
written only if its connection is there in the same statement. `TypeCorrect`
needs `IdsInv`: there is an id left for every form that may still create a row.
`OnlyRacesMakeOverlaps`, for any number of requests: `SeenInv` says that what a
request read of the connections, with what was stored since, covers all of them
but its own, and that past the check its subnets overlap nothing but what it has
not seen; that others only delete or switch leaves this true, and a store of
another is added to `unseen` in the same step. While a transaction holds the
connection nobody else stores. `RoutesDisjoint` itself is false, which is what the
run `overlap` shows.

**Process and Supervisor** (`ProcessProofs`). `DatabaseInv`: the schema has the
migrations its version stands for, a transaction adds the next one, and whoever
migrates has read a version not above the stored one (`SchemaWhole`). `StartInv`
and the supervisor's `PipesClose` (a reader meets the end of its pipe only when
nobody can write to it) give `DaemonsServed` and `OneInstanceAtATime`;
`BackoffIsPower` (the backoff follows the streak all the time) gives
`WaitsFollowStreak`, and `LogInv` `LogKept`. `Supervisor` is proved about as it
is instantiated in `Process`, for any number of daemons.

**Scan** (`ScanProofs`). The list of hosts is a loop over addresses, written as a
recursive function, and is proved for every width and prefix to be the usable
addresses (`HostsAreUsable`). The induction is over a set: one that has 0 and
with every number the next has no least number outside (`SetInduction`). Then
`NoHostIsLost`: until the sweep's time is over, every usable address is waiting,
with a worker, answered or silent, and every answer is in the results, with a
worker or with the drainer; `StagesFollow`: no stage is over before the one that
feeds it. Together they say that a job is whole when it is done without an error
and its time is not over; `PageInv` carries this to the page, which is given a job
that was not retired, and so had time left, when it was looked up
(`FinishedScansAreWhole`).

**Checker** (`CheckerProofs`). `CountInv` (a count passes the limit by no more
than one for each check that is about to reset it) gives `TypeCorrect`; `RowInv`
(a name whose checks did not overlap is checked by one of them, and its count is
that of a row of failures of its own connection, unless a deleted one may have
left it some) gives `TripsAreEarned`.

**Tailnet** (`TailnetProofs`). `LoginsReplayExitNode` from `ExitInv`: while what
tailscaled was told last is not what is stored, the request that stored it is
about to tell.

**Access** (`AccessProofs`). `SessionsFollow`: no token and no request goes by a
password ahead of the current one. `LocksEnd`: a lock is prolonged only by
requests let in before it, `MaxLoginFailures` for each time, so their number pays
for every prolongation (`LockedAgain`). `GuessesBounded`: what the record has
counted and what is about to be counted are all wrong passwords compared since
its window began or the lock was set (`WindowInv`); the window before, if there
was one, had too few for a lock (`WindowsInv`); while the address is locked only
those let in before compare (`LockedInv`). It is in `WindowsInv` that the lockout
must be no shorter than the window. The sum of `wrong` is the number of pairs of
an age and a number up to `wrong[age]` (`WrongCounts`), so that the sums are
compared with injections; that the fold of the library computes this sum is an
induction over the number of ages.

Only model-checked: everything about time (`Recovers`, `DisabledEnds`,
`RequestsEnd`, `RoutesConverge`, `KeepsServing`, `SignalEnds`, `Finishes`,
`NoticesDeadTunnel`, and the liveness of `Redial` in `Schedule`), because
liveness under fairness is out of the prover's reach. The assumptions under which some
properties hold (their fault counters) are part of the properties, in the runs
and in the theorems alike.

## 6. Plan

Done: all modules and their runs; every safety property of a passing run is
a theorem; `Manager` and `Schedule` are proved to implement `Redial!Safety`.

1. *Proofs.* For the exceptions of section 3, the weaker statements that remain
   true after a disable or a failed load.
2. *Breadth.* The log ring and its cached names; coveringPrefixes and the
   candidates of discovery as operators; health check addresses in `Store`.

## 7. Not modelled, and why

Discovery (interfaces, probe, preflight) reads the kernel's tables and sends
probes; the hops it found are cached for ten minutes under a lock of their own and
are only suggested. Crypto, the changelog and the pages keep no state. The text of
the rendered files, logging and layout are left out.
Container, entrypoint and test rig are the environment. A tunnel dropped by a
resolver failure (the address is part of the fingerprint) is in the model, but no
property is stated against it: the code means it.
