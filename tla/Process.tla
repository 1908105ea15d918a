-------------------------------- MODULE Process --------------------------------
(***************************************************************************)
(* The tsv-vpn process from its start to its exit (cmd/tsv-vpn/main.go),   *)
(* with the migration of the database (internal/db/db.go), the daily log   *)
(* file (internal/logging) and the supervised daemons (Supervisor).        *)
(*                                                                         *)
(* The container may be killed at any point and is started again, with the *)
(* same or another version of tsv-vpn; what is in memory is gone then, and *)
(* SQLite has rolled an open transaction back.  reset-password, run in the *)
(* container with "docker compose exec", opens the same database.          *)
(*                                                                         *)
(* The days of the log are counted back from today, so that time has no    *)
(* bound.                                                                  *)
(***************************************************************************)
EXTENDS Naturals

CONSTANTS
  Daemons, MinBackoff, MaxBackoff, PipeSize,  \* as in Supervisor
  MaxVersion,  \* bound: migrations of the newest binary
  Retention,   \* days a log file is kept
  None         \* no transaction, no open file

ASSUME ProcessAssumption ==
  /\ MinBackoff \in Nat \ {0} /\ MaxBackoff \in Nat /\ PipeSize \in Nat \ {0}
  /\ MinBackoff <= MaxBackoff
  /\ MaxVersion \in Nat \ {0} /\ Retention \in Nat
  /\ None \notin Nat

VARIABLES
  main,       \* how far start has come
  known,      \* the migrations of this binary
  opener,     \* how far db.Open is, in start and in reset-password
  schema,     \* the database: its user_version and the migrations it has had
  tx,         \* the transaction that has written, and who began it
  listening,  \* the hook listener is open
  script,     \* ip-up and ip-down call this listener
  rendered,   \* Prerender has written the daemons' files
  web,        \* the web UI answers
  day,        \* dailyWriter.day
  handle,     \* the day of dailyWriter.file, if it is open
  files,      \* the days there are log files of
  logged,     \* history: the days something was logged, up to Retention
  pc, backoff, streak, alive, writers, pipe, reader, cancelled  \* Supervisor's

S == INSTANCE Supervisor

Openers == {"main", "reset"}
Closed == [at |-> "none", version |-> 0]

database == <<opener, schema, tx>>
serving  == <<listening, script, rendered, web>>
log      == <<day, handle, files, logged>>
daemons  == <<pc, backoff, streak, alive, writers, pipe, reader, cancelled>>
vars == <<main, known, database, serving, log, daemons>>

(* Log files older than this are not told apart. *)
Oldest == Retention + 1
Days == 0..Oldest

Init ==
  /\ main = "off"
  /\ known = 1
  /\ opener = [p \in Openers |-> Closed]
  /\ schema = [version |-> 0, applied |-> {}]
  /\ tx = None
  /\ listening = FALSE /\ script = FALSE /\ rendered = FALSE /\ web = FALSE
  /\ day = Oldest /\ handle = None /\ files = {} /\ logged = {}
  /\ S!Init

-----------------------------------------------------------------------------
(* logging *)

(* Files that cannot be listed or deleted stay. *)
pruned(kept) ==
  \E left \in SUBSET (files \ kept) : files' = {0} \cup (files \cap kept) \cup left

(* Mutant: the file of the last day that is kept goes too. *)
prune_OneMore == pruned(0..(Retention - 1))

prune == pruned(0..Retention)

Opens ==
  /\ day' = 0 /\ handle' = 0
  /\ logged' = logged \cup {0}
  /\ prune

(* Mutant: the day is noted before the file is open. *)
OpenFails_NotesDay == day' = 0 /\ handle' = None /\ UNCHANGED <<files, logged>>

(* roll has closed the file of the day before. *)
OpenFails == handle' = None /\ UNCHANGED <<day, files, logged>>

(* A line is logged; without its file it is only on stderr. *)
Log ==
  /\ main # "off" /\ day # 0
  /\ Opens \/ OpenFails
  /\ UNCHANGED <<main, known, database, serving, daemons>>

Aged(d) == IF d = Oldest THEN Oldest ELSE d + 1

Midnight ==
  /\ day' = Aged(day)
  /\ handle' = IF handle = None THEN None ELSE Aged(handle)
  /\ files' = {Aged(d) : d \in files}
  /\ logged' = {Aged(d) : d \in logged} \ {Oldest}
  /\ UNCHANGED <<main, known, database, serving, daemons>>

-----------------------------------------------------------------------------
(* Start and end of the process *)

(* What ends with the process: its goroutines, its children, its sockets. *)
Off ==
  /\ main' = "off"
  /\ opener' = [p \in Openers |-> Closed]
  /\ tx' = None
  /\ listening' = FALSE /\ web' = FALSE
  /\ handle' = None
  /\ S!Ends
  /\ UNCHANGED <<known, schema, script, rendered, day, files, logged>>

(* The container starts: logging.Setup, then the key and the database.     *)
(* The scripts name the port of an earlier listener, if any.               *)
Boot(version) ==
  /\ main = "off" /\ main' = "open"
  /\ known' = version
  /\ opener' = [opener EXCEPT !["main"].at = "version"]
  /\ script' = FALSE /\ rendered' = FALSE
  /\ Opens
  /\ UNCHANGED <<schema, tx, listening, web, daemons>>

(* An error makes start return, and main exit. *)
StartFails ==
  /\ main \in {"open", "listen", "hooks", "prerender"}
  /\ Off

(* SIGKILL, or the machine goes down; or SIGTERM before NotifyContext. *)
Killed == main # "off" /\ Off

-----------------------------------------------------------------------------
(* db.Open *)

At(p, where) == opener[p].at = where
Then(p, where, v) == opener' = [opener EXCEPT ![p] = [at |-> where, version |-> v]]

outsideDatabase == <<main, known, serving, log, daemons>>

(* The version is read outside a transaction; a newer one is refused. *)
ReadVersion(p) ==
  /\ At(p, "version") /\ schema.version <= known
  /\ Then(p, "migrate", schema.version)
  /\ UNCHANGED <<schema, tx, outsideDatabase>>

(* The statements of the next migration, in a transaction of its own: the  *)
(* first one takes the write lock.  Every migration creates or adds what   *)
(* was not there, so it fails on a database that has had it.               *)
Apply(p) ==
  LET v == opener[p].version + 1 IN
  /\ At(p, "migrate") /\ v <= known /\ tx = None /\ v \notin schema.applied
  /\ tx' = [by |-> p, schema |-> [schema EXCEPT !.applied = @ \cup {v}]]
  /\ UNCHANGED <<opener, schema, outsideDatabase>>

Writing(p) == tx # None /\ tx.by = p

(* Mutant: the version is set before the transaction begins. *)
Commit_VersionFirst(p) ==
  LET v == opener[p].version + 1 IN
  /\ Writing(p)
  /\ \/ schema' = [schema EXCEPT !.version = v] /\ UNCHANGED <<opener, tx>>
     \/ schema' = [tx.schema EXCEPT !.version = v] /\ tx' = None /\ Then(p, "migrate", v)
  /\ UNCHANGED outsideDatabase

(* PRAGMA user_version and Commit. *)
Commit(p) ==
  LET v == opener[p].version + 1 IN
  /\ Writing(p)
  /\ schema' = [tx.schema EXCEPT !.version = v]
  /\ tx' = None
  /\ Then(p, "migrate", v)
  /\ UNCHANGED outsideDatabase

(* reset-password begins; it opens the database, clears a row, and ends,   *)
(* or meets an error and rolls back.                                       *)
Reset ==
  /\ main # "off" /\ At("reset", "none")
  /\ Then("reset", "version", 0)
  /\ UNCHANGED <<schema, tx, outsideDatabase>>

ResetEnds ==
  /\ ~At("reset", "none") /\ opener' = [opener EXCEPT !["reset"] = Closed]
  /\ tx' = IF Writing("reset") THEN None ELSE tx
  /\ UNCHANGED <<schema, outsideDatabase>>

-----------------------------------------------------------------------------
(* start, after the database *)

Step(from, to) == main = from /\ main' = to

outsideStep == <<known, schema, tx, log, daemons>>

Opened ==
  /\ opener["main"] = [at |-> "migrate", version |-> known]
  /\ Step("open", "listen")
  /\ opener' = [opener EXCEPT !["main"] = Closed]
  /\ UNCHANGED <<serving, outsideStep>>

Listen ==
  /\ Step("listen", "hooks")
  /\ listening' = TRUE
  /\ UNCHANGED <<opener, script, rendered, web, outsideStep>>

(* InstallHooks and LinkCHAPSecrets *)
InstallHooks ==
  /\ Step("hooks", "prerender")
  /\ script' = TRUE
  /\ UNCHANGED <<opener, listening, rendered, web, outsideStep>>

(* Mutant: the daemons are started first. *)
Prerender_Later ==
  /\ Step("prerender", "run")
  /\ web' \in BOOLEAN
  /\ UNCHANGED <<opener, listening, script, rendered, outsideStep>>

(* Prerender, then the listeners and the goroutines; ListenAndServe may    *)
(* fail, which is only logged.                                             *)
Prerender ==
  /\ Step("prerender", "run")
  /\ rendered' = TRUE
  /\ web' \in BOOLEAN
  /\ UNCHANGED <<opener, listening, script, outsideStep>>

(* SIGINT or SIGTERM ends the context, from before Prerender on. *)
Signal ==
  /\ main \in {"prerender", "run"}
  /\ S!Cancel
  /\ UNCHANGED <<main, known, database, serving, log>>

(* Mutant: start does not wait for the supervisor. *)
Drained_NoWait ==
  /\ cancelled /\ Step("run", "close")
  /\ web' = FALSE
  /\ UNCHANGED <<opener, listening, script, rendered, outsideStep>>

(* manager.Run and the supervisor have returned; Shutdown drains the       *)
(* requests for five seconds at most.                                      *)
Drained ==
  /\ cancelled /\ \A d \in Daemons : S!At(d, "returned")
  /\ Step("run", "close")
  /\ web' = FALSE
  /\ UNCHANGED <<opener, listening, script, rendered, outsideStep>>

(* The deferred calls, and the exit. *)
Close ==
  /\ Step("close", "closed")
  /\ listening' = FALSE
  /\ UNCHANGED <<opener, script, rendered, web, outsideStep>>

Exit == main = "closed" /\ Off

-----------------------------------------------------------------------------
(* The specification *)

Start ==
  \/ Opened \/ Listen \/ InstallHooks \/ Prerender \/ Drained \/ Close \/ Exit
  \/ ReadVersion("main") \/ Apply("main") \/ Commit("main")

ResetPassword ==
  \/ Reset \/ ReadVersion("reset") \/ Apply("reset") \/ Commit("reset") \/ ResetEnds

(* The daemons run from supervisor.Run until the process ends. *)
Supervised ==
  /\ main \in {"run", "close", "closed"}
  /\ UNCHANGED <<main, known, database, serving, log>>

Next ==
  \/ \E version \in 1..MaxVersion : Boot(version)
  \/ Start \/ StartFails \/ ResetPassword \/ Signal \/ Killed
  \/ \E d \in Daemons : Supervised /\ S!Steps(d)
  \/ Log \/ Midnight

Spec == Init /\ [][Next]_vars

(* start goes on and reset-password ends; the goroutines of the supervisor *)
(* run, WaitDelay ends in a SIGKILL, and a child outlives its daemon for a *)
(* while only.                                                             *)
Fairness ==
  /\ WF_vars(Start) /\ WF_vars(ResetEnds)
  /\ \A d \in Daemons :
       /\ WF_vars(Supervised /\ S!Supervise(d))
       /\ \A s \in S!Streams : WF_vars(Supervised /\ S!Scan(d, s))
       /\ WF_vars(Supervised /\ S!Kill(d))
       /\ WF_vars(Supervised /\ ~alive[d] /\ S!ChildExits(d))

FairSpec == Spec /\ Fairness

Versions == 0..MaxVersion

TypeOK ==
  /\ main \in {"off", "open", "listen", "hooks", "prerender", "run", "close", "closed"}
  /\ known \in 1..MaxVersion
  /\ opener \in [Openers -> [at: {"none", "version", "migrate"}, version: Versions]]
  /\ schema \in [version: Versions, applied: SUBSET (1..MaxVersion)]
  /\ {listening, script, rendered, web} \subseteq BOOLEAN
  /\ day \in Days /\ handle \in Days \cup {None} /\ files \subseteq Days
  /\ logged \subseteq 0..Retention
  /\ S!TypeOK

-----------------------------------------------------------------------------
(* Properties *)

(* However start and reset-password interleave, fail and are killed, the   *)
(* database has had exactly the migrations its user_version stands for;    *)
(* and past db.Open the process runs on exactly the ones it knows.         *)
SchemaIsWhole ==
  /\ schema.applied = 1..schema.version
  /\ main \notin {"off", "open"} => schema.version = known

(* A daemon runs only while what it calls and reads is there: the files    *)
(* were rendered before it was started, and until it has gone the scripts  *)
(* of pppd name a listener that answers.                                   *)
DaemonsAreServed ==
  (\E d \in Daemons : alive[d]) => rendered /\ script /\ listening

(* Supervisor's promise, in a process that is killed and started again:    *)
(* supervise is about to start a daemon, or done with it, only when the    *)
(* instance before is gone and nobody can still write to its pipes.        *)
OneInstance == S!OneInstance

(* The wait before a restart starts at the minimum after a stable run or a *)
(* start of tsv-vpn, and doubles with every restart, up to the maximum.    *)
WaitFollowsStreak == S!WaitFollowsStreak

(* A daemon runs and is not stuck in a write, or is being started, again   *)
(* and again: no exit, failed start or line of output leaves it stopped or *)
(* blocked for good.                                                       *)
KeepsServing == S!KeepsServing

(* A signal ends the process, whatever its daemons do: both listeners, the *)
(* supervisor and manager.Run are waited for, and none waits for ever.     *)
SignalEnds == cancelled ~> main = "off"

(* What was logged in the last Retention days is still there, and a line   *)
(* that finds today's file noted also finds it open: no failed roll sends  *)
(* the lines that follow to a closed file.                                 *)
LogIsKept ==
  /\ logged \subseteq files
  /\ main # "off" /\ day = 0 => handle = 0
=============================================================================
