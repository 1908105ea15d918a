-------------------------------- MODULE Access --------------------------------
(***************************************************************************)
(* Who may use the web UI of tsv-vpn: the admin password, the sessions and *)
(* the login throttle (internal/web: auth.go, credentials.go, setup.go,    *)
(* password.go; reset-password in cmd/tsv-vpn/hash.go).                    *)
(*                                                                         *)
(* Every browser has at most one request in flight.  A handler gives up    *)
(* its locks between the throttle, the comparison, the settings table and  *)
(* the tokens, so each of these is an action and requests interleave.      *)
(* All browsers share one client address: the throttle keeps a record per  *)
(* address and never relates two.                                          *)
(*                                                                         *)
(* A password is only told apart from the ones before it: what is typed is *)
(* right or wrong when it is compared.  A session expires at some time.    *)
(* The throttle's deadlines are kept as what is left of them: 0 at the     *)
(* deadline itself, Past after it, as a zero time.Time always is.          *)
(***************************************************************************)
EXTENDS Integers, FiniteSets, FiniteSetsExt

CONSTANTS
  Browsers,
  None,              \* no token, no record
  MaxLoginFailures, LoginWindow, LoginLockout,
  MaxChanges,        \* bound: passwords stored, cleared or pinned
  MaxErrors          \* bound: reads of the settings table that fail

ASSUME AccessAssumption ==
  /\ {MaxLoginFailures, LoginWindow, LoginLockout} \subseteq Nat \ {0}
  /\ LoginWindow <= LoginLockout
  /\ MaxChanges \in Nat /\ MaxErrors \in Nat
  /\ IsFiniteSet(Browsers) /\ Browsers # {}
  /\ None \notin [failures: Nat, window: Int, locked: Int]
  /\ None \notin [since: Nat, late: BOOLEAN]

Past == -1

VARIABLES
  pinned,    \* Credentials.EnvHash is not empty
  stored,    \* there is an admin_password_hash setting
  tokens,    \* the entry of Sessions.tokens that each browser's cookie names
  attempts,  \* the address's entry of Sessions.attempts
  request,   \* the requests in flight
  errors,    \* reads that failed
  changes,   \* history: how often the password changed
  kept,      \* history: changes when it last changed and no session ended
  wrong,     \* history: wrong passwords compared, by age, since a right one
  shut       \* history: for how long the address has been locked

password == <<pinned, stored, changes, kept>>
history == <<wrong, shut>>
vars == <<password, tokens, attempts, request, errors, history>>

(* since: changes when the request learned what it goes by. *)
Idle == [op |-> "idle", pc |-> "idle", since |-> 0]
At(b, pc) == request[b].pc = pc
Goto(b, pc) == request' = [request EXCEPT ![b].pc = pc]
Finish(b) == request' = [request EXCEPT ![b] = Idle]

Ages == 0..(LoginWindow - 1)
NoWrong == [age \in Ages |-> 0]

(* NewSessions: what the process knows when it starts. *)
NewSessions ==
  [tokens |-> [b \in Browsers |-> None], attempts |-> None,
   request |-> [b \in Browsers |-> Idle]]

Init ==
  /\ pinned \in BOOLEAN /\ stored = FALSE
  /\ tokens = NewSessions.tokens
  /\ attempts = NewSessions.attempts
  /\ request = NewSessions.request
  /\ errors = 0 /\ changes = 0 /\ kept = 0
  /\ wrong = NoWrong /\ shut = 0

-----------------------------------------------------------------------------
(* Credentials *)

(* Hash: whether one is found; a setting that cannot be read counts as none. *)
Hash(found) ==
  \/ found = (pinned \/ stored) /\ errors' = errors
  \/ /\ ~pinned /\ stored /\ errors < MaxErrors
     /\ found = FALSE /\ errors' = errors + 1

(* Set, and what else may end the handler there: the confirmation differs, *)
(* the password is too short or too long, the database is locked.          *)
Set(b, op, next) ==
  /\ At(b, "set") /\ request[b].op = op
  /\ \/ /\ ~pinned /\ changes < MaxChanges
        /\ stored' = TRUE
        /\ changes' = changes + 1
        /\ kept' = IF op = "setup" THEN changes' ELSE kept
        /\ request' = [request EXCEPT ![b].pc = next, ![b].since = changes']
     \/ Finish(b) /\ UNCHANGED <<stored, changes, kept>>
  /\ UNCHANGED <<pinned, tokens, attempts, errors, history>>

-----------------------------------------------------------------------------
(* The throttle *)

(* pruneAttempts *)
Pruned ==
  IF attempts # None /\ attempts.window = Past /\ attempts.locked = Past
  THEN None ELSE attempts

Locked == attempts # None /\ attempts.locked > 0

(* Mutant: the lock is not looked at. *)
loginAllowed_Always == attempts' = Pruned

loginAllowed == attempts' = Pruned /\ ~Locked

Fresh == [failures |-> 0, window |-> Past, locked |-> Past]

(* Mutant: the count is not taken back when the lock is set. *)
Counted_Keeps(r) ==
  LET s == IF r.window = Past
           THEN [r EXCEPT !.failures = 0, !.window = LoginWindow] ELSE r
  IN [s EXCEPT !.failures = @ + 1,
               !.locked = IF s.failures + 1 >= MaxLoginFailures THEN LoginLockout ELSE @]

(* What a failure makes of the record. *)
Counted(r) ==
  LET s == IF r.window = Past
           THEN [r EXCEPT !.failures = 0, !.window = LoginWindow] ELSE r
  IN IF s.failures + 1 >= MaxLoginFailures
     THEN [s EXCEPT !.failures = 0, !.locked = LoginLockout]
     ELSE [s EXCEPT !.failures = @ + 1]

loginFailed(b) ==
  /\ At(b, "fail")
  /\ attempts' = Counted(IF attempts = None THEN Fresh ELSE attempts)
  /\ Finish(b)
  /\ UNCHANGED <<password, tokens, errors, history>>

loginSucceeded(b) ==
  /\ At(b, "succeed")
  /\ attempts' = None
  /\ wrong' = NoWrong /\ shut' = 0
  /\ IF request[b].op = "change" THEN Goto(b, "set") ELSE Finish(b)
  /\ UNCHANGED <<password, tokens, errors>>

-----------------------------------------------------------------------------
(* Handlers *)

Begin(b, op, pc) ==
  /\ request[b] = Idle
  /\ request' = [request EXCEPT ![b] = [op |-> op, pc |-> pc, since |-> changes]]

(* Mutant: an attempt that is refused counts as one that failed. *)
Login_CountsRefused(b) ==
  /\ \/ Begin(b, "login", "compare") /\ loginAllowed
     \/ /\ request[b] = Idle /\ Locked
        /\ attempts' = Counted(attempts) /\ UNCHANGED request
  /\ UNCHANGED <<password, tokens, errors, history>>

Login(b) ==
  /\ Begin(b, "login", "compare")
  /\ loginAllowed
  /\ UNCHANGED <<password, tokens, errors, history>>

(* Require, and changePassword up to its comparison. *)
ChangePassword(b) ==
  /\ Begin(b, "change", "compare")
  /\ Hash(TRUE) /\ tokens[b] # None
  /\ ~pinned
  /\ loginAllowed
  /\ UNCHANGED <<password, tokens, history>>

Setup(b) ==
  /\ Begin(b, "setup", "set")
  /\ Hash(FALSE)
  /\ UNCHANGED <<password, tokens, attempts, history>>

(* Matches: the hash is read here, and bcrypt compares what was typed. *)
Matches(b) ==
  /\ At(b, "compare")
  /\ \/ /\ Hash(TRUE)
        /\ request' = [request EXCEPT ![b].since = changes,
             ![b].pc = IF request[b].op = "login" THEN "grant" ELSE "succeed"]
        /\ UNCHANGED history
     \/ /\ Hash(TRUE) \/ Hash(FALSE)
        /\ Goto(b, "fail")
        /\ wrong' = [wrong EXCEPT ![0] = @ + 1] /\ shut' = shut
  /\ UNCHANGED <<password, tokens, attempts>>

Grant(b) ==
  /\ At(b, "grant")
  /\ tokens' = [tokens EXCEPT ![b] =
       [since |-> request[b].since, late |-> request[b].since < changes]]
  /\ IF request[b].op = "login" THEN Goto(b, "succeed") ELSE Finish(b)
  /\ UNCHANGED <<password, attempts, errors, history>>

SetUp(b) == Set(b, "setup", "grant")

(* Mutant: a change keeps the sessions. *)
Changed_KeepsSessions(b) == Set(b, "change", "grant")

Changed(b) == Set(b, "change", "revoke")

RevokeAll(b) ==
  /\ At(b, "revoke")
  /\ tokens' = NewSessions.tokens
  /\ Goto(b, "grant")
  /\ UNCHANGED <<password, attempts, errors, history>>

(* Logout, or the session's time is over: what expire deletes, Valid has   *)
(* refused since.                                                          *)
Logout(b) ==
  /\ tokens[b] # None
  /\ tokens' = [tokens EXCEPT ![b] = None]
  /\ UNCHANGED <<password, attempts, request, errors, history>>

-----------------------------------------------------------------------------
(* Outside the handlers *)

(* reset-password, a process of its own, deletes the setting. *)
Clear ==
  /\ stored /\ changes < MaxChanges
  /\ stored' = FALSE /\ changes' = changes + 1 /\ kept' = changes'
  /\ UNCHANGED <<pinned, tokens, attempts, request, errors, history>>

(* The container is restarted, with or without ADMIN_PASSWORD_HASH. *)
Restart ==
  /\ \/ UNCHANGED <<pinned, changes>>
     \/ /\ changes < MaxChanges
        /\ pinned' = ~pinned /\ changes' = changes + 1
  /\ tokens' = NewSessions.tokens
  /\ attempts' = NewSessions.attempts
  /\ request' = NewSessions.request
  /\ wrong' = NoWrong /\ shut' = 0
  /\ UNCHANGED <<stored, kept, errors>>

Less(t) == IF t = Past THEN Past ELSE t - 1

Tick ==
  /\ attempts' = IF attempts = None THEN None
       ELSE [attempts EXCEPT !.window = Less(@), !.locked = Less(@)]
  /\ wrong' = [age \in Ages |-> IF age = 0 THEN 0 ELSE wrong[age - 1]]
  /\ shut' = IF Locked' THEN shut + 1 ELSE 0
  /\ UNCHANGED <<password, tokens, request, errors>>

Serve(b) ==
  \/ Matches(b) \/ loginFailed(b) \/ loginSucceeded(b)
  \/ Grant(b) \/ SetUp(b) \/ Changed(b) \/ RevokeAll(b)

Next ==
  \/ \E b \in Browsers :
       Serve(b) \/ Login(b) \/ ChangePassword(b) \/ Setup(b) \/ Logout(b)
  \/ Clear \/ Restart \/ Tick

Spec == Init /\ [][Next]_vars
-----------------------------------------------------------------------------
(* Properties *)

Token == [since: 0..MaxChanges, late: BOOLEAN]

Attempts ==
  [failures: 0..(MaxLoginFailures - 1), window: Past..LoginWindow,
   locked: Past..LoginLockout]

Request ==
  [op: {"idle", "login", "change", "setup"},
   pc: {"idle", "compare", "fail", "succeed", "set", "revoke", "grant"},
   since: 0..MaxChanges]

TypeOK ==
  /\ pinned \in BOOLEAN /\ stored \in BOOLEAN
  /\ tokens \in [Browsers -> Token \cup {None}]
  /\ attempts \in Attempts \cup {None}
  /\ request \in [Browsers -> Request]
  /\ errors \in 0..MaxErrors
  /\ changes \in 0..MaxChanges /\ kept \in 0..MaxChanges
  /\ wrong \in [Ages -> Nat] /\ shut \in Nat

(* The throttle bounds the wrong passwords that are compared in less than  *)
(* any LoginWindow, although requests that were let in together fail one   *)
(* after the other, the window does not slide, and the count starts over   *)
(* when the lock is set.                                                   *)
GuessesAreBounded ==
  MapThenSumSet(LAMBDA age : wrong[age], Ages)
    <= 2 * (MaxLoginFailures - 1) + Cardinality(Browsers)

(* A handler that changed the password later is about to drop the rest. *)
AboutToRevoke(since) ==
  \E b \in Browsers : At(b, "revoke") /\ request[b].since > since

(* A session outlives the password it was granted for only until the       *)
(* handler that changed it has revoked it, when its login was in flight    *)
(* over the change, or when the password was cleared or chosen on the      *)
(* setup page: no change leaves an older session signed in.                *)
SessionsFollowPassword ==
  \A b \in Browsers :
    tokens[b] # None /\ tokens[b].since < changes =>
      \/ tokens[b].late \/ tokens[b].since < kept
      \/ AboutToRevoke(tokens[b].since)

(* A lock ends however many attempts are made meanwhile: those it refuses  *)
(* do not prolong it, and those that were let in before it was set have to *)
(* fail MaxLoginFailures times again.                                      *)
LockEnds ==
  shut < LoginLockout * (1 + (Cardinality(Browsers) - 1) \div MaxLoginFailures)
=============================================================================
