----------------------------- MODULE AccessProofs ------------------------------
(***************************************************************************)
(* Proofs about Access, for any number of browsers, any limits of the      *)
(* throttle and any number of changes of the password.                     *)
(***************************************************************************)
EXTENDS Access, FiniteSetTheorems, FunctionTheorems, WellFoundedInduction, TLAPS

(* What a token or a request goes by is not ahead of the password. *)
SessionInv ==
  /\ kept <= changes
  /\ \A b \in Browsers :
       /\ tokens[b] # None => tokens[b].since <= changes
       /\ request[b].since <= changes
  /\ SessionsFollowPassword

(* The requests that were let in and may still count as failures. *)
Guessing == {b \in Browsers : At(b, "compare") \/ At(b, "fail")}

(* An address that is locked has been locked again j times: each time took *)
(* MaxLoginFailures of the requests let in before the first, and gave it   *)
(* LoginLockout more.                                                      *)
LockedAgain(j) ==
  /\ shut + attempts.locked <= LoginLockout * (1 + j)
  /\ j * MaxLoginFailures + attempts.failures + Cardinality(Guessing)
       <= Cardinality(Browsers) - 1

LockInv ==
  /\ ~Locked => shut = 0
  /\ Locked => \E j \in Nat : LockedAgain(j)

(* The wrong passwords that were compared less than m ticks ago, each with *)
(* its age and a number. *)
Recent(m) == {p \in Ages \X Nat : p[1] < m /\ p[2] \in 1..wrong[p[1]]}

Comparing == {b \in Browsers : At(b, "compare")}
Failing == {b \in Browsers : At(b, "fail")}

Record == IF attempts = None THEN Fresh ELSE attempts

(* What the record has counted and what is about to be counted are all     *)
(* that were compared since its window began, or since the lock was set.   *)
WindowInv == Record.window # Past =>
  \A m \in Int : m <= LoginLockout - Record.locked /\ m <= LoginWindow - Record.window =>
    Cardinality(Recent(m)) <= Record.failures + Cardinality(Failing)

(* The window before it, if there was one, had too few for a lock, and so  *)
(* had one that is over.                                                   *)
WindowsInv == \A m \in Int : m <= LoginLockout - Record.locked =>
  Cardinality(Recent(m))
    <= MaxLoginFailures - 1 + (IF Record.window = Past THEN 0 ELSE Record.failures)
         + Cardinality(Failing)

(* While the address is locked only those let in before compare.           *)
LockedInv == Locked =>
  Cardinality(Recent(LoginWindow)) + Cardinality(Comparing)
    <= 2 * (MaxLoginFailures - 1) + Cardinality(Browsers)

GuessInv == WindowInv /\ WindowsInv /\ LockedInv

Inv == TypeOK /\ SessionInv /\ LockInv /\ GuessInv

-----------------------------------------------------------------------------
(* Types *)

LEMMA ConstantsType ==
  /\ MaxLoginFailures \in Nat \ {0} /\ LoginWindow \in Nat \ {0} /\ LoginLockout \in Nat \ {0}
  /\ LoginWindow <= LoginLockout /\ MaxChanges \in Nat /\ MaxErrors \in Nat
  BY AccessAssumption

(* A record's fields, and that it is one. *)
LEMMA AttemptsType ==
  ASSUME NEW r \in Attempts
  PROVE  /\ r # None
         /\ r = [failures |-> r.failures, window |-> r.window, locked |-> r.locked]
         /\ r.failures \in 0..(MaxLoginFailures - 1) /\ r.window \in -1..LoginWindow
         /\ r.locked \in -1..LoginLockout
  <1>1. /\ r = [failures |-> r.failures, window |-> r.window, locked |-> r.locked]
        /\ r.failures \in 0..(MaxLoginFailures - 1) /\ r.window \in -1..LoginWindow
        /\ r.locked \in -1..LoginLockout
    BY DEF Attempts, Past
  <1>2. r.failures \in Nat /\ r.window \in Int /\ r.locked \in Int
    BY <1>1
  <1>3. r \in [failures: Nat, window: Int, locked: Int]
    BY <1>1, <1>2
  <1> QED BY <1>1, <1>3, AccessAssumption

(* What a failure makes of a record: the count, or the lock. *)
LEMMA CountedIs ==
  ASSUME NEW r \in Attempts
  PROVE  /\ Counted(r) \in Attempts
         /\ \/ /\ Counted(r).locked = r.locked
               /\ Counted(r).failures <= r.failures + 1
            \/ /\ Counted(r).locked = LoginLockout /\ Counted(r).failures = 0
               /\ MaxLoginFailures <= r.failures + 1
  <1> DEFINE s == IF r.window = Past
                  THEN [r EXCEPT !.failures = 0, !.window = LoginWindow] ELSE r
  <1>1. s \in Attempts /\ s.failures <= r.failures /\ s.locked = r.locked
    <2>1. CASE r.window = Past
      <3>1. s = [failures |-> 0, window |-> LoginWindow, locked |-> r.locked]
        <4>1. r = [failures |-> r.failures, window |-> r.window, locked |-> r.locked]
          BY AttemptsType
        <4>2. s = [r EXCEPT !.failures = 0, !.window = LoginWindow]
          BY <2>1
        <4> HIDE DEF s
        <4> QED BY <4>1, <4>2
      <3>2. 0 \in 0..(MaxLoginFailures - 1) /\ LoginWindow \in -1..LoginWindow
        BY ConstantsType
      <3>3. 0 <= r.failures /\ r.locked \in -1..LoginLockout
        BY AttemptsType, ConstantsType
      <3> HIDE DEF s
      <3> QED BY <3>1, <3>2, <3>3 DEF Attempts, Past
    <2>2. CASE r.window # Past
      <3>1. r.failures <= r.failures
        BY AttemptsType, ConstantsType
      <3> QED BY <2>2, <3>1
    <2> QED BY <2>1, <2>2
  <1>2. Counted(r) = IF s.failures + 1 >= MaxLoginFailures
                     THEN [s EXCEPT !.failures = 0, !.locked = LoginLockout]
                     ELSE [s EXCEPT !.failures = @ + 1]
    BY DEF Counted
  <1>3. r.failures \in Nat
    BY AttemptsType, ConstantsType
  <1> HIDE DEF s
  <1>4. /\ s = [failures |-> s.failures, window |-> s.window, locked |-> s.locked]
        /\ s.failures \in 0..(MaxLoginFailures - 1) /\ s.window \in -1..LoginWindow
        /\ s.locked \in -1..LoginLockout
    BY <1>1, AttemptsType
  <1>5. CASE s.failures + 1 >= MaxLoginFailures
    <2>1. Counted(r) = [failures |-> 0, window |-> s.window, locked |-> LoginLockout]
      BY <1>2, <1>4, <1>5
    <2>2. 0 \in 0..(MaxLoginFailures - 1) /\ LoginLockout \in -1..LoginLockout
      BY ConstantsType
    <2>3. MaxLoginFailures <= r.failures + 1
      BY <1>1, <1>3, <1>4, <1>5, ConstantsType
    <2> QED BY <1>4, <2>1, <2>2, <2>3 DEF Attempts, Past
  <1>6. CASE ~(s.failures + 1 >= MaxLoginFailures)
    <2>1. Counted(r) = [failures |-> s.failures + 1, window |-> s.window, locked |-> s.locked]
      BY <1>2, <1>4, <1>6
    <2>2. s.failures + 1 \in 0..(MaxLoginFailures - 1) /\ s.failures + 1 <= r.failures + 1
      BY <1>1, <1>3, <1>4, <1>6, ConstantsType
    <2> QED BY <1>1, <1>4, <2>1, <2>2 DEF Attempts, Past
  <1> QED BY <1>5, <1>6

LEMMA FreshType == Fresh \in Attempts /\ Fresh.failures = 0 /\ Fresh.locked = -1
  <1>1. 0 \in 0..(MaxLoginFailures - 1) /\ -1 \in -1..LoginWindow /\ -1 \in -1..LoginLockout
    BY ConstantsType
  <1> QED BY <1>1 DEF Fresh, Attempts, Past

(* One of TypeOK's conjuncts, for requests. *)
Places == {"idle", "compare", "fail", "succeed", "set", "revoke", "grant"}

LEMMA RequestType ==
  ASSUME TypeOK, NEW b \in Browsers, NEW to \in Places, NEW since \in 0..MaxChanges,
         NEW op \in {"idle", "login", "change", "setup"},
         \/ request' = [request EXCEPT ![b] = [op |-> op, pc |-> to, since |-> since]]
         \/ request' = [request EXCEPT ![b].pc = to]
         \/ request' = [request EXCEPT ![b].pc = to, ![b].since = since]
         \/ request' = [request EXCEPT ![b].since = since, ![b].pc = to]
  PROVE  request' \in [Browsers -> Request]
  BY DEF TypeOK, Request, Places

LEMMA Type_Request ==
  ASSUME TypeOK, [Next]_vars
  PROVE  request' \in [Browsers -> Request]
  <1>1. 0 \in 0..MaxChanges /\ changes \in 0..MaxChanges
    BY ConstantsType DEF TypeOK
  <1>2. \A to \in {"compare", "fail", "succeed", "set", "revoke", "grant", "idle"} : to \in Places
    BY DEF Places
  <1>3. ASSUME NEW b \in Browsers, Finish(b) PROVE request' \in [Browsers -> Request]
    BY <1>1, <1>2, <1>3, RequestType DEF Finish, Idle
  <1>4. ASSUME NEW b \in Browsers, Serve(b) PROVE request' \in [Browsers -> Request]
    <2>1. CASE Matches(b)
      <3>1. CASE request' = [request EXCEPT ![b].since = changes,
                    ![b].pc = IF request[b].op = "login" THEN "grant" ELSE "succeed"]
        <4>1. (IF request[b].op = "login" THEN "grant" ELSE "succeed") \in Places
          BY <1>2
        <4> QED BY <1>1, <3>1, <4>1, RequestType
      <3>2. CASE Goto(b, "fail")
        BY <1>1, <1>2, <3>2, RequestType DEF Goto
      <3> QED BY <2>1, <3>1, <3>2 DEF Matches
    <2>2. CASE loginFailed(b)
      BY <1>3, <2>2 DEF loginFailed
    <2>3. CASE loginSucceeded(b)
      BY <1>1, <1>2, <1>3, <2>3, RequestType DEF loginSucceeded, Goto
    <2>4. CASE Grant(b)
      BY <1>1, <1>2, <1>3, <2>4, RequestType DEF Grant, Goto
    <2>5. ASSUME NEW op, NEW next \in Places, Set(b, op, next)
          PROVE  request' \in [Browsers -> Request]
      <3>1. CASE /\ changes < MaxChanges /\ changes' = changes + 1
                 /\ request' = [request EXCEPT ![b].pc = next, ![b].since = changes']
        <4>1. changes' \in 0..MaxChanges
          BY <1>1, <3>1, ConstantsType
        <4> QED BY <3>1, <4>1, RequestType
      <3> QED BY <1>3, <2>5, <3>1 DEF Set
    <2>6. CASE SetUp(b) \/ Changed(b)
      BY <1>2, <2>5, <2>6 DEF SetUp, Changed
    <2>7. CASE RevokeAll(b)
      BY <1>1, <1>2, <2>7, RequestType DEF RevokeAll, Goto
    <2> QED BY <1>4, <2>1, <2>2, <2>3, <2>4, <2>6, <2>7 DEF Serve
  <1>5. ASSUME NEW b \in Browsers, Login(b) \/ ChangePassword(b) \/ Setup(b)
        PROVE  request' \in [Browsers -> Request]
    <2>1. PICK op \in {"login", "change", "setup"}, to \in {"compare", "set"} :
            request' = [request EXCEPT ![b] = [op |-> op, pc |-> to, since |-> changes]]
      BY <1>5 DEF Login, ChangePassword, Setup, Begin
    <2> QED BY <1>1, <1>2, <2>1, RequestType
  <1>6. CASE UNCHANGED request
    BY <1>6 DEF TypeOK
  <1>7. CASE request' = NewSessions.request
    <2>1. Idle \in Request
      BY <1>1 DEF Idle, Request
    <2> QED BY <1>7, <2>1 DEF NewSessions
  <1> QED BY <1>4, <1>5, <1>6, <1>7 DEF Next, vars, Logout, Clear, Restart, Tick

LEMMA Type_Counts ==
  ASSUME TypeOK, [Next]_vars
  PROVE  /\ pinned' \in BOOLEAN /\ stored' \in BOOLEAN
         /\ errors' \in 0..MaxErrors
         /\ changes' \in 0..MaxChanges /\ changes <= changes'
         /\ kept' \in 0..MaxChanges
  <1>1. changes \in 0..MaxChanges /\ kept \in 0..MaxChanges /\ errors \in 0..MaxErrors
        /\ pinned \in BOOLEAN /\ stored \in BOOLEAN
    BY DEF TypeOK
  <1>2. changes' = changes \/ (changes < MaxChanges /\ changes' = changes + 1)
    BY DEF Next, vars, password, Serve, Matches, loginFailed, loginSucceeded, Grant, SetUp,
           Changed, Set, RevokeAll, Login, ChangePassword, Setup, Logout, Clear, Restart, Tick
  <1>3. changes' \in 0..MaxChanges /\ changes <= changes'
    BY <1>1, <1>2, ConstantsType
  <1>4. kept' = kept \/ kept' = changes'
    BY DEF Next, vars, password, Serve, Matches, loginFailed, loginSucceeded, Grant, SetUp,
           Changed, Set, RevokeAll, Login, ChangePassword, Setup, Logout, Clear, Restart, Tick
  <1>5. errors' = errors \/ (errors < MaxErrors /\ errors' = errors + 1)
    BY DEF Next, vars, Serve, Matches, Hash, loginFailed, loginSucceeded, Grant, SetUp,
           Changed, Set, RevokeAll, Login, ChangePassword, Setup, Logout, Clear, Restart, Tick
  <1>6. errors' \in 0..MaxErrors
    BY <1>1, <1>5, ConstantsType
  <1>7. stored' = stored \/ stored' = TRUE \/ stored' = FALSE
    BY DEF Next, vars, password, Serve, Matches, loginFailed, loginSucceeded, Grant, SetUp,
           Changed, Set, RevokeAll, Login, ChangePassword, Setup, Logout, Clear, Restart, Tick
  <1>8. pinned' = pinned \/ pinned' = ~pinned
    BY DEF Next, vars, password, Serve, Matches, loginFailed, loginSucceeded, Grant, SetUp,
           Changed, Set, RevokeAll, Login, ChangePassword, Setup, Logout, Clear, Restart, Tick
  <1>9. stored' \in BOOLEAN
    BY <1>1, <1>7
  <1>10. pinned' \in BOOLEAN
    BY <1>1, <1>8
  <1> QED BY <1>1, <1>3, <1>4, <1>6, <1>9, <1>10

LEMMA Type_Tokens ==
  ASSUME TypeOK, [Next]_vars
  PROVE  tokens' \in [Browsers -> Token \cup {None}]
  <1>1. tokens \in [Browsers -> Token \cup {None}]
    BY DEF TypeOK
  <1>2. ASSUME NEW b \in Browsers, Grant(b) PROVE tokens' \in [Browsers -> Token \cup {None}]
    <2>1. request[b].since \in 0..MaxChanges /\ (request[b].since < changes) \in BOOLEAN
      BY DEF TypeOK, Request
    <2>2. [since |-> request[b].since, late |-> request[b].since < changes] \in Token
      BY <2>1 DEF Token
    <2> QED BY <1>1, <1>2, <2>2 DEF Grant
  <1>3. ASSUME NEW b \in Browsers, Logout(b) PROVE tokens' \in [Browsers -> Token \cup {None}]
    BY <1>1, <1>3 DEF Logout
  <1>4. CASE tokens' = NewSessions.tokens
    BY <1>4 DEF NewSessions
  <1> QED BY <1>1, <1>2, <1>3, <1>4
          DEF Next, vars, Serve, Matches, loginFailed, loginSucceeded, SetUp, Changed, Set,
              RevokeAll, Login, ChangePassword, Setup, Clear, Restart, Tick

LEMMA LessType ==
  ASSUME NEW n \in Nat, NEW t \in -1..n
  PROVE  Less(t) \in -1..n /\ (t > 0 => Less(t) = t - 1)
  BY DEF Less, Past

LEMMA Type_Attempts ==
  ASSUME TypeOK, [Next]_vars
  PROVE  attempts' \in Attempts \cup {None}
  <1>1. attempts \in Attempts \cup {None}
    BY DEF TypeOK
  <1>2. CASE Tick /\ attempts # None
    <2>1. attempts' = [attempts EXCEPT !.window = Less(@), !.locked = Less(@)]
      BY <1>2 DEF Tick
    <2>2. attempts = [failures |-> attempts.failures, window |-> attempts.window,
                      locked |-> attempts.locked]
      BY <1>1, <1>2, AttemptsType
    <2>3. attempts' = [failures |-> attempts.failures, window |-> Less(attempts.window),
                       locked |-> Less(attempts.locked)]
      BY <2>1, <2>2
    <2>4. Less(attempts.window) \in -1..LoginWindow /\ Less(attempts.locked) \in -1..LoginLockout
      BY <1>1, <1>2, AttemptsType, LessType, ConstantsType
    <2>5. attempts.failures \in 0..(MaxLoginFailures - 1)
      BY <1>1, <1>2, AttemptsType
    <2> QED BY <2>3, <2>4, <2>5 DEF Attempts, Past
  <1>3. ASSUME NEW b \in Browsers, loginFailed(b) PROVE attempts' \in Attempts \cup {None}
    BY <1>1, <1>3, CountedIs, FreshType DEF loginFailed
  <1>4. CASE attempts' = attempts \/ attempts' = None \/ attempts' = Pruned
    BY <1>1, <1>4 DEF Pruned
  <1> QED BY <1>1, <1>2, <1>3, <1>4
          DEF Next, vars, Serve, Matches, loginSucceeded, Grant, SetUp, Changed, Set, Logout,
              RevokeAll, Login, ChangePassword, Setup, Clear, Restart, Tick, loginAllowed,
              NewSessions

LEMMA Type_History ==
  ASSUME TypeOK, [Next]_vars
  PROVE  wrong' \in [Ages -> Nat] /\ shut' \in Nat
  <1>1. wrong \in [Ages -> Nat] /\ shut \in Nat
    BY DEF TypeOK
  <1>2. CASE wrong' = wrong /\ shut' = shut
    BY <1>1, <1>2
  <1>3. CASE wrong' = NoWrong /\ shut' = 0
    BY <1>3 DEF NoWrong
  <1>4. CASE wrong' = [wrong EXCEPT ![0] = @ + 1] /\ shut' = shut
    <2>1. 0 \in Ages
      BY ConstantsType DEF Ages
    <2> QED BY <1>1, <1>4, <2>1
  <1>5. CASE Tick
    <2>1. \A age \in Ages : age # 0 => age - 1 \in Ages
      BY ConstantsType DEF Ages
    <2>2. wrong' = [age \in Ages |-> IF age = 0 THEN 0 ELSE wrong[age - 1]]
          /\ (shut' = shut + 1 \/ shut' = 0)
      BY <1>5 DEF Tick
    <2>3. \A age \in Ages : (IF age = 0 THEN 0 ELSE wrong[age - 1]) \in Nat
      BY <1>1, <2>1
    <2> QED BY <1>1, <2>2, <2>3
  <1> QED BY <1>2, <1>3, <1>4, <1>5
          DEF Next, vars, history, Serve, Matches, loginFailed, loginSucceeded, Grant, SetUp,
              Changed, Set, Logout, RevokeAll, Login, ChangePassword, Setup, Clear, Restart

LEMMA Type_Next ==
  ASSUME TypeOK, [Next]_vars
  PROVE  TypeOK'
  BY Type_Counts, Type_Tokens, Type_Attempts, Type_Request, Type_History DEF TypeOK

-----------------------------------------------------------------------------
(* Sessions *)

(* What SessionsFollowPassword says of one token. *)
Follows(b) == tokens[b] # None /\ tokens[b].since < changes =>
  tokens[b].late \/ tokens[b].since < kept \/ AboutToRevoke(tokens[b].since)

SessionType ==
  /\ changes \in Nat /\ kept \in Nat /\ kept <= changes
  /\ tokens \in [Browsers -> Token \cup {None}] /\ request \in [Browsers -> Request]
  /\ \A b \in Browsers : request[b].since \in Nat /\ request[b].since <= changes
  /\ \A b \in Browsers : tokens[b] # None =>
       tokens[b].since \in Nat /\ tokens[b].since <= changes

LEMMA SessionTyped ==
  ASSUME TypeOK, SessionInv
  PROVE  SessionType
  BY ConstantsType DEF TypeOK, Request, Token, SessionInv, SessionType

(* A token that is kept follows the password still, when it did, when the  *)
(* password is the same and no handler was about to revoke.                *)
LEMMA Follows_Kept ==
  ASSUME NEW b \in Browsers, Follows(b), tokens'[b] = tokens[b],
         UNCHANGED <<changes, kept>>,
         \A c \in Browsers : At(c, "revoke") => request'[c] = request[c]
  PROVE  Follows(b)'
  BY DEF Follows, AboutToRevoke, At

LEMMA Session_Serve ==
  ASSUME SessionType, \A c \in Browsers : Follows(c), NEW b \in Browsers, Serve(b)
  PROVE  /\ kept' <= changes'
         /\ \A c \in Browsers : tokens'[c] # None => tokens'[c].since <= changes'
         /\ \A c \in Browsers : request'[c].since <= changes'
         /\ \A c \in Browsers : Follows(c)'
  <1> DEFINE Goal == /\ kept' <= changes'
                     /\ \A c \in Browsers : tokens'[c] # None => tokens'[c].since <= changes'
                     /\ \A c \in Browsers : request'[c].since <= changes'
                     /\ \A c \in Browsers : Follows(c)'
  <1>1. Idle.since = 0 /\ Idle.pc = "idle" /\ 0 <= changes
    BY DEF SessionType, Idle
  <1>2. ASSUME UNCHANGED <<changes, kept, tokens>>, ~At(b, "revoke"),
               \A c \in Browsers \ {b} : request'[c] = request[c],
               request'[b].since \in {0, request[b].since, changes}
        PROVE  Goal
    <2>1. \A c \in Browsers : request'[c].since <= changes'
      BY <1>1, <1>2 DEF SessionType
    <2>2. \A c \in Browsers : Follows(c)'
      BY <1>2, Follows_Kept
    <2> QED BY <1>2, <2>1, <2>2 DEF SessionType
  <1>3. CASE Matches(b) \/ loginFailed(b) \/ loginSucceeded(b)
    <2>1. UNCHANGED <<changes, kept, tokens>> /\ ~At(b, "revoke")
      BY <1>3 DEF Matches, loginFailed, loginSucceeded, password, At
    <2>2. /\ \A c \in Browsers \ {b} : request'[c] = request[c]
          /\ request'[b].since \in {0, request[b].since, changes}
      <3>1. \/ \E to : request' = [request EXCEPT ![b].pc = to]
            \/ request' = [request EXCEPT ![b] = Idle]
            \/ \E to : request' = [request EXCEPT ![b].since = changes, ![b].pc = to]
        BY <1>3 DEF Matches, loginFailed, loginSucceeded, Goto, Finish
      <3> QED BY <1>1, <3>1 DEF SessionType, Request
    <2> QED BY <1>2, <2>1, <2>2
  <1>4. CASE Grant(b)
    <2>1. /\ tokens' = [tokens EXCEPT ![b] =
               [since |-> request[b].since, late |-> request[b].since < changes]]
          /\ UNCHANGED <<changes, kept>> /\ ~At(b, "revoke")
      BY <1>4 DEF Grant, password, At
    <2>2. /\ \A c \in Browsers \ {b} : request'[c] = request[c] /\ tokens'[c] = tokens[c]
          /\ request'[b].since \in {0, request[b].since}
      <3>1. (\E to : request' = [request EXCEPT ![b].pc = to]) \/ request' = [request EXCEPT ![b] = Idle]
        BY <1>4 DEF Grant, Goto, Finish
      <3> QED BY <1>1, <2>1, <3>1 DEF SessionType, Request
    <2>3. tokens'[b] = [since |-> request[b].since, late |-> request[b].since < changes]
      BY <2>1 DEF SessionType
    <2>4. Follows(b)'
      <3>1. tokens'[b].since = request[b].since /\ tokens'[b].late = (request[b].since < changes)
        BY <2>3
      <3> QED BY <2>1, <3>1 DEF Follows
    <2>5. \A c \in Browsers \ {b} : Follows(c)'
      BY <2>1, <2>2, Follows_Kept
    <2>6. \A c \in Browsers : request'[c].since <= changes'
      BY <1>1, <2>1, <2>2 DEF SessionType
    <2>7. \A c \in Browsers : tokens'[c] # None => tokens'[c].since <= changes'
      BY <2>1, <2>2, <2>3 DEF SessionType
    <2> QED BY <2>1, <2>4, <2>5, <2>6, <2>7 DEF SessionType
  <1>5. ASSUME NEW op, NEW next, Set(b, op, next), op = "setup" \/ next = "revoke" PROVE Goal
    <2>1. CASE Finish(b) /\ UNCHANGED <<stored, changes, kept>>
      <3>1. UNCHANGED tokens /\ ~At(b, "revoke")
        BY <1>5 DEF Set, At
      <3>2. /\ \A c \in Browsers \ {b} : request'[c] = request[c]
            /\ request'[b].since = 0
        BY <1>1, <2>1 DEF Finish, SessionType
      <3> QED BY <1>2, <2>1, <3>1, <3>2
    <2>2. CASE ~(Finish(b) /\ UNCHANGED <<stored, changes, kept>>)
      <3>1. /\ changes' = changes + 1
            /\ kept' = IF op = "setup" THEN changes' ELSE kept
            /\ request' = [request EXCEPT ![b].pc = next, ![b].since = changes']
            /\ UNCHANGED tokens
        BY <1>5, <2>2 DEF Set
      <3>2. request'[b].pc = next /\ request'[b].since = changes + 1
            /\ \A c \in Browsers \ {b} : request'[c] = request[c]
        BY <3>1 DEF SessionType, Request
      <3>3. \A c \in Browsers : request'[c].since <= changes'
        BY <3>1, <3>2 DEF SessionType
      <3>4. \A c \in Browsers : tokens'[c] # None => tokens'[c].since <= changes'
        BY <3>1 DEF SessionType
      <3>5. ASSUME NEW c \in Browsers PROVE Follows(c)'
        <4>1. CASE op = "setup"
          BY <3>1, <4>1 DEF Follows
        <4>2. CASE next = "revoke"
          <5>1. \A since : since < changes' => AboutToRevoke(since)'
            BY <3>1, <3>2, <4>2 DEF AboutToRevoke, At
          <5>2. tokens'[c] # None /\ tokens'[c].since < changes'
                  => AboutToRevoke(tokens[c].since)'
            BY <3>1, <5>1
          <5> QED BY <3>1, <5>2 DEF Follows, AboutToRevoke
        <4> QED BY <1>5, <4>1, <4>2
      <3>6. kept' <= changes'
        BY <3>1 DEF SessionType
      <3> QED BY <3>3, <3>4, <3>5, <3>6
    <2> QED BY <2>1, <2>2
  <1>6. CASE SetUp(b) \/ Changed(b)
    BY <1>5, <1>6 DEF SetUp, Changed
  <1>7. CASE RevokeAll(b)
    <2>1. /\ \A c \in Browsers : tokens'[c] = None
          /\ UNCHANGED <<changes, kept>>
          /\ \A c \in Browsers : request'[c].since = request[c].since
      BY <1>7 DEF RevokeAll, NewSessions, Goto, SessionType, password
    <2> QED BY <2>1 DEF SessionType, Follows
  <1> QED BY <1>3, <1>4, <1>6, <1>7 DEF Serve

LEMMA SessionInv_Next ==
  ASSUME TypeOK, SessionInv, [Next]_vars
  PROVE  SessionInv'
  <1>1. SessionType
    BY SessionTyped
  <1>2. \A c \in Browsers : Follows(c)
    BY DEF SessionInv, SessionsFollowPassword, Follows
  <1>3. SUFFICES /\ kept' <= changes'
                 /\ \A c \in Browsers : tokens'[c] # None => tokens'[c].since <= changes'
                 /\ \A c \in Browsers : request'[c].since <= changes'
                 /\ \A c \in Browsers : Follows(c)'
    BY DEF SessionInv, SessionsFollowPassword, Follows
  <1>4. ASSUME NEW b \in Browsers, Login(b) \/ ChangePassword(b) \/ Setup(b)
        PROVE  /\ kept' <= changes'
               /\ \A c \in Browsers : tokens'[c] # None => tokens'[c].since <= changes'
               /\ \A c \in Browsers : request'[c].since <= changes'
               /\ \A c \in Browsers : Follows(c)'
    <2>1. /\ request[b].pc = "idle" /\ UNCHANGED <<changes, kept, tokens>>
          /\ request'[b].since = changes
          /\ \A c \in Browsers \ {b} : request'[c] = request[c]
      <3>1. PICK op, to : /\ request[b] = Idle
              /\ request' = [request EXCEPT ![b] = [op |-> op, pc |-> to, since |-> changes]]
        BY <1>4 DEF Login, ChangePassword, Setup, Begin
      <3>2. UNCHANGED <<changes, kept, tokens>>
        BY <1>4 DEF Login, ChangePassword, Setup, password
      <3> QED BY <1>1, <3>1, <3>2 DEF Idle, SessionType
    <2>2. \A c \in Browsers : At(c, "revoke") => request'[c] = request[c]
      BY <2>1 DEF At
    <2>3. \A c \in Browsers : Follows(c)'
      BY <1>2, <2>1, <2>2, Follows_Kept
    <2>4. \A c \in Browsers : request'[c].since <= changes'
      BY <1>1, <2>1 DEF SessionType
    <2> QED BY <1>1, <2>1, <2>3, <2>4 DEF SessionType
  <1>5. ASSUME NEW b \in Browsers, Logout(b)
        PROVE  /\ kept' <= changes'
               /\ \A c \in Browsers : tokens'[c] # None => tokens'[c].since <= changes'
               /\ \A c \in Browsers : request'[c].since <= changes'
               /\ \A c \in Browsers : Follows(c)'
    <2>1. /\ UNCHANGED <<changes, kept, request>> /\ tokens'[b] = None
          /\ \A c \in Browsers \ {b} : tokens'[c] = tokens[c]
      BY <1>1, <1>5 DEF Logout, password, SessionType
    <2>2. \A c \in Browsers \ {b} : Follows(c)'
      BY <1>2, <2>1, Follows_Kept
    <2>3. Follows(b)'
      BY <2>1 DEF Follows
    <2> QED BY <1>1, <2>1, <2>2, <2>3 DEF SessionType
  <1>6. CASE Clear
    <2>1. changes' = changes + 1 /\ kept' = changes' /\ UNCHANGED <<tokens, request>>
      BY <1>6 DEF Clear
    <2>2. \A c \in Browsers : Follows(c)'
      BY <2>1 DEF Follows
    <2> QED BY <1>1, <2>1, <2>2 DEF SessionType
  <1>7. CASE Restart
    <2>1. /\ \A c \in Browsers : tokens'[c] = None /\ request'[c].since = 0
          /\ changes' \in {changes, changes + 1} /\ kept' = kept
      BY <1>7 DEF Restart, NewSessions, Idle
    <2>2. \A c \in Browsers : Follows(c)'
      BY <2>1 DEF Follows
    <2> QED BY <1>1, <2>1, <2>2 DEF SessionType
  <1>8. CASE UNCHANGED <<changes, kept, tokens, request>>
    <2>1. \A c \in Browsers : Follows(c)'
      BY <1>2, <1>8, Follows_Kept
    <2> QED BY <1>1, <1>8, <2>1 DEF SessionType
  <1> QED BY <1>1, <1>2, <1>4, <1>5, <1>6, <1>7, <1>8, Session_Serve
          DEF Next, vars, password, Tick

-----------------------------------------------------------------------------
(* The lock *)

LEMMA GuessingType ==
  /\ IsFiniteSet(Guessing) /\ Cardinality(Guessing) \in Nat
  /\ Cardinality(Browsers) \in Nat /\ Cardinality(Browsers) >= 1
  /\ Cardinality(Guessing) <= Cardinality(Browsers)
  <1>1. Guessing \in SUBSET Browsers
    BY DEF Guessing
  <1>2. Cardinality(Browsers) \in Nat /\ Cardinality(Browsers) # 0
    BY AccessAssumption, FS_CardinalityType, FS_EmptySet
  <1> QED BY <1>1, <1>2, AccessAssumption, FS_Subset, FS_CardinalityType

LEMMA GuessingShrinks ==
  ASSUME Guessing' \subseteq Guessing
  PROVE  /\ Cardinality(Guessing') \in Nat /\ Cardinality(Guessing') <= Cardinality(Guessing)
         /\ \A b : b \in Guessing /\ b \notin Guessing' =>
              Cardinality(Guessing') <= Cardinality(Guessing) - 1
  <1> DEFINE G == Guessing
             H == Guessing'
  <1>1. IsFiniteSet(G) /\ Cardinality(G) \in Nat
    BY GuessingType
  <1> HIDE DEF G, H
  <1>2. H \in SUBSET G
    BY DEF G, H
  <1>3. Cardinality(H) \in Nat /\ Cardinality(H) <= Cardinality(G)
    BY <1>1, <1>2, FS_Subset, FS_CardinalityType
  <1>4. ASSUME NEW b, b \in G, b \notin H PROVE Cardinality(H) <= Cardinality(G) - 1
    <2>1. IsFiniteSet(G \ {b}) /\ Cardinality(G \ {b}) = Cardinality(G) - 1
      BY <1>1, <1>4, FS_RemoveElement
    <2>2. H \in SUBSET (G \ {b})
      BY <1>2, <1>4
    <2> QED BY <2>1, <2>2, FS_Subset
  <1> QED BY <1>3, <1>4 DEF G, H

(* While the address is locked, nobody is let in. *)
LEMMA Guessing_Step ==
  ASSUME TypeOK, [Next]_vars
  PROVE  \/ Guessing' \subseteq Guessing
         \/ \E b \in Browsers : Login(b) \/ ChangePassword(b)
  <1>1. request \in [Browsers -> Request]
    BY DEF TypeOK
  <1>2. ASSUME NEW b \in Browsers, \A c \in Browsers \ {b} : request'[c] = request[c],
               request'[b].pc \in {"compare", "fail"} => request[b].pc \in {"compare", "fail"}
        PROVE  Guessing' \subseteq Guessing
    BY <1>2 DEF Guessing, At
  <1>3. ASSUME NEW b \in Browsers, Serve(b) PROVE Guessing' \subseteq Guessing
    <2>1. \/ \E to : request' = [request EXCEPT ![b].pc = to]
          \/ request' = [request EXCEPT ![b] = Idle]
          \/ \E to, since : request' = [request EXCEPT ![b].since = since, ![b].pc = to]
          \/ \E to, since : request' = [request EXCEPT ![b].pc = to, ![b].since = since]
      BY <1>3 DEF Serve, Matches, loginFailed, loginSucceeded, Grant, SetUp, Changed, Set,
                  RevokeAll, Goto, Finish
    <2>2. \A c \in Browsers \ {b} : request'[c] = request[c]
      BY <1>1, <2>1
    <2>3. CASE Matches(b)
      BY <1>2, <2>2, <2>3 DEF Matches, At
    <2>4. CASE ~Matches(b)
      <3>1. request'[b].pc \notin {"compare", "fail"}
        BY <1>1, <1>3, <2>4
           DEF Serve, loginFailed, loginSucceeded, Grant, SetUp, Changed, Set, RevokeAll,
               Goto, Finish, Idle, Request
      <3> QED BY <1>2, <2>2, <3>1
    <2> QED BY <2>3, <2>4
  <1>4. ASSUME NEW b \in Browsers, Setup(b) PROVE Guessing' \subseteq Guessing
    <2>1. request' = [request EXCEPT ![b] = [op |-> "setup", pc |-> "set", since |-> changes]]
      BY <1>4 DEF Setup, Begin
    <2> QED BY <1>1, <1>2, <2>1
  <1>5. CASE Restart
    BY <1>5 DEF Restart, NewSessions, Idle, Guessing, At
  <1>6. CASE UNCHANGED request
    BY <1>6 DEF Guessing, At
  <1> QED BY <1>3, <1>4, <1>5, <1>6 DEF Next, vars, Logout, Clear, Tick

LEMMA Lock_Failed ==
  ASSUME TypeOK, LockInv, [Next]_vars, NEW b \in Browsers, loginFailed(b)
  PROVE  LockInv'
  <1> DEFINE r == IF attempts = None THEN Fresh ELSE attempts
  <1>1. /\ r \in Attempts /\ attempts' = Counted(r) /\ shut' = shut /\ shut \in Nat
        /\ Locked = (r.locked > 0)
    BY FreshType DEF loginFailed, history, TypeOK, Locked
  <1>2. attempts' # None /\ attempts' \in Attempts
    BY <1>1, CountedIs, AttemptsType
  <1>3. b \in Guessing /\ b \notin Guessing' /\ Guessing' \subseteq Guessing
    <2>1. request'[b] = Idle /\ \A c \in Browsers \ {b} : request'[c] = request[c]
      BY DEF loginFailed, Finish, TypeOK
    <2> QED BY <2>1 DEF loginFailed, Guessing, At, Idle
  <1>4. /\ Cardinality(Guessing') \in Nat /\ Cardinality(Guessing) \in Nat
        /\ Cardinality(Guessing') <= Cardinality(Guessing) - 1
    BY <1>3, GuessingShrinks, GuessingType
  <1>5. r.failures \in Nat /\ r.locked \in Int
    BY <1>1, AttemptsType, ConstantsType
  <1>6. CASE /\ attempts'.locked = r.locked /\ attempts'.failures <= r.failures + 1
    <2>1. Locked' = Locked
      BY <1>1, <1>2, <1>6 DEF Locked
    <2>2. CASE ~Locked
      BY <1>1, <2>1, <2>2 DEF LockInv
    <2>3. CASE Locked
      <3>1. attempts = r
        BY <2>3 DEF Locked
      <3>2. PICK j \in Nat : LockedAgain(j)
        BY <2>3 DEF LockInv
      <3> DEFINE p == j * MaxLoginFailures
      <3>3. p \in Nat
        BY ConstantsType
      <3>4. attempts'.failures \in Nat
        BY <1>2, AttemptsType, ConstantsType
      <3>5. p + r.failures + Cardinality(Guessing) <= Cardinality(Browsers) - 1
        BY <3>1, <3>2 DEF LockedAgain
      <3> HIDE DEF p, r
      <3>6. p + attempts'.failures + Cardinality(Guessing') <= Cardinality(Browsers) - 1
        BY <1>4, <1>5, <1>6, <3>3, <3>4, <3>5, GuessingType
      <3>7. shut' + attempts'.locked <= LoginLockout * (1 + j)
        BY <1>1, <1>6, <3>1, <3>2 DEF LockedAgain
      <3>8. LockedAgain(j)'
        BY <3>6, <3>7 DEF LockedAgain, p
      <3> QED BY <2>1, <2>3, <3>8 DEF LockInv
    <2> QED BY <2>2, <2>3
  <1>7. CASE /\ attempts'.locked = LoginLockout /\ attempts'.failures = 0
             /\ MaxLoginFailures <= r.failures + 1
    <2>1. Locked'
      BY <1>2, <1>7, ConstantsType DEF Locked
    <2>2. CASE ~Locked
      <3>1. shut' + attempts'.locked <= LoginLockout * (1 + 0)
        BY <1>1, <1>7, <2>2, ConstantsType DEF LockInv
      <3>2. 0 * MaxLoginFailures + attempts'.failures + Cardinality(Guessing')
              <= Cardinality(Browsers) - 1
        BY <1>4, <1>7, ConstantsType, GuessingType
      <3>3. LockedAgain(0)'
        BY <3>1, <3>2 DEF LockedAgain
      <3> QED BY <2>1, <3>3 DEF LockInv
    <2>3. CASE Locked
      <3>1. attempts = r
        BY <2>3 DEF Locked
      <3>2. PICK j \in Nat : LockedAgain(j)
        BY <2>3 DEF LockInv
      <3> DEFINE p == j * MaxLoginFailures
                 q == LoginLockout * (1 + j)
      <3>3. /\ p \in Nat /\ q \in Nat
            /\ (j + 1) * MaxLoginFailures = p + MaxLoginFailures
            /\ LoginLockout * (1 + (j + 1)) = q + LoginLockout
        BY ConstantsType
      <3>4. /\ p + r.failures + Cardinality(Guessing) <= Cardinality(Browsers) - 1
            /\ shut + r.locked <= q
        BY <3>1, <3>2 DEF LockedAgain
      <3> HIDE DEF p, q, r
      <3>5. p + MaxLoginFailures + 0 + Cardinality(Guessing') <= Cardinality(Browsers) - 1
        BY <1>4, <1>5, <1>7, <3>3, <3>4, GuessingType, ConstantsType
      <3>6. shut + LoginLockout <= q + LoginLockout
        <4>1. r.locked > 0
          BY <1>1, <2>3
        <4> QED BY <1>1, <1>5, <3>3, <3>4, <4>1, ConstantsType
      <3>7. LockedAgain(j + 1)'
        BY <1>1, <1>7, <3>3, <3>5, <3>6 DEF LockedAgain
      <3>8. j + 1 \in Nat
        OBVIOUS
      <3> QED BY <2>1, <3>7, <3>8 DEF LockInv
    <2> QED BY <2>2, <2>3
  <1> HIDE DEF r
  <1> QED BY <1>1, <1>6, <1>7, CountedIs

LEMMA LockInv_Next ==
  ASSUME TypeOK, LockInv, [Next]_vars
  PROVE  LockInv'
  <1>1. attempts \in Attempts \cup {None} /\ shut \in Nat
    BY DEF TypeOK
  <1>2. CASE Tick
    <2>1. CASE ~Locked
      <3>1. attempts # None => attempts.locked \in -1..LoginLockout /\ ~(attempts.locked > 0)
        BY <1>1, <2>1, AttemptsType DEF Locked
      <3>2. attempts # None => ~(Less(attempts.locked) > 0)
        BY <3>1, ConstantsType DEF Less, Past
      <3>3. attempts' # None => attempts # None /\ attempts'.locked = Less(attempts.locked)
        BY <1>1, <1>2 DEF Tick, Attempts
      <3>4. ~Locked'
        BY <3>2, <3>3 DEF Locked
      <3> QED BY <1>2, <3>4 DEF Tick, LockInv
    <2>2. CASE Locked
      <3>1. attempts # None /\ attempts \in Attempts /\ attempts.locked > 0
        BY <1>1, <2>2 DEF Locked
      <3>2. /\ attempts'.locked = attempts.locked - 1 /\ attempts'.failures = attempts.failures
            /\ attempts.locked \in Nat
        <4>1. attempts' = [attempts EXCEPT !.window = Less(@), !.locked = Less(@)]
          BY <1>2, <3>1 DEF Tick
        <4>2. Less(attempts.locked) = attempts.locked - 1 /\ attempts.locked \in Nat
          BY <3>1, AttemptsType, ConstantsType, LessType
        <4> QED BY <3>1, <4>1, <4>2 DEF Attempts
      <3>3. CASE Locked'
        <4>1. shut' = shut + 1
          BY <1>2, <3>3 DEF Tick
        <4>2. Guessing' = Guessing
          BY <1>2 DEF Tick, Guessing, At
        <4>3. PICK j \in Nat : LockedAgain(j)
          BY <2>2 DEF LockInv
        <4>4. shut' + attempts'.locked = shut + attempts.locked
          BY <1>1, <3>2, <4>1
        <4>5. LockedAgain(j)'
          BY <3>2, <4>2, <4>3, <4>4 DEF LockedAgain
        <4> QED BY <3>3, <4>5 DEF LockInv
      <3>4. CASE ~Locked'
        BY <1>2, <3>4 DEF Tick, LockInv
      <3> QED BY <3>3, <3>4
    <2> QED BY <2>1, <2>2
  <1>3. ASSUME UNCHANGED <<attempts, shut>>, Guessing' \subseteq Guessing PROVE LockInv'
    <2>1. Locked' = Locked
      BY <1>3 DEF Locked
    <2>2. CASE ~Locked
      BY <1>3, <2>1, <2>2 DEF LockInv
    <2>3. CASE Locked
      <3>1. PICK j \in Nat : LockedAgain(j)
        BY <2>3 DEF LockInv
      <3>2. /\ Cardinality(Guessing') <= Cardinality(Guessing)
            /\ Cardinality(Guessing') \in Nat /\ Cardinality(Guessing) \in Nat
        BY <1>3, GuessingShrinks, GuessingType
      <3>3. attempts.failures \in Nat
        BY <1>1, <2>3, AttemptsType, ConstantsType DEF Locked
      <3> DEFINE p == j * MaxLoginFailures
      <3>4. p \in Nat /\ p + attempts.failures + Cardinality(Guessing) <= Cardinality(Browsers) - 1
        BY <3>1, ConstantsType DEF LockedAgain
      <3> HIDE DEF p
      <3>5. p + attempts.failures + Cardinality(Guessing') <= Cardinality(Browsers) - 1
        BY <3>2, <3>3, <3>4, GuessingType
      <3>6. LockedAgain(j)'
        BY <1>3, <3>1, <3>5 DEF LockedAgain, p
      <3> QED BY <2>1, <2>3, <3>6 DEF LockInv
    <2> QED BY <2>2, <2>3
  <1>4. ASSUME NEW b \in Browsers, Login(b) \/ ChangePassword(b) PROVE LockInv'
    <2>1. ~Locked /\ attempts' = Pruned /\ shut' = shut
      BY <1>4 DEF Login, ChangePassword, loginAllowed, history
    <2>2. ~Locked'
      BY <2>1 DEF Locked, Pruned
    <2> QED BY <2>1, <2>2 DEF LockInv
  <1>5. CASE attempts' = None /\ shut' = 0
    BY <1>5 DEF LockInv, Locked
  <1>6. \/ Tick \/ UNCHANGED <<attempts, shut>> \/ (attempts' = None /\ shut' = 0)
        \/ \E b \in Browsers : Login(b) \/ ChangePassword(b) \/ loginFailed(b)
    BY DEF Next, vars, history, Serve, Matches, loginSucceeded, Grant, SetUp, Changed, Set,
           RevokeAll, Setup, Logout, Clear, Restart, NewSessions
  <1> QED BY <1>2, <1>3, <1>4, <1>5, <1>6, Lock_Failed, Guessing_Step

-----------------------------------------------------------------------------
(* Sums are cardinalities *)

(* A set of numbers that has 0 and with every number the next has them     *)
(* all: there is no least one outside.                                     *)
LEMMA SetInduction ==
  ASSUME NEW T, 0 \in T, \A n \in Nat : n \in T => n + 1 \in T
  PROVE  Nat \subseteq T
  <1> DEFINE U == Nat \ T
  <1>1. SUFFICES ASSUME U # {} PROVE FALSE
    OBVIOUS
  <1>2. IsWellFoundedOn(OpToRel(<, Nat), Nat)
    BY NatLessThanWellFounded
  <1>3. PICK x \in U : \A y \in U : ~(<<y, x>> \in OpToRel(<, Nat))
    <2>1. U \subseteq Nat
      OBVIOUS
    <2> HIDE DEF U
    <2> QED BY <1>1, <1>2, <2>1, WFMin
  <1>4. x - 1 \in U
    OBVIOUS
  <1>5. <<x - 1, x>> \in OpToRel(<, Nat)
    <2>1. OpToRel(<, Nat) = {ss \in Nat \X Nat : ss[1] < ss[2]}
      BY DEF OpToRel
    <2>2. <<x - 1, x>> \in Nat \X Nat /\ x - 1 < x
      BY <1>4
    <2> QED BY <2>1, <2>2
  <1> QED BY <1>3, <1>4, <1>5

(* The wrong passwords of these ages, each a pair. *)
Pairs(s) == {p \in s \X Nat : p[2] \in 1..wrong[p[1]]}

WrongType == wrong \in [Ages -> Nat]

(* One age more adds as many pairs as wrong says. *)
LEMMA PairsOfOneMore ==
  ASSUME WrongType, NEW s \in SUBSET Ages, NEW x \in Ages \ s, IsFiniteSet(Pairs(s))
  PROVE  /\ IsFiniteSet(Pairs(s \cup {x}))
         /\ Cardinality(Pairs(s \cup {x})) = wrong[x] + Cardinality(Pairs(s))
  <1> DEFINE new == {x} \X (1..wrong[x])
  <1>1. wrong[x] \in Nat
    BY DEF WrongType
  <1>2. IsFiniteSet(new) /\ Cardinality(new) = wrong[x]
    <2>1. IsFiniteSet({x}) /\ Cardinality({x}) = 1
      BY FS_Singleton
    <2>2. IsFiniteSet(1..wrong[x]) /\ Cardinality(1..wrong[x]) = wrong[x]
      <3>1. /\ IsFiniteSet(1..wrong[x])
            /\ Cardinality(1..wrong[x]) = IF 1 > wrong[x] THEN 0 ELSE wrong[x] - 1 + 1
        BY <1>1, FS_Interval, SMTT(30)
      <3> QED BY <1>1, <3>1
    <2>3. IsFiniteSet(new) /\ Cardinality(new) = Cardinality({x}) * Cardinality(1..wrong[x])
      BY <2>1, <2>2, FS_Product
    <2> QED BY <1>1, <2>1, <2>2, <2>3
  <1>3. Pairs(s \cup {x}) = Pairs(s) \cup new
    BY <1>1 DEF Pairs
  <1>4. Pairs(s) \cap new = {}
    BY DEF Pairs
  <1> HIDE DEF new
  <1>5. /\ IsFiniteSet(Pairs(s) \cup new)
        /\ Cardinality(Pairs(s) \cup new)
             = Cardinality(Pairs(s)) + Cardinality(new) - Cardinality({})
    BY <1>2, <1>4, FS_Union
  <1>6. Cardinality({}) = 0 /\ Cardinality(Pairs(s)) \in Nat
    BY FS_EmptySet, FS_CardinalityType
  <1>7. Cardinality(Pairs(s) \cup new) = Cardinality(Pairs(s)) + wrong[x] - 0
    BY <1>2, <1>5, <1>6, Zenon
  <1>8. /\ IsFiniteSet(Pairs(s \cup {x}))
        /\ Cardinality(Pairs(s \cup {x})) = Cardinality(Pairs(s)) + wrong[x] - 0
    BY <1>3, <1>5, <1>7, Zenon
  <1>9. Cardinality(Pairs(s)) + wrong[x] - 0 = wrong[x] + Cardinality(Pairs(s))
    BY <1>1, <1>6
  <1> QED BY <1>8, <1>9, Zenon

(* There are finitely many pairs. *)
LEMMA PairsAreFinite ==
  ASSUME WrongType, NEW s \in SUBSET Ages
  PROVE  IsFiniteSet(Pairs(s)) /\ Cardinality(Pairs(s)) \in Nat
  <1> DEFINE T == {n \in Nat : n > LoginWindow \/ IsFiniteSet(Pairs(0..(n - 1)))}
  <1>1. 0 \in T
    <2>1. Pairs(0..(0 - 1)) = {}
      BY DEF Pairs
    <2> QED BY <2>1, FS_EmptySet
  <1>2. ASSUME NEW n \in Nat, n \in T PROVE n + 1 \in T
    <2>1. CASE n + 1 > LoginWindow
      BY <2>1
    <2>2. CASE ~(n + 1 > LoginWindow)
      <3>1. n \in Ages \ (0..(n - 1)) /\ 0..(n - 1) \in SUBSET Ages
        BY <2>2, ConstantsType DEF Ages
      <3>2. IsFiniteSet(Pairs(0..(n - 1)))
        BY <1>2, <2>2, ConstantsType
      <3>3. IsFiniteSet(Pairs((0..(n - 1)) \cup {n}))
        BY <3>1, <3>2, PairsOfOneMore
      <3>4. (0..(n - 1)) \cup {n} = 0..((n + 1) - 1)
        OBVIOUS
      <3>5. IsFiniteSet(Pairs(0..((n + 1) - 1)))
        BY <3>3, <3>4, Zenon
      <3> QED BY <3>5
    <2> QED BY <2>1, <2>2
  <1>3. LoginWindow \in T
    <2> HIDE DEF T
    <2> QED BY <1>1, <1>2, SetInduction, ConstantsType
  <1>4. IsFiniteSet(Pairs(Ages))
    BY <1>3, ConstantsType DEF Ages
  <1>5. Pairs(s) \in SUBSET Pairs(Ages)
    BY DEF Pairs
  <1> QED BY <1>4, <1>5, FS_Subset, FS_CardinalityType

(* An age taken away. *)
LEMMA PairsOfOneLess ==
  ASSUME WrongType, NEW s \in SUBSET Ages, NEW x \in s
  PROVE  Cardinality(Pairs(s)) = wrong[x] + Cardinality(Pairs(s \ {x}))
  <1>1. s \ {x} \in SUBSET Ages /\ x \in Ages \ (s \ {x}) /\ (s \ {x}) \cup {x} = s
    OBVIOUS
  <1>2. IsFiniteSet(Pairs(s \ {x}))
    BY <1>1, PairsAreFinite
  <1>3. Cardinality(Pairs((s \ {x}) \cup {x})) = wrong[x] + Cardinality(Pairs(s \ {x}))
    BY <1>1, <1>2, PairsOfOneMore
  <1> QED BY <1>1, <1>3, Zenon

(* What MapThenSumSet computes, and the only function that does. *)
Adds(i) == i = [s \in SUBSET Ages |->
  IF s = {} THEN 0
  ELSE wrong[CHOOSE x \in s : TRUE] + i[s \ {CHOOSE x \in s : TRUE}]]

LEMMA AddsExists ==
  ASSUME WrongType
  PROVE  \E i : Adds(i)
  <1> DEFINE g == [s \in SUBSET Ages |-> Cardinality(Pairs(s))]
  <1>1. ASSUME NEW s \in SUBSET Ages
        PROVE  g[s] = IF s = {} THEN 0
                 ELSE wrong[CHOOSE x \in s : TRUE] + g[s \ {CHOOSE x \in s : TRUE}]
    <2>1. CASE s = {}
      <3>1. Pairs(s) = {}
        BY <2>1 DEF Pairs
      <3> QED BY <2>1, <3>1, FS_EmptySet
    <2>2. CASE s # {}
      <3> DEFINE x == CHOOSE x \in s : TRUE
      <3>1. x \in s
        BY <2>2
      <3> HIDE DEF x
      <3>2. Cardinality(Pairs(s)) = wrong[x] + Cardinality(Pairs(s \ {x}))
        BY <3>1, PairsOfOneLess
      <3>3. g[s] = wrong[x] + g[s \ {x}]
        BY <3>2
      <3> QED BY <2>2, <3>3 DEF x
    <2> QED BY <2>1, <2>2
  <1> HIDE DEF g
  <1>2. g = [s \in SUBSET Ages |-> g[s]]
    BY DEF g
  <1>3. Adds(g)
    BY <1>1, <1>2 DEF Adds
  <1> QED BY <1>3

LEMMA SumIsCardinality ==
  ASSUME WrongType, NEW i, Adds(i), NEW s \in SUBSET Ages
  PROVE  i[s] = Cardinality(Pairs(s))
  <1> DEFINE T == {n \in Nat : \A t \in SUBSET Ages : Cardinality(t) = n =>
                                 i[t] = Cardinality(Pairs(t))}
  <1>1. ASSUME NEW t \in SUBSET Ages
        PROVE  IsFiniteSet(t) /\ Cardinality(t) \in Nat
    <2>1. IsFiniteSet(Ages)
      BY FS_Interval, ConstantsType DEF Ages
    <2> QED BY <2>1, FS_Subset, FS_CardinalityType
  <1>2. i[{}] = 0 /\ \A t \in SUBSET Ages : t # {} =>
          \E x \in t : i[t] = wrong[x] + i[t \ {x}]
    BY DEF Adds
  <1>3. 0 \in T
    <2>1. ASSUME NEW t \in SUBSET Ages, Cardinality(t) = 0
          PROVE  i[t] = Cardinality(Pairs(t))
      <3>1. t = {}
        BY <1>1, <2>1, FS_EmptySet
      <3>2. Pairs(t) = {}
        BY <3>1 DEF Pairs
      <3> QED BY <1>2, <3>1, <3>2, FS_EmptySet
    <2> QED BY <2>1
  <1>4. ASSUME NEW n \in Nat, n \in T PROVE n + 1 \in T
    <2>1. ASSUME NEW t \in SUBSET Ages, Cardinality(t) = n + 1
          PROVE  i[t] = Cardinality(Pairs(t))
      <3>1. t # {}
        BY <2>1, FS_EmptySet
      <3>2. PICK x \in t : i[t] = wrong[x] + i[t \ {x}]
        BY <1>2, <3>1
      <3>3. Cardinality(t \ {x}) = n
        <4>1. Cardinality(t \ {x}) = Cardinality(t) - 1
          BY <1>1, FS_RemoveElement
        <4> QED BY <2>1, <4>1
      <3>4. i[t \ {x}] = Cardinality(Pairs(t \ {x}))
        BY <1>4, <3>3
      <3>5. Cardinality(Pairs(t)) = wrong[x] + Cardinality(Pairs(t \ {x}))
        BY PairsOfOneLess
      <3> QED BY <3>2, <3>4, <3>5
    <2> QED BY <2>1
  <1>5. Cardinality(s) \in T
    <2>1. Nat \subseteq T
      <3> HIDE DEF T
      <3> QED BY <1>3, <1>4, SetInduction
    <2> QED BY <1>1, <2>1
  <1> QED BY <1>5

(* So the sum of GuessesAreBounded counts what is recent. *)
LEMMA WrongCounts ==
  ASSUME WrongType
  PROVE  MapThenSumSet(LAMBDA age : wrong[age], Ages) = Cardinality(Recent(LoginWindow))
  <1> DEFINE i == CHOOSE j : Adds(j)
  <1>1. MapThenSumSet(LAMBDA age : wrong[age], Ages) = i[Ages]
    BY DEF MapThenSumSet, MapThenFoldSet, Adds
  <1>2. Adds(i)
    BY AddsExists
  <1> HIDE DEF i
  <1>3. i[Ages] = Cardinality(Pairs(Ages))
    BY <1>2, SumIsCardinality
  <1>4. Pairs(Ages) = Recent(LoginWindow)
    BY ConstantsType DEF Pairs, Recent, Ages
  <1> QED BY <1>1, <1>3, <1>4

-----------------------------------------------------------------------------
(* What is recent *)

LEMMA RecentType ==
  ASSUME WrongType, NEW m \in Int
  PROVE  /\ IsFiniteSet(Recent(m)) /\ Cardinality(Recent(m)) \in Nat
         /\ m <= 0 => Cardinality(Recent(m)) = 0
         /\ m >= LoginWindow => Recent(m) = Recent(LoginWindow)
  <1>1. Recent(m) = Pairs({a \in Ages : a < m})
    BY DEF Recent, Pairs, Ages
  <1>2. IsFiniteSet(Recent(m)) /\ Cardinality(Recent(m)) \in Nat
    BY <1>1, PairsAreFinite
  <1>3. ASSUME m <= 0 PROVE Cardinality(Recent(m)) = 0
    <2>1. Recent(m) = {}
      BY <1>3 DEF Recent, Ages
    <2> QED BY <2>1, FS_EmptySet
  <1>4. ASSUME m >= LoginWindow PROVE Recent(m) = Recent(LoginWindow)
    BY <1>4, ConstantsType DEF Recent, Ages
  <1> QED BY <1>2, <1>3, <1>4

(* A comparison fails. *)
LEMMA RecentOneMore ==
  ASSUME WrongType, wrong' = [wrong EXCEPT ![0] = @ + 1], NEW m \in Int
  PROVE  /\ Cardinality(Recent(m)') \in Nat /\ Cardinality(Recent(m)) \in Nat
         /\ Cardinality(Recent(m)') <= Cardinality(Recent(m)) + 1
  <1> DEFINE R == Recent(m)
             Q == Recent(m)'
             p == <<0, wrong[0] + 1>>
  <1>1. Q \in SUBSET (R \cup {p})
    <2> SUFFICES ASSUME NEW q \in Q PROVE q \in R \cup {p}
      OBVIOUS
    <2>1. /\ q \in Ages \X Nat /\ q[1] < m /\ q[2] \in 1..wrong'[q[1]]
      BY DEF Recent
    <2>2. 0 \in Ages /\ wrong[0] \in Nat /\ wrong[q[1]] \in Nat /\ q = <<q[1], q[2]>>
      BY <2>1, ConstantsType DEF Ages, WrongType
    <2>3. CASE q[1] = 0
      <3>1. wrong'[q[1]] = wrong[0] + 1
        BY <2>2, <2>3 DEF WrongType
      <3>2. q[2] = wrong[0] + 1 \/ q[2] \in 1..wrong[q[1]]
        BY <2>1, <2>2, <2>3, <3>1
      <3> QED BY <2>1, <2>2, <2>3, <3>2 DEF Recent
    <2>4. CASE q[1] # 0
      <3>1. wrong'[q[1]] = wrong[q[1]]
        BY <2>1, <2>4 DEF WrongType
      <3> QED BY <2>1, <3>1 DEF Recent
    <2> QED BY <2>3, <2>4
  <1>2. IsFiniteSet(R) /\ Cardinality(R) \in Nat
    BY RecentType
  <1> HIDE DEF R, Q, p
  <1>3. /\ IsFiniteSet(R \cup {p}) /\ Cardinality(R \cup {p}) \in Nat
        /\ Cardinality(R \cup {p}) <= Cardinality(R) + 1
    <2>1. /\ IsFiniteSet(R \cup {p})
          /\ Cardinality(R \cup {p}) = IF p \in R THEN Cardinality(R) ELSE Cardinality(R) + 1
      BY <1>2, FS_AddElement
    <2> QED BY <1>2, <2>1
  <1>4. Cardinality(Q) <= Cardinality(R \cup {p}) /\ Cardinality(Q) \in Nat
    BY <1>1, <1>3, FS_Subset, FS_CardinalityType
  <1>5. Cardinality(Q) <= Cardinality(R) + 1
    BY <1>2, <1>3, <1>4
  <1> QED BY <1>2, <1>4, <1>5 DEF Q, R

(* Time goes on: what is recent was so before, and is a tick older. *)
LEMMA RecentAges ==
  ASSUME WrongType, NEW m \in Int,
         wrong' = [age \in Ages |-> IF age = 0 THEN 0 ELSE wrong[age - 1]]
  PROVE  /\ Cardinality(Recent(m)') \in Nat /\ Cardinality(Recent(m - 1)) \in Nat
         /\ Cardinality(Recent(m)') <= Cardinality(Recent(m - 1))
  <1> DEFINE R == Recent(m - 1)
             Q == Recent(m)'
             f == [q \in Q |-> <<q[1] - 1, q[2]>>]
  <1>1. ASSUME NEW q \in Q
        PROVE  /\ q = <<q[1], q[2]>> /\ q[1] \in Int
               /\ <<q[1] - 1, q[2]>> \in R
    <2>1. q \in Ages \X Nat /\ q[1] < m /\ q[2] \in 1..wrong'[q[1]]
      BY DEF Recent
    <2>2. q[1] \in Ages /\ q = <<q[1], q[2]>> /\ q[2] \in Nat
      BY <2>1
    <2>3. wrong'[q[1]] = IF q[1] = 0 THEN 0 ELSE wrong[q[1] - 1]
      BY <2>2
    <2>4. q[1] # 0
      BY <2>1, <2>3
    <2>5. q[1] \in Int /\ q[1] - 1 \in Ages /\ q[1] - 1 < m - 1
      BY <2>1, <2>2, <2>4, ConstantsType DEF Ages
    <2>6. <<q[1] - 1, q[2]>> \in Ages \X Nat /\ q[2] \in 1..wrong[q[1] - 1]
      BY <2>1, <2>2, <2>3, <2>4, <2>5
    <2> QED BY <2>2, <2>5, <2>6 DEF Recent
  <1>2. IsFiniteSet(R)
    BY RecentType
  <1> HIDE DEF R, Q
  <1>3. f \in [Q -> R]
    BY <1>1
  <1>4. ASSUME NEW q \in Q, NEW p \in Q, f[q] = f[p] PROVE q = p
    <2>1. q[1] - 1 = p[1] - 1 /\ q[2] = p[2]
      BY <1>4
    <2>2. q[1] \in Int /\ p[1] \in Int
      BY <1>1
    <2>3. q[1] = p[1]
      BY <2>1, <2>2
    <2>4. q = <<q[1], q[2]>> /\ p = <<p[1], p[2]>>
      BY <1>1
    <2> QED BY <2>1, <2>3, <2>4, Zenon
  <1> HIDE DEF f
  <1>5. f \in Injection(Q, R)
    BY <1>3, <1>4, Fun_IsInj
  <1>6. /\ Cardinality(Q) <= Cardinality(R)
        /\ Cardinality(Q) \in Nat /\ Cardinality(R) \in Nat
    BY <1>2, <1>5, FS_Injection, FS_CardinalityType
  <1> QED BY <1>6 DEF Q, R

-----------------------------------------------------------------------------
(* Guesses *)

LEMMA CountsType ==
  /\ Cardinality(Failing) \in Nat /\ Cardinality(Comparing) \in Nat
  /\ Cardinality(Browsers) \in Nat
  /\ Cardinality(Failing) + Cardinality(Comparing) <= Cardinality(Browsers)
  <1>1. Failing \in SUBSET Browsers /\ Comparing \in SUBSET Browsers
        /\ Failing \cap Comparing = {} /\ Failing \cup Comparing \in SUBSET Browsers
    BY DEF Failing, Comparing, At
  <1>2. /\ IsFiniteSet(Failing) /\ IsFiniteSet(Comparing) /\ IsFiniteSet(Browsers)
        /\ Cardinality(Failing \cup Comparing) <= Cardinality(Browsers)
    BY <1>1, FS_Subset, AccessAssumption
  <1>3. Cardinality(Failing \cup Comparing)
          = Cardinality(Failing) + Cardinality(Comparing) - Cardinality(Failing \cap Comparing)
    BY <1>2, FS_Union
  <1>4. Cardinality(Failing \cap Comparing) = 0
    BY <1>1, FS_EmptySet
  <1>5. /\ Cardinality(Failing) \in Nat /\ Cardinality(Comparing) \in Nat
        /\ Cardinality(Browsers) \in Nat
    BY <1>2, FS_CardinalityType
  <1> QED BY <1>2, <1>3, <1>4, <1>5

LEMMA RecordType ==
  ASSUME TypeOK
  PROVE  /\ Record \in Attempts /\ WrongType
         /\ Record.failures \in Nat /\ Record.failures <= MaxLoginFailures - 1
         /\ Record.window \in Int /\ Record.window >= -1 /\ Record.window <= LoginWindow
         /\ Record.locked \in Int /\ Record.locked >= -1 /\ Record.locked <= LoginLockout
         /\ Locked <=> Record.locked > 0
  <1>1. Record \in Attempts /\ WrongType
    BY FreshType DEF TypeOK, Record, WrongType
  <1>2. Locked <=> Record.locked > 0
    BY FreshType DEF Locked, Record
  <1>3. /\ Record.failures \in 0..(MaxLoginFailures - 1) /\ Record.window \in -1..LoginWindow
        /\ Record.locked \in -1..LoginLockout
    BY <1>1, AttemptsType
  <1> QED BY <1>1, <1>2, <1>3, ConstantsType

(* How many are recent in all: two windows without a lock, and what is to  *)
(* be counted.                                                             *)
LEMMA AllRecent ==
  ASSUME TypeOK, WindowsInv, ~Locked
  PROVE  Cardinality(Recent(LoginWindow)) <= 2 * (MaxLoginFailures - 1) + Cardinality(Failing)
  <1>1. LoginWindow \in Int /\ LoginWindow <= LoginLockout - Record.locked
    BY RecordType, ConstantsType
  <1>2. Cardinality(Recent(LoginWindow))
          <= MaxLoginFailures - 1 + (IF Record.window = Past THEN 0 ELSE Record.failures)
               + Cardinality(Failing)
    BY <1>1 DEF WindowsInv
  <1>3. Cardinality(Recent(LoginWindow)) \in Nat
    BY <1>1, RecordType, RecentType
  <1> QED BY <1>2, <1>3, RecordType, CountsType, ConstantsType

(* What Counted makes of the window. *)
LEMMA CountedWindow ==
  ASSUME NEW r \in Attempts
  PROVE  /\ Counted(r).window = IF r.window = Past THEN LoginWindow ELSE r.window
         /\ \/ Counted(r).locked = LoginLockout
            \/ /\ Counted(r).locked = r.locked
               /\ Counted(r).failures = IF r.window = Past THEN 1 ELSE r.failures + 1
  <1> DEFINE s == IF r.window = Past
                  THEN [r EXCEPT !.failures = 0, !.window = LoginWindow] ELSE r
  <1>1. r = [failures |-> r.failures, window |-> r.window, locked |-> r.locked]
    BY AttemptsType
  <1>2. s = [failures |-> IF r.window = Past THEN 0 ELSE r.failures,
             window |-> IF r.window = Past THEN LoginWindow ELSE r.window,
             locked |-> r.locked]
    <2>1. CASE r.window = Past
      <3>1. s = [r EXCEPT !.failures = 0, !.window = LoginWindow]
        BY <2>1
      <3> HIDE DEF s
      <3> QED BY <1>1, <2>1, <3>1
    <2>2. CASE r.window # Past
      BY <1>1, <2>2
    <2> QED BY <2>1, <2>2
  <1>3. Counted(r) = IF s.failures + 1 >= MaxLoginFailures
                     THEN [s EXCEPT !.failures = 0, !.locked = LoginLockout]
                     ELSE [s EXCEPT !.failures = @ + 1]
    BY DEF Counted
  <1> HIDE DEF s
  <1>4. \/ Counted(r) = [failures |-> 0, window |-> s.window, locked |-> LoginLockout]
        \/ Counted(r) = [failures |-> s.failures + 1, window |-> s.window, locked |-> s.locked]
    BY <1>2, <1>3
  <1> QED BY <1>2, <1>4

(* The requests that compare or fail, step by step. *)
LEMMA Guessers_Step ==
  ASSUME TypeOK, NEW b \in Browsers,
         \A c \in Browsers \ {b} : request'[c] = request[c]
  PROVE  /\ request'[b].pc \notin {"compare", "fail"} =>
              /\ Comparing' = Comparing \ {b} /\ Failing' = Failing \ {b}
         /\ request'[b].pc = "fail" =>
              /\ Comparing' = Comparing \ {b} /\ Failing' = Failing \cup {b}
  BY DEF Comparing, Failing, At

(* Whoever neither compares nor counts changes nothing. *)
LEMMA Guess_Quiet ==
  ASSUME TypeOK, GuessInv, UNCHANGED <<attempts, wrong>>, Failing' = Failing,
         Comparing' \subseteq Comparing
  PROVE  GuessInv'
  <1>1. \A m \in Int : Recent(m)' = Recent(m)
    BY DEF Recent
  <1>2. /\ Cardinality(Comparing)' <= Cardinality(Comparing)
        /\ Cardinality(Failing)' = Cardinality(Failing)
    <2> DEFINE C == Comparing
               D == Comparing'
    <2>1. D \in SUBSET C /\ IsFiniteSet(C)
      BY AccessAssumption, FS_Subset DEF Comparing
    <2> HIDE DEF C, D
    <2>2. Cardinality(D) <= Cardinality(C)
      BY <2>1, FS_Subset
    <2> QED BY <2>2 DEF C, D
  <1>3. Record' = Record /\ Locked' = Locked
    BY DEF Record, Locked
  <1>4. WindowInv' /\ WindowsInv'
    BY <1>1, <1>2, <1>3 DEF GuessInv, WindowInv, WindowsInv
  <1>5. LockedInv'
    <2>1. Cardinality(Comparing)' \in Nat
      BY AccessAssumption, FS_Subset, FS_CardinalityType DEF Comparing
    <2>2. Recent(LoginWindow)' = Recent(LoginWindow) /\ Cardinality(Recent(LoginWindow)) \in Nat
      BY <1>1, RecordType, RecentType, ConstantsType
    <2> QED BY <1>2, <1>3, <2>1, <2>2, CountsType, ConstantsType DEF GuessInv, LockedInv
  <1> QED BY <1>4, <1>5 DEF GuessInv

(* Nothing is left to be counted. *)
LEMMA Guess_Cleared ==
  ASSUME TypeOK', attempts' = None, wrong' = NoWrong
  PROVE  GuessInv'
  <1>1. \A m : Cardinality(Recent(m))' = 0
    <2>1. \A m : Recent(m)' = {}
      BY DEF Recent, NoWrong
    <2> QED BY <2>1, FS_EmptySet
  <1>2. Cardinality(Failing)' \in Nat /\ ~Locked'
    BY AccessAssumption, FS_Subset, FS_CardinalityType DEF Failing, Locked
  <1>3. Record'.window = Past /\ 0 <= MaxLoginFailures - 1 + 0 + Cardinality(Failing)'
    BY <1>2, ConstantsType DEF Record, Fresh
  <1> QED BY <1>1, <1>2, <1>3 DEF GuessInv, WindowInv, WindowsInv, LockedInv

(* A comparison fails: one more is recent, and one more is to be counted. *)
LEMMA Guess_Wrong ==
  ASSUME TypeOK, GuessInv, NEW b \in Browsers, At(b, "compare"), Goto(b, "fail"),
         wrong' = [wrong EXCEPT ![0] = @ + 1], attempts' = attempts
  PROVE  GuessInv'
  <1>1. request'[b].pc = "fail" /\ \A c \in Browsers \ {b} : request'[c] = request[c]
    BY DEF Goto, TypeOK, Request
  <1>2. /\ Comparing' = Comparing \ {b} /\ Failing' = Failing \cup {b}
        /\ b \in Comparing /\ b \notin Failing
    BY <1>1, Guessers_Step DEF Comparing, Failing, At
  <1>3. /\ Cardinality(Comparing') = Cardinality(Comparing) - 1
        /\ Cardinality(Failing') = Cardinality(Failing) + 1
    <2>1. IsFiniteSet(Comparing) /\ IsFiniteSet(Failing)
      BY AccessAssumption, FS_Subset DEF Comparing, Failing
    <2>2. Cardinality(Comparing \ {b}) = Cardinality(Comparing) - 1
      BY <1>2, <2>1, FS_RemoveElement
    <2>3. Cardinality(Failing \cup {b}) = Cardinality(Failing) + 1
      BY <1>2, <2>1, FS_AddElement
    <2> QED BY <1>2, <2>2, <2>3
  <1>4. \A m \in Int : /\ Cardinality(Recent(m)') \in Nat /\ Cardinality(Recent(m)) \in Nat
                       /\ Cardinality(Recent(m)') <= Cardinality(Recent(m)) + 1
    BY RecordType, RecentOneMore
  <1>5. Record' = Record /\ Locked' = Locked
    BY DEF Record, Locked
  <1>6. WindowInv'
    BY <1>3, <1>4, <1>5, RecordType, CountsType DEF GuessInv, WindowInv
  <1>7. WindowsInv'
    BY <1>3, <1>4, <1>5, RecordType, CountsType, ConstantsType DEF GuessInv, WindowsInv
  <1>8. LockedInv'
    BY <1>3, <1>4, <1>5, CountsType, ConstantsType DEF GuessInv, LockedInv
  <1> QED BY <1>6, <1>7, <1>8 DEF GuessInv

(* A failure is counted: it was one of those that fail. *)
LEMMA Guess_Counted ==
  ASSUME TypeOK, GuessInv, NEW b \in Browsers, loginFailed(b)
  PROVE  GuessInv'
  <1>1. /\ Record' = Counted(Record) /\ Record \in Attempts /\ wrong' = wrong
        /\ Counted(Record) \in Attempts /\ Counted(Record) # None
    <2>1. Record \in Attempts
      BY RecordType
    <2>2. Counted(Record) \in Attempts
      BY <2>1, CountedIs
    <2>3. Counted(Record) # None
      BY <2>2, AttemptsType
    <2> QED BY <2>1, <2>2, <2>3 DEF loginFailed, Record, history
  <1>2. /\ Comparing' = Comparing /\ Failing' = Failing \ {b} /\ b \in Failing
    <2>1. request'[b] = Idle /\ \A c \in Browsers \ {b} : request'[c] = request[c]
      BY DEF loginFailed, Finish, TypeOK
    <2>2. Comparing' = Comparing \ {b} /\ Failing' = Failing \ {b}
      BY <2>1, Guessers_Step DEF Idle
    <2> QED BY <2>2 DEF loginFailed, Failing, Comparing, At
  <1>3. Cardinality(Failing') = Cardinality(Failing) - 1 /\ Cardinality(Comparing') = Cardinality(Comparing)
    <2>1. IsFiniteSet(Failing)
      BY AccessAssumption, FS_Subset DEF Failing
    <2>2. Cardinality(Failing \ {b}) = Cardinality(Failing) - 1
      BY <1>2, <2>1, FS_RemoveElement
    <2> QED BY <1>2, <2>2
  <1>4. \A m \in Int : /\ Recent(m)' = Recent(m) /\ Cardinality(Recent(m)) \in Nat
                       /\ m <= 0 => Cardinality(Recent(m)) = 0
    BY <1>1, RecordType, RecentType DEF Recent
  <1>5. /\ Record'.window = IF Record.window = Past THEN LoginWindow ELSE Record.window
        /\ \/ Record'.locked = LoginLockout /\ Record'.failures \in Nat
           \/ /\ Record'.locked = Record.locked
              /\ Record'.failures = IF Record.window = Past THEN 1 ELSE Record.failures + 1
    <2>1. Counted(Record).failures \in Nat
      BY <1>1, AttemptsType, ConstantsType
    <2> QED BY <1>1, <2>1, CountedWindow
  <1>6. Locked' <=> Record'.locked > 0
    BY <1>1, FreshType DEF Locked, Record
  <1>7. CASE Record'.locked = LoginLockout /\ Record'.failures \in Nat
    <2>1. \A m \in Int : m <= LoginLockout - Record'.locked => Cardinality(Recent(m)') = 0
      BY <1>4, <1>7, ConstantsType
    <2>2. Cardinality(Failing') \in Nat
      BY <1>3, <1>2, CountsType, AccessAssumption, FS_Subset, FS_CardinalityType DEF Failing
    <2>3. WindowInv' /\ WindowsInv'
      BY <1>7, <2>1, <2>2, ConstantsType DEF WindowInv, WindowsInv
    <2>4. LockedInv'
      <3>1. CASE Locked
        BY <1>3, <1>4, <3>1, ConstantsType DEF GuessInv, LockedInv
      <3>2. CASE ~Locked
        <4>1. Cardinality(Recent(LoginWindow))
                <= 2 * (MaxLoginFailures - 1) + Cardinality(Failing)
          BY <3>2, AllRecent DEF GuessInv
        <4> QED BY <1>3, <1>4, <4>1, CountsType, ConstantsType DEF LockedInv
      <3> QED BY <3>1, <3>2
    <2> QED BY <2>3, <2>4 DEF GuessInv
  <1>8. CASE /\ Record'.locked = Record.locked
             /\ Record'.failures = IF Record.window = Past THEN 1 ELSE Record.failures + 1
    <2>1. LockedInv'
      BY <1>3, <1>4, <1>6, <1>8, RecordType, ConstantsType DEF GuessInv, LockedInv
    <2>2. CASE Record.window = Past
      <3>1. Record'.window = LoginWindow /\ Record'.window # Past /\ Record'.failures = 1
        BY <1>5, <1>8, <2>2, ConstantsType DEF Past
      <3>2. WindowInv'
        BY <1>2, <1>3, <1>4, <3>1, CountsType, ConstantsType DEF WindowInv
      <3>3. WindowsInv'
        BY <1>3, <1>4, <1>8, <2>2, <3>1, CountsType, ConstantsType DEF GuessInv, WindowsInv
      <3> QED BY <3>2, <3>3, <2>1 DEF GuessInv
    <2>3. CASE Record.window # Past
      <3>1. Record'.window = Record.window /\ Record'.failures = Record.failures + 1
        BY <1>5, <1>8, <2>3
      <3>2. WindowInv'
        BY <1>3, <1>4, <1>8, <2>3, <3>1, RecordType, CountsType DEF GuessInv, WindowInv
      <3>3. WindowsInv'
        BY <1>3, <1>4, <1>8, <2>3, <3>1, RecordType, CountsType, ConstantsType
           DEF GuessInv, WindowsInv
      <3> QED BY <3>2, <3>3, <2>1 DEF GuessInv
    <2> QED BY <2>2, <2>3
  <1> QED BY <1>5, <1>7, <1>8

(* A tick: what was recent gets older, and so do the window and the lock. *)
LEMMA Guess_Tick ==
  ASSUME TypeOK, GuessInv, Tick
  PROVE  GuessInv'
  <1>1. /\ Record'.failures = Record.failures
        /\ Record'.window = Less(Record.window) /\ Record'.locked = Less(Record.locked)
    <2>1. CASE attempts = None
      BY <2>1 DEF Tick, Record, Fresh, Less, Past
    <2>2. CASE attempts # None
      <3>1. attempts = [failures |-> attempts.failures, window |-> attempts.window,
                        locked |-> attempts.locked] /\ Record = attempts
        BY <2>2, AttemptsType DEF TypeOK, Record
      <3>2. attempts' = [failures |-> attempts.failures, window |-> Less(attempts.window),
                         locked |-> Less(attempts.locked)]
        BY <2>2, <3>1 DEF Tick
      <3>3. attempts' # None
        <4>1. /\ Less(attempts.window) \in Int /\ Less(attempts.locked) \in Int
              /\ attempts.failures \in Nat
          BY <3>1, RecordType DEF Less, Past
        <4>2. attempts' \in [failures: Nat, window: Int, locked: Int]
          BY <3>2, <4>1
        <4> QED BY <4>2, AccessAssumption
      <3> QED BY <3>1, <3>2, <3>3 DEF Record
    <2> QED BY <2>1, <2>2
  <1>2. \A m \in Int : /\ Cardinality(Recent(m)') \in Nat /\ Cardinality(Recent(m - 1)) \in Nat
                       /\ Cardinality(Recent(m)') <= Cardinality(Recent(m - 1))
    BY RecordType, RecentAges DEF Tick
  <1>3. \A m \in Int : m >= LoginWindow => Recent(m) = Recent(LoginWindow)
    BY RecordType, RecentType
  <1>4. Failing' = Failing /\ Comparing' = Comparing
    BY DEF Tick, Failing, Comparing, At
  <1>5. Locked' => Locked
    <2>1. Locked' => Record'.locked > 0
      BY FreshType DEF Locked, Record
    <2>2. Record'.locked > 0 => Record.locked > 0
      BY <1>1, RecordType DEF Less, Past
    <2> QED BY <2>1, <2>2, RecordType
  <1>6. WindowInv'
    <2> SUFFICES ASSUME Record'.window # Past, NEW m \in Int,
                        m <= LoginLockout - Record'.locked, m <= LoginWindow - Record'.window
                 PROVE  Cardinality(Recent(m)') <= Record'.failures + Cardinality(Failing')
      BY DEF WindowInv
    <2>1. /\ Record.window # Past /\ m - 1 \in Int /\ m - 1 <= LoginWindow - Record.window
          /\ m - 1 <= LoginLockout - Record.locked
      BY <1>1, RecordType, ConstantsType DEF Less, Past
    <2>2. Cardinality(Recent(m - 1)) <= Record.failures + Cardinality(Failing)
      BY <2>1 DEF GuessInv, WindowInv
    <2> QED BY <1>1, <1>2, <1>4, <2>2, RecordType, CountsType
  <1>7. WindowsInv'
    <2> SUFFICES ASSUME NEW m \in Int, m <= LoginLockout - Record'.locked
                 PROVE  Cardinality(Recent(m)') <= MaxLoginFailures - 1
                          + (IF Record'.window = Past THEN 0 ELSE Record'.failures)
                          + Cardinality(Failing')
      BY DEF WindowsInv
    <2>1. m - 1 \in Int /\ m - 1 <= LoginLockout - Record.locked
      BY <1>1, RecordType, ConstantsType DEF Less, Past
    <2>2. CASE Record.window = 0
      <3>1. Cardinality(Recent(m - 1)) <= Record.failures + Cardinality(Failing)
        <4>1. CASE m - 1 <= LoginWindow
          BY <2>1, <2>2, <4>1, ConstantsType DEF GuessInv, WindowInv, Past
        <4>2. CASE m - 1 >= LoginWindow
          <5>1. LoginWindow <= LoginLockout - Record.locked
            BY <2>1, <4>2, RecordType, ConstantsType
          <5>2. Cardinality(Recent(LoginWindow)) <= Record.failures + Cardinality(Failing)
            BY <2>2, <5>1, ConstantsType DEF GuessInv, WindowInv, Past
          <5>3. Recent(m - 1) = Recent(LoginWindow)
            BY <1>3, <2>1, <4>2
          <5> QED BY <5>2, <5>3
        <4> QED BY <2>1, <4>1, <4>2, ConstantsType
      <3>2. Record'.window = Past
        BY <1>1, <2>2 DEF Less, Past
      <3> QED BY <1>2, <1>4, <3>1, <3>2, RecordType, CountsType, ConstantsType
    <2>3. CASE Record.window # 0
      <3>1. Cardinality(Recent(m - 1)) <= MaxLoginFailures - 1
              + (IF Record.window = Past THEN 0 ELSE Record.failures) + Cardinality(Failing)
        BY <2>1 DEF GuessInv, WindowsInv
      <3>2. Record'.window = Past <=> Record.window = Past
        BY <1>1, <2>3, RecordType DEF Less, Past
      <3> QED BY <1>1, <1>2, <1>4, <3>1, <3>2, RecordType, CountsType, ConstantsType
    <2> QED BY <2>2, <2>3
  <1>8. LockedInv'
    <2>1. Cardinality(Recent(LoginWindow)') <= Cardinality(Recent(LoginWindow))
      <3>1. Cardinality(Recent(LoginWindow)') <= Cardinality(Recent(LoginWindow - 1))
        BY <1>2, ConstantsType
      <3>2. /\ Recent(LoginWindow - 1) \in SUBSET Recent(LoginWindow)
            /\ IsFiniteSet(Recent(LoginWindow))
        BY RecordType, RecentType, ConstantsType DEF Recent, Ages
      <3>3. Cardinality(Recent(LoginWindow - 1)) <= Cardinality(Recent(LoginWindow))
        BY <3>2, FS_Subset
      <3> QED BY <1>2, <3>1, <3>3, RecordType, RecentType, ConstantsType
    <2> QED BY <1>2, <1>4, <1>5, <2>1, RecordType, RecentType, CountsType, ConstantsType
            DEF GuessInv, LockedInv
  <1> QED BY <1>6, <1>7, <1>8 DEF GuessInv

(* Nobody is let in while the address is locked. *)
LEMMA Guess_LetIn ==
  ASSUME TypeOK, GuessInv, NEW b \in Browsers, Login(b) \/ ChangePassword(b)
  PROVE  GuessInv'
  <1>1. ~Locked /\ attempts' = Pruned /\ wrong' = wrong
    BY DEF Login, ChangePassword, loginAllowed, history
  <1>2. /\ Failing' = Failing
    <2>1. request[b] = Idle /\ \E op : request' = [request EXCEPT ![b] =
             [op |-> op, pc |-> "compare", since |-> changes]]
      BY DEF Login, ChangePassword, Begin
    <2> QED BY <2>1 DEF Failing, At, Idle, TypeOK
  <1>3. \A m \in Int : Recent(m)' = Recent(m)
    BY <1>1 DEF Recent
  <1>4. ~Locked'
    BY <1>1 DEF Locked, Pruned
  <1>5. CASE attempts' = attempts
    <2>1. Record' = Record
      BY <1>5 DEF Record
    <2> QED BY <1>2, <1>3, <1>4, <2>1 DEF GuessInv, WindowInv, WindowsInv, LockedInv
  <1>6. CASE attempts' = None /\ attempts # None /\ attempts.window = Past /\ attempts.locked = Past
    <2>1. Record'.window = Past /\ Record.window = Past /\ Record'.locked = Record.locked
      BY <1>6 DEF Record, Fresh, Past
    <2> QED BY <1>2, <1>3, <1>4, <2>1 DEF GuessInv, WindowInv, WindowsInv, LockedInv
  <1> QED BY <1>1, <1>5, <1>6 DEF Pruned

LEMMA GuessInv_Next ==
  ASSUME TypeOK, GuessInv, [Next]_vars
  PROVE  GuessInv'
  <1>1. ASSUME NEW b \in Browsers, UNCHANGED <<attempts, wrong>>,
               \A c \in Browsers \ {b} : request'[c] = request[c],
               request'[b].pc \notin {"compare", "fail"}, request[b].pc # "fail"
        PROVE  GuessInv'
    <2>1. Comparing' = Comparing \ {b} /\ Failing' = Failing \ {b}
      BY <1>1, Guessers_Step
    <2>2. b \notin Failing
      BY <1>1 DEF Failing, At
    <2> QED BY <1>1, <2>1, <2>2, Guess_Quiet
  <1>2. CASE UNCHANGED <<attempts, wrong, request>>
    BY <1>2, Guess_Quiet DEF Failing, Comparing, At
  <1>3. ASSUME NEW b \in Browsers, Serve(b) PROVE GuessInv'
    <2>1. CASE Matches(b)
      <3>1. CASE Goto(b, "fail") /\ wrong' = [wrong EXCEPT ![0] = @ + 1]
        BY <2>1, <3>1, Guess_Wrong DEF Matches
      <3>2. CASE /\ UNCHANGED history
                 /\ request' = [request EXCEPT ![b].since = changes,
                      ![b].pc = IF request[b].op = "login" THEN "grant" ELSE "succeed"]
        <4>1. /\ \A c \in Browsers \ {b} : request'[c] = request[c]
              /\ request'[b].pc \notin {"compare", "fail"} /\ request[b].pc # "fail"
          BY <2>1, <3>2 DEF TypeOK, Request, Matches, At
        <4> QED BY <1>1, <2>1, <3>2, <4>1 DEF Matches, history
      <3> QED BY <2>1, <3>1, <3>2 DEF Matches
    <2>2. CASE loginFailed(b)
      BY <2>2, Guess_Counted
    <2>3. CASE loginSucceeded(b)
      BY <2>3, Type_Next, Guess_Cleared DEF loginSucceeded
    <2>4. CASE Grant(b) \/ SetUp(b) \/ Changed(b) \/ RevokeAll(b)
      <3>1. /\ \A c \in Browsers \ {b} : request'[c] = request[c]
            /\ UNCHANGED <<attempts, wrong>>
            /\ request[b].pc # "fail"
        BY <2>4 DEF Grant, SetUp, Changed, Set, RevokeAll, Goto, Finish, At, history, TypeOK
      <3>2. request'[b].pc \notin {"compare", "fail"}
        BY <2>4 DEF Grant, SetUp, Changed, Set, RevokeAll, Goto, Finish, Idle, TypeOK, Request
      <3> QED BY <1>1, <3>1, <3>2
    <2> QED BY <1>3, <2>1, <2>2, <2>3, <2>4 DEF Serve
  <1>4. ASSUME NEW b \in Browsers, Setup(b) PROVE GuessInv'
    <2>1. request' = [request EXCEPT ![b] = [op |-> "setup", pc |-> "set", since |-> changes]]
          /\ request[b] = Idle
      BY <1>4 DEF Setup, Begin
    <2>2. /\ \A c \in Browsers \ {b} : request'[c] = request[c]
          /\ request'[b].pc = "set" /\ request[b].pc = "idle"
      BY <2>1 DEF TypeOK, Idle
    <2> QED BY <1>1, <1>4, <2>2 DEF Setup, history
  <1>5. CASE Restart
    BY <1>5, Type_Next, Guess_Cleared DEF Restart, NewSessions
  <1> QED BY <1>2, <1>3, <1>4, <1>5, Guess_LetIn, Guess_Tick
          DEF Next, vars, Logout, Clear, history

LEMMA GuessInv_Init == Init => GuessInv
  <1> SUFFICES ASSUME Init PROVE GuessInv
    OBVIOUS
  <1>1. \A m : Cardinality(Recent(m)) = 0
    <2>1. \A m : Recent(m) = {}
      BY DEF Recent, Init, NoWrong
    <2> QED BY <2>1, FS_EmptySet
  <1>2. ~Locked /\ Record.window = Past
    BY DEF Init, NewSessions, Locked, Record, Fresh
  <1>3. 0 <= MaxLoginFailures - 1 + 0 + Cardinality(Failing)
    BY CountsType, ConstantsType
  <1> QED BY <1>1, <1>2, <1>3 DEF GuessInv, WindowInv, WindowsInv, LockedInv

-----------------------------------------------------------------------------
(* Inv is inductive *)

LEMMA Inv_Init ==
  ASSUME Init
  PROVE  Inv
  <1>1. /\ tokens = [b \in Browsers |-> None] /\ attempts = None
        /\ request = [b \in Browsers |-> Idle]
        /\ errors = 0 /\ changes = 0 /\ kept = 0 /\ wrong = NoWrong /\ shut = 0
    BY DEF Init, NewSessions
  <1>2. 0 \in 0..MaxChanges /\ 0 \in 0..MaxErrors
    BY ConstantsType
  <1>3. TypeOK
    <2>1. Idle \in Request
      BY <1>2 DEF Idle, Request
    <2>2. pinned \in BOOLEAN /\ stored \in BOOLEAN
      BY DEF Init
    <2>3. wrong \in [Ages -> Nat]
      BY <1>1 DEF NoWrong
    <2> QED BY <1>1, <1>2, <2>1, <2>2, <2>3 DEF TypeOK
  <1>4. SessionInv
    BY <1>1 DEF SessionInv, SessionsFollowPassword, Idle
  <1>5. LockInv
    BY <1>1 DEF LockInv, Locked
  <1> QED BY <1>3, <1>4, <1>5, GuessInv_Init DEF Inv

(* The invariant holds in every reachable state. *)
LEMMA InvHolds == Spec => []Inv
  <1>1. Inv /\ [Next]_vars => Inv'
    BY Type_Next, SessionInv_Next, LockInv_Next, GuessInv_Next DEF Inv
  <1> QED BY Inv_Init, <1>1, PTL DEF Spec

-----------------------------------------------------------------------------
(* What Access promises *)

(* Every variable keeps its type: a record never counts up to              *)
(* MaxLoginFailures, and no deadline is further away than it was set.      *)
THEOREM TypeCorrect == Spec => []TypeOK
  <1>1. Inv => TypeOK
    BY DEF Inv
  <1> QED BY <1>1, InvHolds, PTL

(* Whatever handlers are between two of their steps when the password      *)
(* changes, no session that is older stays signed in, but for those whose  *)
(* login was in flight, and over a setup page or a cleared password.       *)
THEOREM SessionsFollow == Spec => []SessionsFollowPassword
  <1>1. Inv => SessionsFollowPassword
    BY DEF Inv, SessionInv
  <1> QED BY <1>1, InvHolds, PTL

(* A lock ends however many attempts are made meanwhile: it is prolonged   *)
(* only by requests let in before, MaxLoginFailures of them for each time. *)
THEOREM LocksEnd == Spec => []LockEnds
  <1> DEFINE n == Cardinality(Browsers) - 1
             most == n \div MaxLoginFailures
  <1>1. n \in Nat
    BY GuessingType
  <1>2. most \in Nat /\ \A j \in Nat : j * MaxLoginFailures <= n => j <= most
    <2> HIDE DEF n
    <2>1. /\ most \in Nat
          /\ n = MaxLoginFailures * most + (n % MaxLoginFailures)
          /\ n % MaxLoginFailures \in 0..(MaxLoginFailures - 1)
      BY <1>1, ConstantsType
    <2>2. ASSUME NEW j \in Nat, j * MaxLoginFailures <= n, j > most PROVE FALSE
      <3>1. j * MaxLoginFailures >= (most + 1) * MaxLoginFailures
        BY <2>1, <2>2, ConstantsType
      <3>2. (most + 1) * MaxLoginFailures = MaxLoginFailures * most + MaxLoginFailures
        BY <2>1, ConstantsType
      <3> HIDE DEF most
      <3> QED BY <1>1, <2>1, <2>2, <3>1, <3>2, ConstantsType
    <2> HIDE DEF most
    <2> QED BY <2>1, <2>2
  <1>3. ASSUME Inv PROVE LockEnds
    <2>1. LockEnds <=> shut < LoginLockout * (1 + most)
      BY DEF LockEnds
    <2>2. CASE ~Locked
      <3>1. shut = 0
        BY <1>3, <2>2 DEF Inv, LockInv
      <3> HIDE DEF most
      <3>2. LoginLockout * (1 + most) > 0
        BY <1>2, ConstantsType
      <3> QED BY <2>1, <3>1, <3>2
    <2>3. CASE Locked
      <3>1. PICK j \in Nat : LockedAgain(j)
        BY <1>3, <2>3 DEF Inv, LockInv
      <3>2. /\ attempts.failures \in Nat /\ attempts.locked \in Int /\ attempts.locked > 0
            /\ shut \in Nat
        BY <1>3, <2>3, AttemptsType, ConstantsType DEF Inv, TypeOK, Locked
      <3>3. j * MaxLoginFailures <= n
        <4> DEFINE p == j * MaxLoginFailures
        <4>1. p \in Nat /\ p + attempts.failures + Cardinality(Guessing) <= n
          BY <3>1, ConstantsType DEF LockedAgain
        <4> HIDE DEF p, n
        <4>2. p <= n
          BY <1>1, <3>2, <4>1, GuessingType
        <4> QED BY <4>2 DEF p
      <3>4. j <= most
        BY <1>2, <3>3
      <3> HIDE DEF n, most
      <3>5. LoginLockout * (1 + j) <= LoginLockout * (1 + most)
        BY <1>2, <3>4, ConstantsType
      <3>6. shut + attempts.locked <= LoginLockout * (1 + j)
        BY <3>1 DEF LockedAgain
      <3>7. LoginLockout * (1 + j) \in Nat /\ LoginLockout * (1 + most) \in Nat
        BY <1>2, ConstantsType
      <3> DEFINE q == LoginLockout * (1 + j)
                 u == LoginLockout * (1 + most)
      <3>8. q \in Nat /\ u \in Nat /\ q <= u /\ shut + attempts.locked <= q
        BY <3>5, <3>6, <3>7
      <3> HIDE DEF q, u
      <3>9. shut < u
        BY <3>2, <3>8
      <3> QED BY <2>1, <3>9 DEF u
    <2> QED BY <2>2, <2>3
  <1> QED BY <1>3, InvHolds, PTL

(* The throttle bounds the wrong passwords that are compared in less than  *)
(* any LoginWindow by two windows without a lock and one guess for each    *)
(* request, whatever the limits are and however many requests are let in   *)
(* together.                                                               *)
THEOREM GuessesBounded == Spec => []GuessesAreBounded
  <1>1. ASSUME Inv PROVE GuessesAreBounded
    <2>1. TypeOK /\ WrongType /\ GuessInv
      BY <1>1, RecordType DEF Inv
    <2>2. Cardinality(Recent(LoginWindow)) <= 2 * (MaxLoginFailures - 1) + Cardinality(Browsers)
      <3>1. Cardinality(Recent(LoginWindow)) \in Nat
        BY <2>1, RecentType, ConstantsType
      <3>2. CASE Locked
        BY <2>1, <3>1, <3>2, CountsType, ConstantsType DEF GuessInv, LockedInv
      <3>3. CASE ~Locked
        BY <2>1, <3>1, <3>3, AllRecent, CountsType, ConstantsType DEF GuessInv
      <3> QED BY <3>2, <3>3
    <2> QED BY <2>1, <2>2, WrongCounts DEF GuessesAreBounded
  <1>2. Inv => GuessesAreBounded
    BY <1>1
  <1> QED BY <1>2, InvHolds, PTL
=============================================================================
