-------------------------------- MODULE Store --------------------------------
(***************************************************************************)
(* The connection store of tsv-vpn (internal/db): requests of the web UI   *)
(* create, edit, switch and delete connections and local subnets, while    *)
(* the tunnel manager records the state of connections it read earlier.    *)
(*                                                                         *)
(* The pool holds one SQLite connection, so an action is one statement; a  *)
(* transaction keeps the connection (holder) to itself until it ends.      *)
(***************************************************************************)
EXTENDS Naturals, FiniteSets

CONSTANTS
  Requests,   \* web requests that save something
  Writers,    \* status writes of the tunnel manager
  Names,      \* connection names
  Prefixes,   \* subnets, remote or local
  Overlaps,   \* which of them overlap
  None,
  MaxSaves    \* bound: forms posted that create or edit a connection

Ids == 1..MaxSaves

ASSUME StoreAssumption ==
  /\ MaxSaves \in Nat /\ IsFiniteSet(Requests) /\ None \notin Requests
  /\ Overlaps \subseteq Prefixes \X Prefixes
  /\ \A p \in Prefixes : <<p, p>> \in Overlaps
  /\ \A p, q \in Prefixes : <<p, q>> \in Overlaps => <<q, p>> \in Overlaps

VARIABLES
  conns,   \* table connections; a secret is the number of the form it came with
  locals,  \* table local_subnets: "absent", "on" or "off" for each prefix
  rows,    \* table connection_status: the connections that have a row
  draft,   \* connections, as the transaction of holder has left them
  holder,  \* the request whose transaction holds the SQLite connection
  req,     \* the requests in progress
  writer,  \* the status writes in progress
  saves,   \* forms posted so far
  unseen   \* history: subnets that others stored since a request read the table

vars == <<conns, locals, rows, draft, holder, req, writer, saves, unseen>>

Conflict(ps, qs) == \E p \in ps, q \in qs : <<p, q>> \in Overlaps

(* ParseSubnets: at least one, and no two of the same list overlap. *)
SubnetLists == {ps \in SUBSET Prefixes : ps # {} /\
                  \A p, q \in ps : p # q => <<p, q>> \notin Overlaps}

Rows == {i \in Ids : conns[i] # None}

IdleRequest ==
  [pc |-> "idle", op |-> "none", id |-> 0, save |-> 0, name |-> None,
   enabled |-> FALSE, subnets |-> {}, secrets |-> {}, claimed |-> {}]

Init ==
  /\ conns = [i \in Ids |-> None]
  /\ locals = [p \in Prefixes |-> "absent"]
  /\ rows = {}
  /\ draft = None /\ holder = None
  /\ req = [r \in Requests |-> IdleRequest]
  /\ writer = [w \in Writers |-> 0]
  /\ saves = 0
  /\ unseen = [r \in Requests |-> {}]

-----------------------------------------------------------------------------
(* A request: what it saves, and where it goes next *)

Free == holder = None
At(r, pc) == req[r].pc = pc
Goto(r, pc) == req' = [req EXCEPT ![r].pc = pc]
Done(r) == req' = [req EXCEPT ![r] = IdleRequest]

Secrets == {"psk", "password"}

(* A form that passed validateConnection: an edit may leave secrets blank. *)
Post(r) ==
  /\ At(r, "idle") /\ saves < MaxSaves
  /\ saves' = saves + 1
  /\ \E name \in Names, on \in BOOLEAN, ps \in SubnetLists, given \in SUBSET Secrets :
     LET form == [IdleRequest EXCEPT !.save = saves', !.name = name, !.enabled = on,
                                     !.subnets = ps, !.secrets = given] IN
     \/ /\ given = Secrets
        /\ req' = [req EXCEPT ![r] = [form EXCEPT !.pc = "conns", !.op = "create"]]
     \/ \E i \in Ids :
          req' = [req EXCEPT ![r] = [form EXCEPT !.pc = "lookup", !.op = "update", !.id = i]]
  /\ UNCHANGED <<conns, locals, rows, draft, holder, writer, unseen>>

(* A local subnet that passed ParseSubnet. *)
PostLocal(r) ==
  /\ At(r, "idle")
  /\ \E p \in Prefixes :
       req' = [req EXCEPT ![r] = [IdleRequest EXCEPT !.pc = "conns", !.op = "local",
                                                     !.subnets = {p}]]
  /\ UNCHANGED <<conns, locals, rows, draft, holder, writer, saves, unseen>>

(* UpdateConnection first reads the connection. *)
Lookup(r) ==
  /\ At(r, "lookup") /\ Free
  /\ IF conns[req[r].id] = None THEN Done(r) ELSE Goto(r, "conns")
  /\ UNCHANGED <<conns, locals, rows, draft, holder, writer, saves, unseen>>

(* Mutant: a disabled connection claims nothing. *)
Claimed_EnabledOnly(except) ==
  UNION {conns[i].subnets : i \in {j \in Rows \ {except} : conns[j].enabled}}

Claimed(except) == UNION {conns[i].subnets : i \in Rows \ {except}}

(* claimedSubnets and CheckOverlap: two queries, then the comparison. *)
ReadConns(r) ==
  /\ At(r, "conns") /\ Free
  /\ req' = [req EXCEPT ![r].pc = "locals", ![r].claimed = Claimed(req[r].id)]
  /\ unseen' = [unseen EXCEPT ![r] = {}]
  /\ UNCHANGED <<conns, locals, rows, draft, holder, writer, saves>>

(* ListLocalSubnets, whether they are enabled or not. *)
Present == {p \in Prefixes : locals[p] # "absent"}

ReadLocals(r) ==
  LET claimed == req[r].claimed \cup Present IN
  /\ At(r, "locals") /\ Free
  /\ IF Conflict(req[r].subnets, claimed) THEN Done(r)
     ELSE req' = [req EXCEPT ![r].pc = "write", ![r].claimed = {}]
  /\ UNCHANGED <<conns, locals, rows, draft, holder, writer, saves, unseen>>

(* A request stores ps: the others that have read the table do not see it. *)
Stores(r, ps, read) ==
  unseen' = [s \in Requests |-> IF s # r /\ req[s].pc \in read THEN unseen[s] \cup ps
                                ELSE unseen[s]]

NameTaken(name, except) == \E i \in Rows \ {except} : conns[i].name = name

(* An INTEGER PRIMARY KEY is one above the largest in use. *)
NextId == CHOOSE i \in Ids :
            /\ \A j \in Rows : j < i
            /\ \A k \in 1..(i - 1) : \E j \in Rows : j >= k

NewRow(f) ==
  [name |-> f.name, subnets |-> f.subnets, enabled |-> f.enabled,
   psk |-> f.save, password |-> f.save, due |-> [k \in Secrets |-> f.save]]

(* Mutant: the secrets are left out of the INSERT. *)
Insert_NoSecrets(r) ==
  /\ At(r, "write") /\ req[r].op = "create" /\ Free /\ Done(r)
  /\ conns' = [conns EXCEPT ![NextId] = [NewRow(req[r]) EXCEPT !.psk = 0]]
  /\ Stores(r, req[r].subnets, {"locals", "write"})
  /\ UNCHANGED <<locals, rows, draft, holder, writer, saves>>

(* CreateConnection's INSERT; the name is UNIQUE. *)
Insert(r) ==
  /\ At(r, "write") /\ req[r].op = "create" /\ Free /\ Done(r)
  /\ IF NameTaken(req[r].name, 0) THEN UNCHANGED <<conns, unseen>>
     ELSE /\ conns' = [conns EXCEPT ![NextId] = NewRow(req[r])]
          /\ Stores(r, req[r].subnets, {"locals", "write"})
  /\ UNCHANGED <<locals, rows, draft, holder, writer, saves>>

(* CreateLocalSubnet's INSERT; the CIDR is UNIQUE. *)
InsertLocal(r) ==
  /\ At(r, "write") /\ req[r].op = "local" /\ Free
  /\ locals' = [p \in Prefixes |-> IF p \in req[r].subnets /\ locals[p] = "absent"
                                   THEN "on" ELSE locals[p]]
  /\ Stores(r, req[r].subnets \ Present, {"write"})
  /\ Done(r)
  /\ UNCHANGED <<conns, rows, draft, holder, writer, saves>>

Rollback(r) == Done(r) /\ draft' = None /\ holder' = None

(* Where the transaction goes once the secrets in written are stored. *)
AfterUpdate(r, written) ==
  LET left == req[r].secrets \ written IN
  IF "psk" \in left THEN "psk" ELSE IF "password" \in left THEN "password" ELSE "commit"

(* due (history) is what the secrets must be once the edit is stored. *)
Updated(row, f) ==
  [row EXCEPT !.name = f.name, !.subnets = f.subnets, !.enabled = f.enabled,
              !.due = [k \in Secrets |-> IF k \in f.secrets THEN f.save ELSE @[k]]]

(* UpdateConnection's transaction: the row, then each secret that is not   *)
(* blank.  A row deleted since Lookup is updated in vain.                  *)
Update(r) ==
  LET i == req[r].id IN
  /\ At(r, "write") /\ req[r].op = "update" /\ Free
  /\ IF conns[i] # None /\ NameTaken(req[r].name, i)
     THEN Done(r) /\ UNCHANGED <<draft, holder>>
     ELSE /\ holder' = r
          /\ draft' = IF conns[i] = None THEN conns
                      ELSE [conns EXCEPT ![i] = Updated(@, req[r])]
          /\ Goto(r, AfterUpdate(r, {}))
  /\ UNCHANGED <<conns, locals, rows, writer, saves, unseen>>

(* Mutant: the key is written through the pool, outside the transaction. *)
SetPSK_NoTx(r) ==
  /\ At(r, "psk") /\ Free
  /\ conns' = [conns EXCEPT ![req[r].id].psk = req[r].save]
  /\ Goto(r, AfterUpdate(r, {"psk"})) /\ UNCHANGED <<draft, holder>>
  /\ UNCHANGED <<locals, rows, writer, saves, unseen>>

SetPSK(r) ==
  LET i == req[r].id IN
  /\ At(r, "psk")
  /\ \/ /\ draft' = IF draft[i] = None THEN draft
                     ELSE [draft EXCEPT ![i].psk = req[r].save]
        /\ Goto(r, AfterUpdate(r, {"psk"})) /\ UNCHANGED holder
     \/ Rollback(r)
  /\ UNCHANGED <<conns, locals, rows, writer, saves, unseen>>

SetPassword(r) ==
  LET i == req[r].id IN
  /\ At(r, "password")
  /\ \/ /\ draft' = IF draft[i] = None THEN draft
                     ELSE [draft EXCEPT ![i].password = req[r].save]
        /\ Goto(r, "commit") /\ UNCHANGED holder
     \/ Rollback(r)
  /\ UNCHANGED <<conns, locals, rows, writer, saves, unseen>>

(* Mutant: each statement is committed on its own. *)
Commit_Partial(r) ==
  /\ At(r, "commit") \/ At(r, "password")
  /\ conns' = draft /\ Rollback(r)
  /\ UNCHANGED <<locals, rows, writer, saves, unseen>>

Commit(r) ==
  /\ At(r, "commit")
  /\ \/ /\ conns' = draft
        /\ Stores(r, IF draft[req[r].id] = None THEN {} ELSE req[r].subnets, {"locals", "write"})
     \/ UNCHANGED <<conns, unseen>>
  /\ Rollback(r)
  /\ UNCHANGED <<locals, rows, writer, saves>>

-----------------------------------------------------------------------------
(* Requests of one statement *)

SetConnectionEnabled(i, on) ==
  /\ Free /\ i \in Rows /\ conns[i].enabled # on
  /\ conns' = [conns EXCEPT ![i].enabled = on]
  /\ UNCHANGED <<locals, rows, draft, holder, req, writer, saves, unseen>>

(* Mutant: the status row outlives its connection. *)
DeleteConnection_NoCascade(i) ==
  /\ Free /\ i \in Rows
  /\ conns' = [conns EXCEPT ![i] = None]
  /\ UNCHANGED <<locals, rows, draft, holder, req, writer, saves, unseen>>

(* The status row goes with it (ON DELETE CASCADE). *)
DeleteConnection(i) ==
  /\ Free /\ i \in Rows
  /\ conns' = [conns EXCEPT ![i] = None]
  /\ rows' = rows \ {i}
  /\ UNCHANGED <<locals, draft, holder, req, writer, saves, unseen>>

SetLocalSubnetEnabled(p, to) ==
  /\ Free /\ locals[p] # "absent" /\ locals[p] # to
  /\ locals' = [locals EXCEPT ![p] = to]
  /\ UNCHANGED <<conns, rows, draft, holder, req, writer, saves, unseen>>

DeleteLocalSubnet(p) ==
  /\ Free /\ locals[p] # "absent"
  /\ locals' = [locals EXCEPT ![p] = "absent"]
  /\ UNCHANGED <<conns, rows, draft, holder, req, writer, saves, unseen>>

(* The manager learns of a connection (ListConnections) and records its    *)
(* state some time later, if a connection of that id still exists.         *)
Learn(w) ==
  /\ Free /\ writer[w] = 0
  /\ \E i \in Rows : writer' = [writer EXCEPT ![w] = i]
  /\ UNCHANGED <<conns, locals, rows, draft, holder, req, saves, unseen>>

SetStatus(w) ==
  /\ Free /\ writer[w] # 0
  /\ rows' = rows \cup ({writer[w]} \cap Rows)
  /\ writer' = [writer EXCEPT ![w] = 0]
  /\ UNCHANGED <<conns, locals, draft, holder, req, saves, unseen>>

-----------------------------------------------------------------------------
(* The specification *)

Save(r) ==
  \/ Lookup(r) \/ ReadConns(r) \/ ReadLocals(r) \/ Insert(r) \/ InsertLocal(r)
  \/ Update(r) \/ SetPSK(r) \/ SetPassword(r) \/ Commit(r)

Next ==
  \/ \E r \in Requests : Post(r) \/ PostLocal(r) \/ Save(r)
  \/ \E i \in Ids : \/ DeleteConnection(i)
                    \/ \E on \in BOOLEAN : SetConnectionEnabled(i, on)
  \/ \E p \in Prefixes : \/ DeleteLocalSubnet(p)
                         \/ \E to \in {"on", "off"} : SetLocalSubnetEnabled(p, to)
  \/ \E w \in Writers : Learn(w) \/ SetStatus(w)

Spec == Init /\ [][Next]_vars

(* SQLite answers every statement, in whatever order the requests wait. *)
FairSpec == Spec /\ \A r \in Requests : SF_vars(Save(r))

Row == [name: Names, subnets: SubnetLists, enabled: BOOLEAN,
        psk: Ids, password: Ids, due: [Secrets -> Ids]]

ASSUME NoneAssumption == None \notin Row

TypeOK ==
  /\ conns \in [Ids -> Row \cup {None}]
  /\ draft \in [Ids -> Row \cup {None}] \cup {None}
  /\ locals \in [Prefixes -> {"absent", "on", "off"}]
  /\ rows \in SUBSET Ids
  /\ holder \in Requests \cup {None}
  /\ req \in [Requests ->
       [pc: {"idle", "lookup", "conns", "locals", "write", "psk", "password", "commit"},
        op: {"none", "create", "update", "local"}, id: 0..MaxSaves, save: 0..MaxSaves,
        name: Names \cup {None}, enabled: BOOLEAN, subnets: SUBSET Prefixes,
        secrets: SUBSET Secrets, claimed: SUBSET Prefixes]]
  /\ writer \in [Writers -> 0..MaxSaves]
  /\ saves \in 0..MaxSaves
  /\ unseen \in [Requests -> SUBSET Prefixes]

-----------------------------------------------------------------------------
(* Properties *)

(* The subnets in the database with their owners, 0 for the local ones. *)
Routes == ({0} \X Present) \cup (UNION {{i} \X conns[i].subnets : i \in Rows})

Overlapping == {pair \in Routes \X Routes :
  pair[1] # pair[2] /\ <<pair[1][2], pair[2][2]>> \in Overlaps}

(* No two subnets in the database overlap, whoever owns them and whether   *)
(* or not they are enabled: CheckOverlap has the routes of every owner.    *)
RoutesDisjoint == Overlapping = {}

(* Two routes come to overlap only when one is stored by a request that    *)
(* had read the table before the other was stored: what CheckOverlap found *)
(* still holds when it is relied on, but for what came in between.         *)
OnlyRacesOverlap ==
  [][\A pair \in Overlapping' \ Overlapping : \E r \in Requests :
       /\ req'[r] # req[r]
       /\ \E x, y \in {pair[1], pair[2]} : x[2] \in req[r].subnets /\ y[2] \in unseen[r]]_vars

(* A connection has the secrets of the last edit that gave any: whatever   *)
(* fails on the way, an edit is stored whole or not at all.                *)
EditIsWhole == \A i \in Rows :
  conns[i].psk = conns[i].due["psk"] /\ conns[i].password = conns[i].due["password"]

(* A status row belongs to a connection that exists. *)
StatusHasConnection == rows \subseteq Rows

(* Every request gets an answer: none waits for the one SQLite connection  *)
(* while its own transaction holds it.                                     *)
RequestsEnd == \A r \in Requests : []<>At(r, "idle")
=============================================================================
