------------------------------ MODULE StoreProofs ------------------------------
(***************************************************************************)
(* Proofs about Store, for every set of requests, names and subnets: what  *)
(* its transactions keep whole, and that subnets come to overlap only when *)
(* one was stored after the request that stores the other read the table.  *)
(***************************************************************************)
EXTENDS Store, FiniteSetTheorems, WellFoundedInduction, TLAPS

InTx == {"psk", "password", "commit"}

(* A form passed its validation, and goes where its operation leads.       *)
FormInv(f) ==
  /\ f.pc # "idle" => f.op # "none"
  /\ f.op = "update" => f.id \in Ids
  /\ f.op # "update" => f.id = 0
  /\ f.op \in {"create", "update"} =>
       f.save \in Ids /\ f.name \in Names /\ f.subnets \in SubnetLists
  /\ f.op = "local" => \E p \in Prefixes : f.subnets = {p}
  /\ f.pc \in InTx \cup {"lookup"} => f.op = "update"
  /\ f.pc \in {"psk", "password"} => f.pc \in f.secrets

FormsInv == \A r \in Requests : FormInv(req[r])

(* A request is in a transaction as long as it holds the connection. *)
HolderInv == \A r \in Requests : req[r].pc \in InTx <=> holder = r

(* Every form that creates a connection leaves room for its id. *)
Creating == {r \in Requests : req[r].op = "create"}

IdsInv ==
  /\ Cardinality(Creating) <= saves
  /\ \A i \in Rows : i + Cardinality(Creating) <= saves

(* The secrets that a transaction has not written yet. *)
Left(f) == IF f.pc = "psk" THEN f.secrets ELSE IF f.pc = "password" THEN {"password"} ELSE {}

(* The draft differs from the table in one row, which has the secrets that *)
(* are due but for the ones still to be written.                           *)
DraftRow(f, row) ==
  /\ IF "psk" \in Left(f) THEN row.due["psk"] = f.save ELSE row.psk = row.due["psk"]
  /\ IF "password" \in Left(f) THEN row.due["password"] = f.save
     ELSE row.password = row.due["password"]

DraftInv == \A r \in Requests : holder = r =>
  /\ draft \in [Ids -> Row \cup {None}]
  /\ \A i \in Ids : draft[i] = None <=> conns[i] = None
  /\ \A i \in Ids \ {req[r].id} : draft[i] = conns[i]
  /\ draft[req[r].id] # None => DraftRow(req[r], draft[req[r].id])

Inv ==
  /\ TypeOK /\ FormsInv /\ HolderInv /\ IdsInv /\ DraftInv
  /\ EditIsWhole /\ StatusHasConnection

-----------------------------------------------------------------------------
(* What a request has seen *)

(* The subnets of a request overlap no others but those it has not seen. *)
Clear(r) == \A p \in req[r].subnets, q \in Claimed(req[r].id) \cup Present :
              <<p, q>> \in Overlaps => q \in unseen[r]

SeenBy(r) ==
  /\ req[r].pc = "locals" => Claimed(req[r].id) \subseteq req[r].claimed \cup unseen[r]
  /\ req[r].pc \in InTx \cup {"write"} => Clear(r)
  /\ req[r].pc \in InTx /\ draft[req[r].id] # None =>
       draft[req[r].id].subnets = req[r].subnets

SeenInv == \A r \in Requests : SeenBy(r)

-----------------------------------------------------------------------------
(* Requests *)

Pcs == {"idle", "lookup", "conns", "locals", "write", "psk", "password", "commit"}

Request ==
  [pc: Pcs, op: {"none", "create", "update", "local"}, id: 0..MaxSaves, save: 0..MaxSaves,
   name: Names \cup {None}, enabled: BOOLEAN, subnets: SUBSET Prefixes,
   secrets: SUBSET Secrets, claimed: SUBSET Prefixes]

Same(f, g) ==
  /\ f.op = g.op /\ f.id = g.id /\ f.save = g.save /\ f.name = g.name
  /\ f.enabled = g.enabled /\ f.subnets = g.subnets /\ f.secrets = g.secrets

LEMMA ReqType == TypeOK => req \in [Requests -> Request]
  BY DEF TypeOK, Request, Pcs

LEMMA ConstantsType ==
  /\ MaxSaves \in Nat /\ IsFiniteSet(Requests) /\ None \notin Requests /\ None \notin Row
  /\ 0 \in 0..MaxSaves /\ 0 \notin Ids /\ Ids \subseteq 0..MaxSaves
  BY StoreAssumption, NoneAssumption DEF Ids

LEMMA IdleType ==
  /\ IdleRequest \in Request
  /\ IdleRequest.pc = "idle" /\ IdleRequest.op = "none" /\ IdleRequest.id = 0
  BY ConstantsType DEF IdleRequest, Request, Pcs

(* Only the request that takes a step changes. *)
LEMMA GotoType ==
  ASSUME req \in [Requests -> Request], NEW r \in Requests, NEW pc \in Pcs, Goto(r, pc)
  PROVE  /\ req' \in [Requests -> Request]
         /\ req'[r].pc = pc /\ Same(req'[r], req[r])
         /\ \A s \in Requests : s # r => req'[s] = req[s]
  <1>1. req' = [req EXCEPT ![r] = [req[r] EXCEPT !.pc = pc]]
    BY DEF Goto
  <1> DEFINE g == [req[r] EXCEPT !.pc = pc]
  <1>2. req[r] \in Request
    OBVIOUS
  <1>3. g \in Request /\ g.pc = pc /\ Same(g, req[r])
    BY <1>2 DEF Request, Same
  <1> HIDE DEF g
  <1>4. req' = [req EXCEPT ![r] = g]
    BY <1>1 DEF g
  <1> QED BY <1>3, <1>4

LEMMA DoneType ==
  ASSUME req \in [Requests -> Request], NEW r \in Requests, Done(r)
  PROVE  /\ req' \in [Requests -> Request]
         /\ req'[r] = IdleRequest
         /\ \A s \in Requests : s # r => req'[s] = req[s]
  BY IdleType DEF Done

LEMMA ReadType ==
  ASSUME req \in [Requests -> Request], NEW r \in Requests, NEW pc \in Pcs, NEW ps \in SUBSET Prefixes,
         req' = [req EXCEPT ![r].pc = pc, ![r].claimed = ps]
  PROVE  /\ req' \in [Requests -> Request]
         /\ req'[r].pc = pc /\ req'[r].claimed = ps /\ Same(req'[r], req[r])
         /\ \A s \in Requests : s # r => req'[s] = req[s]
  <1> DEFINE g == [req[r] EXCEPT !.pc = pc, !.claimed = ps]
  <1>1. req' = [req EXCEPT ![r] = g]
    OBVIOUS
  <1>2. req[r] \in Request
    OBVIOUS
  <1>3. g \in Request /\ g.pc = pc /\ g.claimed = ps /\ Same(g, req[r])
    BY <1>2 DEF Request, Same
  <1> HIDE DEF g
  <1> QED BY <1>1, <1>3

LEMMA ClaimedType ==
  ASSUME TypeOK, NEW i
  PROVE  Claimed(i) \in SUBSET Prefixes
  <1>1. \A j \in Rows : conns[j].subnets \in SUBSET Prefixes
    BY DEF Rows, TypeOK, Row, SubnetLists
  <1> QED BY <1>1 DEF Claimed

(* What a step does to the requests: a form is posted, a step of one that  *)
(* is in progress is taken, one ends, or nothing happens.                  *)
Posted(r) ==
  /\ req[r].pc = "idle" /\ req'[r] \in Request /\ FormInv(req'[r])
  /\ \/ req'[r].pc = "conns" /\ req'[r].op = "create" /\ saves' = saves + 1
     \/ req'[r].pc = "lookup" /\ req'[r].op = "update" /\ saves' = saves + 1
     \/ req'[r].pc = "conns" /\ req'[r].op = "local" /\ saves' = saves
  /\ UNCHANGED <<conns, locals, rows, draft, holder, writer, unseen>>

LEMMA PostType ==
  ASSUME TypeOK, FormsInv, NEW r \in Requests, Post(r)
  PROVE  /\ Posted(r) /\ saves' \in 0..MaxSaves
         /\ req' \in [Requests -> Request]
         /\ \A s \in Requests : s # r => req'[s] = req[s]
  <1>1. /\ req[r].pc = "idle" /\ saves' = saves + 1
        /\ UNCHANGED <<conns, locals, rows, draft, holder, writer, unseen>>
    BY DEF Post, At
  <1>2. saves' \in Ids /\ saves' \in 0..MaxSaves
    <2>1. saves \in 0..MaxSaves /\ saves < MaxSaves
      BY DEF Post, TypeOK
    <2> QED BY <1>1, <2>1, ConstantsType DEF Ids
  <1>3. PICK name \in Names, on \in BOOLEAN, ps \in SubnetLists, given \in SUBSET Secrets :
     LET form == [IdleRequest EXCEPT !.save = saves', !.name = name, !.enabled = on,
                                     !.subnets = ps, !.secrets = given] IN
     \/ /\ given = Secrets
        /\ req' = [req EXCEPT ![r] = [form EXCEPT !.pc = "conns", !.op = "create"]]
     \/ \E i \in Ids :
          req' = [req EXCEPT ![r] = [form EXCEPT !.pc = "lookup", !.op = "update", !.id = i]]
    BY DEF Post
  <1> DEFINE form == [IdleRequest EXCEPT !.save = saves', !.name = name, !.enabled = on,
                                         !.subnets = ps, !.secrets = given]
             create == [form EXCEPT !.pc = "conns", !.op = "create"]
             update(i) == [form EXCEPT !.pc = "lookup", !.op = "update", !.id = i]
  <1>4. form \in Request /\ form.save = saves' /\ form.name = name /\ form.subnets = ps
        /\ form.id = 0
    <2>1. ps \in SUBSET Prefixes
      BY DEF SubnetLists
    <2> QED BY <1>2, <2>1, ConstantsType DEF IdleRequest, Request, Pcs
  <1>5. \/ req' = [req EXCEPT ![r] = create]
        \/ \E i \in Ids : req' = [req EXCEPT ![r] = update(i)]
    BY <1>3
  <1> HIDE DEF form
  <1>6. create \in Request /\ FormInv(create) /\ create.pc = "conns" /\ create.op = "create"
    <2>1. /\ create \in Request /\ create.pc = "conns" /\ create.op = "create" /\ create.id = 0
          /\ create.save = saves' /\ create.name = name /\ create.subnets = ps
      BY <1>4 DEF Request, Pcs
    <2> HIDE DEF create
    <2> QED BY <1>2, <2>1 DEF FormInv, InTx
  <1>7. ASSUME NEW i \in Ids
        PROVE  /\ update(i) \in Request /\ FormInv(update(i))
               /\ update(i).pc = "lookup" /\ update(i).op = "update"
    <2>1. /\ update(i) \in Request /\ update(i).pc = "lookup" /\ update(i).op = "update"
          /\ update(i).id = i /\ update(i).save = saves' /\ update(i).name = name
          /\ update(i).subnets = ps
      BY <1>4, ConstantsType DEF Request, Pcs
    <2> HIDE DEF update
    <2> QED BY <1>2, <2>1 DEF FormInv, InTx
  <1>8. req \in [Requests -> Request]
    BY ReqType
  <1> HIDE DEF create, update
  <1>9. PICK g \in Request :
          /\ req' = [req EXCEPT ![r] = g] /\ FormInv(g)
          /\ \/ g.pc = "conns" /\ g.op = "create"
             \/ g.pc = "lookup" /\ g.op = "update"
    BY <1>5, <1>6, <1>7
  <1> QED BY <1>1, <1>2, <1>8, <1>9 DEF Posted

LEMMA PostLocalType ==
  ASSUME TypeOK, NEW r \in Requests, PostLocal(r)
  PROVE  /\ Posted(r) /\ saves' \in 0..MaxSaves
         /\ req' \in [Requests -> Request]
         /\ \A s \in Requests : s # r => req'[s] = req[s]
  <1>1. PICK p \in Prefixes :
          req' = [req EXCEPT ![r] = [IdleRequest EXCEPT !.pc = "conns", !.op = "local",
                                                        !.subnets = {p}]]
    BY DEF PostLocal
  <1> DEFINE f == [IdleRequest EXCEPT !.pc = "conns", !.op = "local", !.subnets = {p}]
  <1>2. f \in Request /\ f.pc = "conns" /\ f.op = "local" /\ f.id = 0 /\ f.subnets = {p}
    BY ConstantsType DEF IdleRequest, Request, Pcs
  <1>3. FormInv(f)
    BY <1>2 DEF FormInv, InTx
  <1>4. req \in [Requests -> Request] /\ req' = [req EXCEPT ![r] = f]
    BY <1>1, ReqType
  <1>5. req[r].pc = "idle" /\ saves' = saves /\ saves \in 0..MaxSaves
        /\ UNCHANGED <<conns, locals, rows, draft, holder, writer, unseen>>
    BY DEF PostLocal, At, TypeOK
  <1> HIDE DEF f
  <1> QED BY <1>2, <1>3, <1>4, <1>5 DEF Posted

LEMMA FormGoes ==
  ASSUME NEW f, NEW g, FormInv(f), f.pc # "idle", Same(g, f),
         g.pc \in InTx \cup {"lookup"} => f.op = "update",
         g.pc \in {"psk", "password"} => g.pc \in f.secrets
  PROVE  FormInv(g)
  BY DEF FormInv, Same

LEMMA AfterUpdateType ==
  ASSUME NEW r, NEW written
  PROVE  /\ AfterUpdate(r, written) \in InTx
         /\ AfterUpdate(r, written) \in {"psk", "password"} =>
              AfterUpdate(r, written) \in req[r].secrets \ written
  BY DEF AfterUpdate, InTx

(* A step of a saved form: it goes on or ends, inside a transaction, at    *)
(* the beginning of one or at its end.                                     *)
Goes(r) ==
  /\ req' \in [Requests -> Request]
  /\ \A s \in Requests : s # r => req'[s] = req[s]
  /\ req'[r] = IdleRequest \/ Same(req'[r], req[r])
  /\ FormInv(req'[r])
  /\ \/ UNCHANGED holder /\ (req'[r].pc \in InTx <=> req[r].pc \in InTx)
     \/ holder = None /\ holder' = r /\ req'[r].pc \in InTx
     \/ holder' = None /\ req[r].pc \in InTx /\ req'[r].pc = "idle"

LEMMA DoneGoes ==
  ASSUME TypeOK, NEW r \in Requests, Done(r),
         \/ UNCHANGED holder /\ req[r].pc \notin InTx
         \/ holder' = None /\ req[r].pc \in InTx
  PROVE  Goes(r)
  <1>1. req \in [Requests -> Request]
    BY ReqType
  <1>2. FormInv(IdleRequest)
    BY IdleType DEF FormInv, InTx
  <1> QED BY <1>1, <1>2, DoneType, IdleType DEF Goes, InTx

LEMMA SaveGoes ==
  ASSUME TypeOK, FormsInv, NEW r \in Requests, Save(r)
  PROVE  Goes(r) /\ UNCHANGED <<writer, saves>>
  <1>1. req \in [Requests -> Request] /\ FormInv(req[r])
    BY ReqType DEF FormsInv
  <1>2. UNCHANGED <<writer, saves>>
    BY DEF Save, Lookup, ReadConns, ReadLocals, Insert, InsertLocal, Update, SetPSK, SetPassword,
           Commit
  <1>3. CASE Lookup(r)
    <2>1. req[r].pc = "lookup" /\ UNCHANGED holder /\ (Done(r) \/ Goto(r, "conns"))
      BY <1>3 DEF Lookup, At
    <2>2. ASSUME Goto(r, "conns") PROVE Goes(r)
      <3>1. /\ req' \in [Requests -> Request] /\ req'[r].pc = "conns" /\ Same(req'[r], req[r])
            /\ \A s \in Requests : s # r => req'[s] = req[s]
        BY <1>1, <2>2, GotoType DEF Pcs
      <3>2. FormInv(req'[r])
        BY <1>1, <2>1, <3>1, FormGoes DEF InTx
      <3> QED BY <2>1, <3>1, <3>2 DEF Goes, InTx
    <2> QED BY <1>2, <2>1, <2>2, DoneGoes DEF InTx
  <1>4. CASE ReadConns(r)
    <2>1. /\ req[r].pc = "conns" /\ UNCHANGED holder
          /\ req' = [req EXCEPT ![r].pc = "locals", ![r].claimed = Claimed(req[r].id)]
      BY <1>4 DEF ReadConns, At
    <2>2. /\ req' \in [Requests -> Request] /\ req'[r].pc = "locals" /\ Same(req'[r], req[r])
          /\ \A s \in Requests : s # r => req'[s] = req[s]
      <3> DEFINE ps == Claimed(req[r].id)
      <3>1. ps \in SUBSET Prefixes /\ "locals" \in Pcs
        BY ClaimedType DEF Pcs
      <3>2. req' = [req EXCEPT ![r].pc = "locals", ![r].claimed = ps]
        BY <2>1
      <3> HIDE DEF ps
      <3> QED BY <1>1, <3>1, <3>2, ReadType
    <2>3. FormInv(req'[r])
      BY <1>1, <2>1, <2>2, FormGoes DEF InTx
    <2> QED BY <1>2, <2>1, <2>2, <2>3 DEF Goes, InTx
  <1>5. CASE ReadLocals(r)
    <2>1. /\ req[r].pc = "locals" /\ UNCHANGED holder
          /\ Done(r) \/ req' = [req EXCEPT ![r].pc = "write", ![r].claimed = {}]
      BY <1>5 DEF ReadLocals, At
    <2>2. ASSUME req' = [req EXCEPT ![r].pc = "write", ![r].claimed = {}] PROVE Goes(r)
      <3>1. /\ req' \in [Requests -> Request] /\ req'[r].pc = "write" /\ Same(req'[r], req[r])
            /\ \A s \in Requests : s # r => req'[s] = req[s]
        <4>1. {} \in SUBSET Prefixes /\ "write" \in Pcs
          BY DEF Pcs
        <4> QED BY <1>1, <2>2, <4>1, ReadType
      <3>2. FormInv(req'[r])
        BY <1>1, <2>1, <3>1, FormGoes DEF InTx
      <3> QED BY <2>1, <3>1, <3>2 DEF Goes, InTx
    <2> QED BY <1>2, <2>1, <2>2, DoneGoes DEF InTx
  <1>6. CASE Insert(r) \/ InsertLocal(r)
    <2>1. req[r].pc = "write" /\ UNCHANGED holder /\ Done(r)
      BY <1>6 DEF Insert, InsertLocal, At
    <2> QED BY <1>2, <2>1, DoneGoes DEF InTx
  <1>7. CASE Update(r)
    <2>1. /\ req[r].pc = "write" /\ req[r].op = "update" /\ holder = None
          /\ \/ Done(r) /\ UNCHANGED holder
             \/ holder' = r /\ Goto(r, AfterUpdate(r, {}))
      BY <1>7 DEF Update, At, Free
    <2>2. ASSUME holder' = r, Goto(r, AfterUpdate(r, {})) PROVE Goes(r)
      <3> DEFINE pc == AfterUpdate(r, {})
      <3>1. pc \in InTx /\ (pc \in {"psk", "password"} => pc \in req[r].secrets)
        BY AfterUpdateType
      <3> HIDE DEF pc
      <3>2. Goto(r, pc) /\ pc \in Pcs
        BY <2>2, <3>1 DEF pc, Pcs, InTx
      <3>3. /\ req' \in [Requests -> Request] /\ req'[r].pc = pc /\ Same(req'[r], req[r])
            /\ \A s \in Requests : s # r => req'[s] = req[s]
        BY <1>1, <3>2, GotoType
      <3>4. FormInv(req'[r])
        BY <1>1, <2>1, <3>1, <3>3, FormGoes DEF InTx
      <3> QED BY <2>1, <2>2, <3>1, <3>3, <3>4 DEF Goes
    <2> QED BY <1>2, <2>1, <2>2, DoneGoes DEF InTx
  <1>8. CASE SetPSK(r)
    <2>1. /\ req[r].pc = "psk" /\ req[r].op = "update"
          /\ \/ UNCHANGED holder /\ Goto(r, AfterUpdate(r, {"psk"}))
             \/ Done(r) /\ holder' = None
      BY <1>1, <1>8 DEF SetPSK, At, Rollback, FormInv, InTx
    <2>2. ASSUME UNCHANGED holder, Goto(r, AfterUpdate(r, {"psk"})) PROVE Goes(r)
      <3> DEFINE pc == AfterUpdate(r, {"psk"})
      <3>1. pc \in InTx /\ (pc \in {"psk", "password"} => pc \in req[r].secrets)
        BY AfterUpdateType
      <3> HIDE DEF pc
      <3>2. Goto(r, pc) /\ pc \in Pcs
        BY <2>2, <3>1 DEF pc, Pcs, InTx
      <3>3. /\ req' \in [Requests -> Request] /\ req'[r].pc = pc /\ Same(req'[r], req[r])
            /\ \A s \in Requests : s # r => req'[s] = req[s]
        BY <1>1, <3>2, GotoType
      <3>4. FormInv(req'[r])
        BY <1>1, <2>1, <3>1, <3>3, FormGoes DEF InTx
      <3> QED BY <2>1, <2>2, <3>1, <3>3, <3>4 DEF Goes, InTx
    <2> QED BY <1>2, <2>1, <2>2, DoneGoes DEF InTx
  <1>9. CASE SetPassword(r)
    <2>1. /\ req[r].pc = "password" /\ req[r].op = "update"
          /\ \/ UNCHANGED holder /\ Goto(r, "commit")
             \/ Done(r) /\ holder' = None
      BY <1>1, <1>9 DEF SetPassword, At, Rollback, FormInv, InTx
    <2>2. ASSUME UNCHANGED holder, Goto(r, "commit") PROVE Goes(r)
      <3>1. /\ req' \in [Requests -> Request] /\ req'[r].pc = "commit" /\ Same(req'[r], req[r])
            /\ \A s \in Requests : s # r => req'[s] = req[s]
        BY <1>1, <2>2, GotoType DEF Pcs
      <3>2. FormInv(req'[r])
        BY <1>1, <2>1, <3>1, FormGoes DEF InTx
      <3> QED BY <2>1, <2>2, <3>1, <3>2 DEF Goes, InTx
    <2> QED BY <1>2, <2>1, <2>2, DoneGoes DEF InTx
  <1>10. CASE Commit(r)
    <2>1. req[r].pc = "commit" /\ Done(r) /\ holder' = None
      BY <1>10 DEF Commit, At, Rollback
    <2> QED BY <1>2, <2>1, DoneGoes DEF InTx
  <1> QED BY <1>3, <1>4, <1>5, <1>6, <1>7, <1>8, <1>9, <1>10 DEF Save

(* Statements that come from no form in progress. *)
Statement ==
  \/ \E i \in Ids : DeleteConnection(i) \/ \E on \in BOOLEAN : SetConnectionEnabled(i, on)
  \/ \E p \in Prefixes : DeleteLocalSubnet(p)
                         \/ \E to \in {"on", "off"} : SetLocalSubnetEnabled(p, to)
  \/ \E w \in Writers : Learn(w) \/ SetStatus(w)
  \/ UNCHANGED vars

LEMMA StatementReq ==
  ASSUME Statement
  PROVE  UNCHANGED <<req, holder, draft, saves, unseen>>
  BY DEF Statement, DeleteConnection, SetConnectionEnabled, DeleteLocalSubnet,
         SetLocalSubnetEnabled, Learn, SetStatus, vars

LEMMA Cases ==
  ASSUME TypeOK, FormsInv, [Next]_vars
  PROVE  \/ \E r \in Requests : Save(r) /\ Goes(r) /\ UNCHANGED <<writer, saves>>
         \/ \E r \in Requests : /\ Posted(r) /\ saves' \in 0..MaxSaves
                                 /\ req' \in [Requests -> Request]
                                 /\ \A s \in Requests : s # r => req'[s] = req[s]
         \/ Statement
  BY SaveGoes, PostType, PostLocalType DEF Next, Statement

LEMMA Forms_Next ==
  ASSUME TypeOK, FormsInv, HolderInv, [Next]_vars
  PROVE  FormsInv' /\ HolderInv' /\ req' \in [Requests -> Request] /\ saves' \in 0..MaxSaves
  <1>1. req \in [Requests -> Request] /\ saves \in 0..MaxSaves
    BY ReqType DEF TypeOK
  <1>2. ASSUME NEW r \in Requests, Goes(r), UNCHANGED saves
        PROVE  FormsInv' /\ HolderInv' /\ req' \in [Requests -> Request] /\ saves' \in 0..MaxSaves
    <2>1. FormsInv'
      BY <1>2 DEF FormsInv, Goes
    <2>2. HolderInv'
      BY <1>2, ConstantsType DEF HolderInv, Goes, InTx
    <2> QED BY <1>1, <1>2, <2>1, <2>2 DEF Goes
  <1>3. ASSUME NEW r \in Requests, Posted(r), \A s \in Requests : s # r => req'[s] = req[s]
        PROVE  FormsInv' /\ HolderInv'
    BY <1>3 DEF FormsInv, HolderInv, Posted, InTx
  <1>4. CASE Statement
    BY <1>1, <1>4, StatementReq DEF FormsInv, HolderInv
  <1> QED BY <1>2, <1>3, <1>4, Cases

-----------------------------------------------------------------------------
(* Rows *)

(* A nonempty set of natural numbers has a least element. *)
LEMMA LeastElement ==
  ASSUME NEW T \in SUBSET Nat, T # {}
  PROVE  \E x \in T : \A y \in T : x <= y
  <1>1. PICK x \in T : \A y \in T : ~(<<y, x>> \in OpToRel(<, Nat))
    BY NatLessThanWellFounded, WFMin
  <1>2. \A y \in T : ~(y < x)
    BY <1>1 DEF OpToRel
  <1> QED BY <1>2

(* The next id is free, above all that are in use, and no larger than any  *)
(* other id that is.                                                       *)
LEMMA NextIdType ==
  ASSUME NEW m \in Ids, \A j \in Rows : j < m
  PROVE  NextId \in Ids /\ NextId <= m /\ \A j \in Rows : j < NextId
  <1> DEFINE T == {i \in Ids : \A j \in Rows : j < i}
             Fits(i) == /\ \A j \in Rows : j < i
                        /\ \A k \in 1..(i - 1) : \E j \in Rows : j >= k
  <1>1. Ids \subseteq Nat /\ Rows \subseteq Ids /\ \A i \in Ids : \A k \in 1..(i - 1) : k \in Ids
    BY ConstantsType DEF Ids, Rows
  <1>2. T \in SUBSET Nat /\ T # {}
    BY <1>1
  <1>3. PICK x \in T : \A y \in T : x <= y
    BY <1>2, LeastElement
  <1>4. Fits(x)
    <2>1. ASSUME NEW k \in 1..(x - 1) PROVE \E j \in Rows : j >= k
      <3>1. k \in Ids /\ ~(x <= k)
        BY <1>1, <1>3
      <3>2. k \notin T
        BY <1>3, <3>1
      <3> QED BY <1>1, <3>1, <3>2
    <2> QED BY <2>1
  <1>5. \E i \in Ids : Fits(i)
    BY <1>4
  <1>6. NextId = CHOOSE i \in Ids : Fits(i)
    BY DEF NextId
  <1>7. NextId \in Ids /\ Fits(NextId)
    <2> HIDE DEF Fits
    <2> QED BY <1>5, <1>6
  <1>8. NextId <= m
    <2> SUFFICES ASSUME ~(NextId <= m) PROVE FALSE
      OBVIOUS
    <2>1. m \in 1..(NextId - 1)
      BY <1>1, <1>7, ConstantsType DEF Ids
    <2>2. PICK j \in Rows : j >= m
      BY <1>7, <2>1
    <2> QED BY <1>1, <2>2
  <1> QED BY <1>7, <1>8

LEMMA NewRowType ==
  ASSUME NEW f \in Request, f.save \in Ids, f.name \in Names, f.subnets \in SubnetLists
  PROVE  /\ NewRow(f) \in Row /\ NewRow(f) # None /\ NewRow(f).subnets = f.subnets
         /\ NewRow(f).psk = NewRow(f).due["psk"]
         /\ NewRow(f).password = NewRow(f).due["password"]
  <1>1. f.enabled \in BOOLEAN
    BY DEF Request
  <1>2. NewRow(f) \in Row
    BY <1>1 DEF NewRow, Row
  <1> QED BY <1>2, ConstantsType DEF NewRow, Secrets

LEMMA UpdatedType ==
  ASSUME NEW f \in Request, f.save \in Ids, f.name \in Names, f.subnets \in SubnetLists,
         NEW row \in Row
  PROVE  /\ Updated(row, f) \in Row /\ Updated(row, f).subnets = f.subnets
         /\ Updated(row, f).psk = row.psk /\ Updated(row, f).password = row.password
         /\ \A k \in Secrets : Updated(row, f).due[k] = IF k \in f.secrets THEN f.save
                                                       ELSE row.due[k]
  <1> DEFINE d == [k \in Secrets |-> IF k \in f.secrets THEN f.save ELSE row.due[k]]
  <1>1. f.enabled \in BOOLEAN /\ row.due \in [Secrets -> Ids]
    BY DEF Request, Row
  <1>2. d \in [Secrets -> Ids] /\ \A k \in Secrets : d[k] = IF k \in f.secrets THEN f.save
                                                       ELSE row.due[k]
    BY <1>1
  <1>3. Updated(row, f) = [row EXCEPT !.name = f.name, !.subnets = f.subnets,
                                      !.enabled = f.enabled, !.due = d]
    BY DEF Updated
  <1> HIDE DEF d
  <1>4. /\ Updated(row, f) \in Row /\ Updated(row, f).subnets = f.subnets
        /\ Updated(row, f).psk = row.psk /\ Updated(row, f).password = row.password
        /\ Updated(row, f).due = d
    BY <1>1, <1>2, <1>3 DEF Row
  <1> QED BY <1>2, <1>4

(* An INSERT adds a row for which there is room. *)
LEMMA InsertRow ==
  ASSUME TypeOK, FormsInv, IdsInv, NEW r \in Requests, Insert(r)
  PROVE  \/ UNCHANGED conns
         \/ \E i \in Ids \ Rows, row \in Row :
              /\ conns' = [conns EXCEPT ![i] = row]
              /\ i + Cardinality(Creating) <= saves + 1
              /\ row.subnets = req[r].subnets
              /\ row.psk = row.due["psk"] /\ row.password = row.due["password"]
  <1>1. req[r] \in Request /\ FormInv(req[r]) /\ req[r].op = "create" /\ r \in Creating
    BY ReqType DEF FormsInv, Insert, Creating
  <1>2. IsFiniteSet(Creating) /\ Cardinality(Creating) \in Nat \ {0}
    BY <1>1, ConstantsType, FS_Subset, FS_CardinalityType, FS_EmptySet DEF Creating
  <1> DEFINE m == saves + 1 - Cardinality(Creating)
  <1>3. Rows \subseteq Nat
    BY DEF Rows, Ids
  <1>4. saves \in 0..MaxSaves /\ MaxSaves \in Nat
    BY ConstantsType DEF TypeOK
  <1>5. m \in Ids
    BY <1>2, <1>4 DEF IdsInv, Ids
  <1>6. \A j \in Rows : j < m
    BY <1>2, <1>3, <1>4 DEF IdsInv
  <1>7. NextId \in Ids /\ NextId <= m /\ \A j \in Rows : j < NextId
    BY <1>5, <1>6, NextIdType
  <1>8. NextId \notin Rows
    <2>1. NextId \in Nat
      BY <1>7 DEF Ids
    <2> QED BY <1>7, <2>1
  <1>9. NextId + Cardinality(Creating) <= saves + 1
    BY <1>2, <1>4, <1>7 DEF Ids
  <1>10. UNCHANGED conns \/ conns' = [conns EXCEPT ![NextId] = NewRow(req[r])]
    BY DEF Insert
  <1>11. /\ NewRow(req[r]) \in Row /\ NewRow(req[r]).subnets = req[r].subnets
         /\ NewRow(req[r]).psk = NewRow(req[r]).due["psk"]
         /\ NewRow(req[r]).password = NewRow(req[r]).due["password"]
    BY <1>1, NewRowType DEF FormInv
  <1> QED BY <1>7, <1>8, <1>9, <1>10, <1>11

-----------------------------------------------------------------------------
(* Transactions *)

Table == [Ids -> Row \cup {None}]

LEMMA Draft_Update ==
  ASSUME Inv, NEW r \in Requests, Update(r), holder' = r
  PROVE  draft' \in Table /\ DraftInv'
  <1> DEFINE i == req[r].id
  <1>1. req[r] \in Request /\ FormInv(req[r]) /\ req[r].op = "update" /\ holder = None
        /\ req[r].pc = "write" /\ req \in [Requests -> Request]
    BY ReqType DEF Inv, FormsInv, Update, Free, At
  <1>2. i \in Ids /\ req[r].save \in Ids /\ req[r].name \in Names /\ req[r].subnets \in SubnetLists
    BY <1>1 DEF FormInv
  <1>3. /\ draft' = IF conns[i] = None THEN conns
                    ELSE [conns EXCEPT ![i] = Updated(conns[i], req[r])]
        /\ Goto(r, AfterUpdate(r, {})) /\ UNCHANGED conns
    BY <1>1, ConstantsType DEF Update
  <1>4. conns \in Table
    BY DEF Inv, TypeOK, Table
  <1>5. ASSUME conns[i] # None
        PROVE  LET row == Updated(conns[i], req[r]) IN
               /\ row \in Row /\ row.psk = conns[i].psk /\ row.password = conns[i].password
               /\ \A k \in Secrets : row.due[k] = IF k \in req[r].secrets THEN req[r].save
                                                 ELSE conns[i].due[k]
    <2>1. conns[i] \in Row
      BY <1>2, <1>4, <1>5 DEF Table
    <2> QED BY <1>1, <1>2, <2>1, UpdatedType
  <1>6. AfterUpdate(r, {}) \in InTx
    BY AfterUpdateType
  <1>7. req'[r].pc = AfterUpdate(r, {}) /\ Same(req'[r], req[r])
    BY <1>1, <1>3, <1>6, GotoType DEF Pcs, InTx
  <1>8. draft' \in Table
    BY <1>3, <1>4, <1>5 DEF Table
  <1>9. /\ \A j \in Ids : draft'[j] = None <=> conns[j] = None
        /\ \A j \in Ids \ {i} : draft'[j] = conns[j]
    BY <1>2, <1>3, <1>4, <1>5, ConstantsType DEF Table
  <1>10. ASSUME draft'[i] # None PROVE DraftRow(req'[r], draft'[i])
    <2>1. conns[i] # None
      BY <1>2, <1>9, <1>10
    <2>2. draft'[i] = Updated(conns[i], req[r])
      BY <1>2, <1>3, <1>4, <2>1 DEF Table
    <2> DEFINE row == Updated(conns[i], req[r])
    <2>3. /\ row.psk = conns[i].due["psk"] /\ row.password = conns[i].due["password"]
          /\ row.due["psk"] = IF "psk" \in req[r].secrets THEN req[r].save
                              ELSE conns[i].due["psk"]
          /\ row.due["password"] = IF "password" \in req[r].secrets THEN req[r].save
                                   ELSE conns[i].due["password"]
      BY <1>2, <1>5, <2>1 DEF Inv, EditIsWhole, Rows, Secrets
    <2>4. /\ "psk" \in Left(req'[r]) <=> "psk" \in req[r].secrets
          /\ "password" \in Left(req'[r]) <=> "password" \in req[r].secrets
      BY <1>7 DEF Left, AfterUpdate, Same
    <2> HIDE DEF row
    <2>5. draft'[i] = row
      BY <2>2 DEF row
    <2> QED BY <1>7, <2>3, <2>4, <2>5 DEF DraftRow, Same
  <1>11. req'[r].id = i
    BY <1>7 DEF Same
  <1> HIDE DEF i
  <1> QED BY <1>3, <1>8, <1>9, <1>10, <1>11 DEF DraftInv, Table

(* What a transaction writes is a field of its row. *)
LEMMA Draft_Set ==
  ASSUME Inv, NEW r \in Requests, SetPSK(r) \/ SetPassword(r), UNCHANGED holder
  PROVE  draft' \in Table /\ DraftInv'
  <1> DEFINE i == req[r].id
  <1>1. req[r] \in Request /\ FormInv(req[r]) /\ req \in [Requests -> Request]
    BY ReqType DEF Inv, FormsInv
  <1>2. req[r].pc \in {"psk", "password"} /\ req[r].op = "update" /\ i \in Ids
        /\ req[r].save \in Ids /\ holder = r
    BY <1>1 DEF FormInv, InTx, SetPSK, SetPassword, At, Inv, HolderInv
  <1>3. /\ draft \in Table
        /\ \A j \in Ids : draft[j] = None <=> conns[j] = None
        /\ \A j \in Ids \ {i} : draft[j] = conns[j]
        /\ draft[i] # None => DraftRow(req[r], draft[i])
        /\ UNCHANGED conns
    BY <1>2 DEF Inv, DraftInv, Table, SetPSK, SetPassword
  <1>4. /\ SetPSK(r) =>
              /\ draft' = IF draft[i] = None THEN draft
                          ELSE [draft EXCEPT ![i].psk = req[r].save]
              /\ Goto(r, AfterUpdate(r, {"psk"})) /\ req[r].pc = "psk"
        /\ SetPassword(r) =>
              /\ draft' = IF draft[i] = None THEN draft
                          ELSE [draft EXCEPT ![i].password = req[r].save]
              /\ Goto(r, "commit") /\ req[r].pc = "password"
    BY <1>2, ConstantsType DEF SetPSK, SetPassword, Rollback, At
  <1>5. AfterUpdate(r, {"psk"}) \in Pcs /\ "commit" \in Pcs
    BY AfterUpdateType DEF Pcs, InTx
  <1>6. /\ Same(req'[r], req[r])
        /\ SetPSK(r) => req'[r].pc = AfterUpdate(r, {"psk"})
        /\ SetPassword(r) => req'[r].pc = "commit"
    BY <1>1, <1>4, <1>5, GotoType
  <1>7. CASE draft[i] = None
    <2>1. UNCHANGED draft
      BY <1>4, <1>7
    <2>2. req'[r].id = i
      BY <1>6 DEF Same
    <2> HIDE DEF i
    <2> QED BY <1>2, <1>3, <1>7, <2>1, <2>2 DEF DraftInv, Table
  <1>8. CASE draft[i] # None
    <2>1. PICK row \in Row : row = draft[i]
      BY <1>2, <1>3, <1>8 DEF Table
    <2>2. \E new \in Row :
            /\ draft' = [draft EXCEPT ![i] = new] /\ new.due = row.due
            /\ SetPSK(r) => new.psk = req[r].save /\ new.password = row.password
            /\ ~SetPSK(r) => new.password = req[r].save /\ new.psk = row.psk
      <3>1. CASE SetPSK(r)
        <4> DEFINE new == [row EXCEPT !.psk = req[r].save]
        <4>1. new \in Row /\ new.psk = req[r].save /\ new.password = row.password
              /\ new.due = row.due
          BY <1>2 DEF Row
        <4>2. draft' = [draft EXCEPT ![i] = new]
          BY <1>4, <1>8, <2>1, <3>1
        <4> HIDE DEF new
        <4> QED BY <3>1, <4>1, <4>2
      <3>2. CASE ~SetPSK(r)
        <4> DEFINE new == [row EXCEPT !.password = req[r].save]
        <4>1. new \in Row /\ new.password = req[r].save /\ new.psk = row.psk
              /\ new.due = row.due
          BY <1>2 DEF Row
        <4>2. draft' = [draft EXCEPT ![i] = new]
          BY <1>4, <1>8, <2>1, <3>2
        <4> HIDE DEF new
        <4> QED BY <3>2, <4>1, <4>2
      <3> QED BY <3>1, <3>2
    <2>3. PICK new \in Row :
            /\ draft' = [draft EXCEPT ![i] = new] /\ new.due = row.due
            /\ SetPSK(r) => new.psk = req[r].save /\ new.password = row.password
            /\ ~SetPSK(r) => new.password = req[r].save /\ new.psk = row.psk
      BY <2>2
    <2>4. /\ draft' \in Table /\ draft'[i] = new
          /\ \A j \in Ids : draft'[j] = None <=> conns[j] = None
          /\ \A j \in Ids \ {i} : draft'[j] = conns[j]
      BY <1>2, <1>3, <1>8, <2>3, ConstantsType DEF Table
    <2>5. DraftRow(req'[r], new)
      <3>1. DraftRow(req[r], row)
        BY <1>3, <1>8, <2>1
      <3>2. CASE SetPSK(r)
        <4>1. /\ row.due["psk"] = req[r].save
              /\ "password" \in Left(req'[r]) <=> "password" \in Left(req[r])
              /\ "psk" \notin Left(req'[r])
          BY <1>1, <1>4, <1>6, <3>1, <3>2 DEF DraftRow, Left, AfterUpdate, Same, FormInv
        <4> QED BY <1>6, <2>3, <3>1, <3>2, <4>1 DEF DraftRow, Same
      <3>3. CASE ~SetPSK(r)
        <4>1. /\ req[r].pc = "password" /\ req'[r].pc = "commit"
          BY <1>4, <1>6, <3>3
        <4>2. Left(req[r]) = {"password"} /\ Left(req'[r]) = {}
          BY <4>1 DEF Left
        <4> QED BY <1>6, <2>3, <3>1, <3>3, <4>2 DEF DraftRow, Same
      <3> QED BY <3>2, <3>3
    <2>6. req'[r].id = i
      BY <1>6 DEF Same
    <2> HIDE DEF i
    <2> QED BY <1>2, <1>3, <2>4, <2>5, <2>6 DEF DraftInv, Table
  <1> QED BY <1>7, <1>8

LEMMA Draft_Next ==
  ASSUME Inv, [Next]_vars
  PROVE  DraftInv' /\ draft' \in Table \cup {None} /\ holder' \in Requests \cup {None}
  <1>1. /\ draft \in Table \cup {None} /\ holder \in Requests \cup {None} /\ HolderInv
        /\ draft' \in Table \cup {None} <=> draft' \in Table \/ draft' = None
    BY DEF Inv, TypeOK, Table
  <1>2. ASSUME holder' = None PROVE DraftInv'
    BY <1>2, ConstantsType DEF DraftInv
  <1>3. ASSUME NEW r \in Requests, Save(r)
        PROVE  DraftInv' /\ draft' \in Table \cup {None} /\ holder' \in Requests \cup {None}
    <2>1. CASE Update(r) /\ holder' = r
      BY <1>1, <2>1, Draft_Update
    <2>2. CASE (SetPSK(r) \/ SetPassword(r)) /\ UNCHANGED holder
      BY <1>1, <2>2, Draft_Set
    <2>3. CASE holder' = None /\ (UNCHANGED draft \/ draft' = None)
      BY <1>1, <1>2, <2>3
    <2> QED BY <1>3, <2>1, <2>2, <2>3
            DEF Save, Lookup, ReadConns, ReadLocals, Insert, InsertLocal, Update, SetPSK,
                SetPassword, Commit, Rollback, Free
  <1>4. ASSUME NEW r \in Requests, Posted(r), \A s \in Requests : s # r => req'[s] = req[s]
        PROVE  DraftInv' /\ draft' \in Table \cup {None} /\ holder' \in Requests \cup {None}
    <2>1. holder # r /\ UNCHANGED <<conns, draft, holder>>
      BY <1>1, <1>4 DEF Posted, HolderInv, InTx
    <2> QED BY <1>1, <1>4, <2>1 DEF Inv, DraftInv
  <1>5. CASE Statement
    <2>1. UNCHANGED <<req, holder, draft>> /\ (holder = None \/ UNCHANGED conns)
      BY <1>5, StatementReq
         DEF Statement, DeleteConnection, SetConnectionEnabled, DeleteLocalSubnet,
             SetLocalSubnetEnabled, Learn, SetStatus, vars, Free
    <2>2. CASE holder = None
      BY <1>1, <1>2, <2>1, <2>2
    <2>3. CASE UNCHANGED conns
      BY <1>1, <2>1, <2>3 DEF Inv, DraftInv
    <2> QED BY <2>1, <2>2, <2>3
  <1> QED BY <1>3, <1>4, <1>5, Cases DEF Inv

-----------------------------------------------------------------------------
(* The tables *)

Whole(row) == row.psk = row.due["psk"] /\ row.password = row.due["password"]

(* What a step does to the table: nothing, a row in the place of one that  *)
(* may have been there, a row that goes, or the draft.                     *)
LEMMA ConnsSteps ==
  ASSUME Inv, [Next]_vars
  PROVE  \/ UNCHANGED conns
         \/ \E r \in Requests : Insert(r) /\ ~UNCHANGED conns
         \/ \E i \in Rows, on \in BOOLEAN : /\ conns' = [conns EXCEPT ![i].enabled = on]
                                           /\ UNCHANGED <<locals, rows, req, saves>>
         \/ \E i \in Rows : conns' = [conns EXCEPT ![i] = None] /\ rows' = rows \ {i}
                            /\ UNCHANGED <<locals, req, saves>>
         \/ \E r \in Requests : Commit(r) /\ holder = r /\ conns' = draft
  <1>1. \A r \in Requests : Commit(r) => holder = r
    BY DEF Commit, At, Inv, HolderInv, InTx
  <1> QED BY <1>1, Cases
          DEF Inv, Posted, Save, Lookup, ReadConns, ReadLocals, Insert, InsertLocal, Update,
              SetPSK, SetPassword, Commit, Statement, DeleteConnection, SetConnectionEnabled,
              DeleteLocalSubnet, SetLocalSubnetEnabled, Learn, SetStatus, vars

LEMMA Commits ==
  ASSUME Inv, NEW r \in Requests, Commit(r), holder = r, conns' = draft
  PROVE  conns' \in Table /\ EditIsWhole' /\ Rows' = Rows
  <1>1. /\ draft \in Table
        /\ \A i \in Ids : draft[i] = None <=> conns[i] = None
        /\ \A i \in Ids \ {req[r].id} : draft[i] = conns[i]
        /\ draft[req[r].id] # None => DraftRow(req[r], draft[req[r].id])
    BY DEF Inv, DraftInv, Table
  <1>2. Left(req[r]) = {}
    BY DEF Left, Commit, At
  <1>3. \A i \in Rows : Whole(conns[i])
    BY DEF Inv, EditIsWhole, Whole
  <1>4. Rows' = Rows
    BY <1>1 DEF Rows
  <1>5. draft[req[r].id] # None => Whole(draft[req[r].id])
    BY <1>1, <1>2 DEF DraftRow, Whole
  <1>6. \A i \in Rows : Whole(draft[i])
    BY <1>1, <1>3, <1>5 DEF Rows
  <1> QED BY <1>1, <1>4, <1>6 DEF EditIsWhole, Whole

LEMMA Conns_Next ==
  ASSUME Inv, [Next]_vars
  PROVE  /\ conns' \in Table /\ EditIsWhole'
         /\ \/ Rows' \subseteq Rows
            \/ \E r \in Requests : Insert(r) /\ \E i \in Ids :
                 Rows' = Rows \cup {i} /\ i + Cardinality(Creating) <= saves + 1
         /\ \/ Rows \subseteq Rows'
            \/ \E i \in Rows : Rows' = Rows \ {i} /\ rows' = rows \ {i}
  <1>1. conns \in Table /\ \A i \in Rows : Whole(conns[i]) /\ i \in Ids /\ conns[i] \in Row
    BY DEF Inv, TypeOK, Table, EditIsWhole, Whole, Rows
  <1>2. CASE UNCHANGED conns
    BY <1>1, <1>2 DEF Inv, EditIsWhole, Rows
  <1>3. ASSUME NEW r \in Requests, Insert(r), ~UNCHANGED conns
        PROVE  /\ conns' \in Table /\ EditIsWhole'
               /\ \E i \in Ids :
                    Rows' = Rows \cup {i} /\ i + Cardinality(Creating) <= saves + 1
    <2>1. PICK i \in Ids \ Rows, row \in Row :
            /\ conns' = [conns EXCEPT ![i] = row] /\ i + Cardinality(Creating) <= saves + 1
            /\ row.psk = row.due["psk"] /\ row.password = row.due["password"]
      BY <1>3, InsertRow DEF Inv
    <2>2. row # None
      BY ConstantsType
    <2>3. conns' \in Table /\ Rows' = Rows \cup {i}
      BY <1>1, <2>1, <2>2 DEF Table, Rows
    <2>4. conns'[i] = row /\ \A j \in Rows : conns'[j] = conns[j]
      BY <1>1, <2>1 DEF Table
    <2>5. EditIsWhole'
      BY <1>1, <2>1, <2>3, <2>4 DEF EditIsWhole, Whole
    <2> QED BY <2>1, <2>3, <2>5
  <1>4. ASSUME NEW i \in Rows, NEW on \in BOOLEAN, conns' = [conns EXCEPT ![i].enabled = on]
        PROVE  conns' \in Table /\ EditIsWhole' /\ Rows' = Rows
    <2> DEFINE row == [conns[i] EXCEPT !.enabled = on]
    <2>1. row \in Row /\ Whole(row)
      BY <1>1 DEF Row, Whole
    <2>2. conns' = [conns EXCEPT ![i] = row]
      BY <1>4
    <2> HIDE DEF row
    <2>3. row # None
      BY <2>1, ConstantsType
    <2>4. conns' \in Table /\ Rows' = Rows
      BY <1>1, <2>1, <2>2, <2>3 DEF Table, Rows
    <2>5. conns'[i] = row /\ \A j \in Rows : j # i => conns'[j] = conns[j]
      BY <1>1, <2>2 DEF Table
    <2>6. \A j \in Rows : Whole(conns'[j])
      BY <1>1, <2>1, <2>5
    <2> QED BY <2>4, <2>6 DEF EditIsWhole, Whole
  <1>5. ASSUME NEW i \in Rows, conns' = [conns EXCEPT ![i] = None]
        PROVE  conns' \in Table /\ EditIsWhole' /\ Rows' = Rows \ {i}
    <2>1. conns' \in Table /\ Rows' = Rows \ {i} /\ \A j \in Rows : j # i => conns'[j] = conns[j]
      BY <1>1, <1>5 DEF Table, Rows
    <2> QED BY <1>1, <2>1 DEF EditIsWhole, Whole
  <1>6. ASSUME NEW r \in Requests, Commit(r), holder = r, conns' = draft
        PROVE  conns' \in Table /\ EditIsWhole' /\ Rows' = Rows
    BY <1>6, Commits
  <1> QED BY <1>2, <1>3, <1>4, <1>5, <1>6, ConnsSteps

LEMMA StatementRows ==
  ASSUME TypeOK, Statement
  PROVE  Rows' \subseteq Rows
  <1>1. \/ UNCHANGED conns
        \/ \E i \in Rows, on \in BOOLEAN : conns' = [conns EXCEPT ![i].enabled = on]
        \/ \E i \in Rows : conns' = [conns EXCEPT ![i] = None]
    BY DEF Statement, DeleteConnection, SetConnectionEnabled, DeleteLocalSubnet,
           SetLocalSubnetEnabled, Learn, SetStatus, vars
  <1>2. \A j \in Ids \ Rows : conns[j] = None
    BY DEF Rows
  <1>3. \A j \in Ids \ Rows : conns'[j] = None
    BY <1>1, <1>2 DEF TypeOK
  <1> QED BY <1>3 DEF Rows

LEMMA Creating_Goes ==
  ASSUME TypeOK, NEW r \in Requests, Goes(r)
  PROVE  Cardinality(Creating') <= Cardinality(Creating)
  <1>1. Creating' \subseteq Creating
    BY IdleType DEF Goes, Same, Creating
  <1> QED BY <1>1, ConstantsType, FS_Subset DEF Creating

LEMMA CreatingType ==
  /\ IsFiniteSet(Creating) /\ Cardinality(Creating) \in Nat
  /\ IsFiniteSet(Creating') /\ Cardinality(Creating') \in Nat
  BY ConstantsType, FS_Subset, FS_CardinalityType DEF Creating

(* A form that creates a connection takes one more id; its INSERT uses it. *)
LEMMA Ids_Next ==
  ASSUME Inv, [Next]_vars
  PROVE  IdsInv'
  <1>1. saves \in Nat /\ Rows \subseteq Nat /\ Cardinality(Creating) \in Nat
        /\ Cardinality(Creating') \in Nat
    BY CreatingType, ConstantsType DEF Inv, TypeOK, Rows, Ids
  <1>2. ASSUME Rows' \subseteq Rows, UNCHANGED saves, Cardinality(Creating') <= Cardinality(Creating)
        PROVE  IdsInv'
    BY <1>1, <1>2 DEF Inv, IdsInv
  <1>3. ASSUME NEW r \in Requests, Save(r) PROVE IdsInv'
    <2>1. Goes(r) /\ UNCHANGED saves /\ Cardinality(Creating') <= Cardinality(Creating)
      BY <1>3, SaveGoes, Creating_Goes DEF Inv
    <2>2. CASE Rows' \subseteq Rows
      BY <1>2, <2>1, <2>2
    <2>3. ASSUME NEW q \in Requests, Insert(q), NEW i \in Ids,
                 Rows' = Rows \cup {i}, i + Cardinality(Creating) <= saves + 1
          PROVE  IdsInv'
      <3>1. req[q].op = "create" /\ Done(q)
        BY <2>3 DEF Insert
      <3>2. Creating' = Creating \ {q} /\ q \in Creating
        BY <3>1, DoneType, ReqType, IdleType DEF Creating, Inv
      <3>3. Cardinality(Creating') = Cardinality(Creating) - 1
        BY <3>2, CreatingType, FS_RemoveElement
      <3>4. i \in Nat
        BY DEF Ids
      <3> QED BY <1>1, <2>1, <2>3, <3>3, <3>4 DEF Inv, IdsInv
    <2> QED BY <2>2, <2>3, Conns_Next
  <1>4. ASSUME NEW r \in Requests, Posted(r), \A s \in Requests : s # r => req'[s] = req[s]
        PROVE  IdsInv'
    <2>1. Rows' = Rows
      BY <1>4 DEF Posted, Rows
    <2>2. CASE saves' = saves + 1
      <3>1. Creating' \subseteq Creating \cup {r}
        BY <1>4 DEF Creating
      <3>2. /\ IsFiniteSet(Creating \cup {r})
            /\ Cardinality(Creating \cup {r}) <= Cardinality(Creating) + 1
        <4>1. Cardinality(Creating \cup {r}) \in {Cardinality(Creating), Cardinality(Creating) + 1}
          BY CreatingType, FS_AddElement
        <4>2. IsFiniteSet(Creating \cup {r})
          BY CreatingType, FS_AddElement
        <4> QED BY <1>1, <4>1, <4>2
      <3>3. Cardinality(Creating') <= Cardinality(Creating \cup {r})
        BY <3>1, <3>2, FS_Subset
      <3>4. Cardinality(Creating \cup {r}) \in Nat
        BY <3>2, FS_CardinalityType
      <3> QED BY <1>1, <2>1, <2>2, <3>2, <3>3, <3>4 DEF Inv, IdsInv
    <2>3. CASE saves' = saves /\ req'[r].op = "local"
      <3>1. Creating' \subseteq Creating
        BY <1>4, <2>3 DEF Creating
      <3>2. Cardinality(Creating') <= Cardinality(Creating)
        BY <3>1, CreatingType, FS_Subset
      <3> QED BY <1>2, <2>1, <2>3, <3>2
    <2> QED BY <1>4, <2>2, <2>3 DEF Posted
  <1>5. CASE Statement
    <2>1. Creating' = Creating /\ UNCHANGED saves
      BY <1>5, StatementReq DEF Creating
    <2>2. Rows' \subseteq Rows
      BY <1>5, StatementRows DEF Inv
    <2> QED BY <1>1, <1>2, <2>1, <2>2
  <1> QED BY <1>3, <1>4, <1>5, Cases DEF Inv

LEMMA Status_Next ==
  ASSUME Inv, [Next]_vars
  PROVE  rows' \in SUBSET Ids /\ StatusHasConnection'
  <1>1. rows \subseteq Rows /\ Rows \subseteq Ids /\ Rows' \subseteq Ids
    BY DEF Inv, StatusHasConnection, Rows
  <1>2. rows' \subseteq rows \cup Rows
    BY Cases DEF Inv, Posted, Save, Lookup, ReadConns, ReadLocals, Insert, InsertLocal, Update,
           SetPSK, SetPassword, Commit, Statement, DeleteConnection, SetConnectionEnabled,
           DeleteLocalSubnet, SetLocalSubnetEnabled, Learn, SetStatus, vars
  <1> QED BY <1>1, <1>2, Conns_Next DEF StatusHasConnection

LEMMA Locals_Next ==
  ASSUME Inv, [Next]_vars
  PROVE  locals' \in [Prefixes -> {"absent", "on", "off"}] /\ writer' \in [Writers -> 0..MaxSaves]
  <1>1. locals \in [Prefixes -> {"absent", "on", "off"}] /\ writer \in [Writers -> 0..MaxSaves]
        /\ Rows \subseteq 0..MaxSaves
    BY ConstantsType DEF Inv, TypeOK, Rows
  <1>2. \/ UNCHANGED locals
        \/ \E ps : locals' = [p \in Prefixes |-> IF p \in ps /\ locals[p] = "absent"
                                                THEN "on" ELSE locals[p]]
        \/ \E p \in Prefixes, to \in {"absent", "on", "off"} : locals' = [locals EXCEPT ![p] = to]
    BY Cases DEF Inv, Posted, Save, Lookup, ReadConns, ReadLocals, Insert, InsertLocal, Update,
           SetPSK, SetPassword, Commit, Statement, DeleteConnection, SetConnectionEnabled,
           DeleteLocalSubnet, SetLocalSubnetEnabled, Learn, SetStatus, vars
  <1>3. \/ UNCHANGED writer
        \/ \E w \in Writers, i \in Rows \cup {0} : writer' = [writer EXCEPT ![w] = i]
    BY Cases DEF Inv, Posted, Statement, DeleteConnection, SetConnectionEnabled,
           DeleteLocalSubnet, SetLocalSubnetEnabled, Learn, SetStatus, vars
  <1>4. locals' \in [Prefixes -> {"absent", "on", "off"}]
    BY <1>1, <1>2
  <1>5. writer' \in [Writers -> 0..MaxSaves]
    BY <1>1, <1>3, ConstantsType
  <1> QED BY <1>4, <1>5

(* Who has not read the table yet, or is done, misses nothing. *)
LEMMA StoresType ==
  ASSUME TypeOK, NEW r \in Requests, NEW ps \in SUBSET Prefixes, NEW read, Stores(r, ps, read)
  PROVE  /\ unseen' \in [Requests -> SUBSET Prefixes]
         /\ \A s \in Requests : unseen[s] \subseteq unseen'[s]
         /\ \A s \in Requests : s # r /\ req[s].pc \in read => ps \subseteq unseen'[s]
  <1>1. unseen \in [Requests -> SUBSET Prefixes]
    BY DEF TypeOK
  <1>2. \A s \in Requests : unseen'[s] = IF s # r /\ req[s].pc \in read THEN unseen[s] \cup ps
                                         ELSE unseen[s]
    BY DEF Stores
  <1>3. \A s \in Requests : unseen'[s] \in SUBSET Prefixes
    BY <1>1, <1>2
  <1>4. unseen' \in [Requests -> SUBSET Prefixes]
    BY <1>3 DEF Stores
  <1> QED BY <1>2, <1>4

LEMMA Unseen_Next ==
  ASSUME Inv, [Next]_vars
  PROVE  unseen' \in [Requests -> SUBSET Prefixes]
  <1>1. unseen \in [Requests -> SUBSET Prefixes] /\ \A r \in Requests : req[r].subnets \in SUBSET Prefixes
    BY ReqType DEF Inv, TypeOK, Request
  <1>2. ASSUME NEW r \in Requests, Save(r)
        PROVE  \/ UNCHANGED unseen
               \/ unseen' = [unseen EXCEPT ![r] = {}]
               \/ \E ps \in SUBSET Prefixes : \E read : Stores(r, ps, read)
    <2>1. {} \in SUBSET Prefixes /\ req[r].subnets \in SUBSET Prefixes
          /\ req[r].subnets \ Present \in SUBSET Prefixes
      BY <1>1
    <2>2. (IF draft[req[r].id] = None THEN {} ELSE req[r].subnets) \in SUBSET Prefixes
      BY <2>1
    <2> QED BY <1>2, <2>1, <2>2
            DEF Save, Lookup, ReadConns, ReadLocals, Insert, InsertLocal, Update, SetPSK,
                SetPassword, Commit
  <1>3. ASSUME NEW r \in Requests, unseen' = [unseen EXCEPT ![r] = {}]
        PROVE  unseen' \in [Requests -> SUBSET Prefixes]
    BY <1>1, <1>3
  <1> QED BY <1>1, <1>2, <1>3, Cases, StatementReq, StoresType DEF Inv, Posted

LEMMA Type_Next ==
  ASSUME Inv, [Next]_vars
  PROVE  TypeOK'
  <1>1. req' \in [Requests -> Request] /\ saves' \in 0..MaxSaves
    BY Forms_Next DEF Inv
  <1> QED BY <1>1, Conns_Next, Draft_Next, Status_Next, Locals_Next, Unseen_Next
          DEF TypeOK, Table, Request, Pcs

LEMMA Inv_Init == Init => Inv
  <1> SUFFICES ASSUME Init PROVE Inv
    OBVIOUS
  <1>1. Rows = {} /\ \A r \in Requests : req[r] = IdleRequest
    BY DEF Init, Rows
  <1>2. TypeOK
    <2>1. req \in [Requests -> Request]
      BY IdleType DEF Init
    <2> QED BY <2>1, ConstantsType DEF Init, TypeOK, Request, Pcs
  <1>3. FormsInv
    BY <1>1, IdleType DEF FormsInv, FormInv, InTx
  <1>4. HolderInv
    BY <1>1, IdleType, ConstantsType DEF Init, HolderInv, InTx
  <1>5. IdsInv
    <2>1. Creating = {}
      BY <1>1, IdleType DEF Creating
    <2>2. Cardinality(Creating) = 0
      BY <2>1, FS_EmptySet
    <2> QED BY <1>1, <2>2 DEF Init, IdsInv
  <1>6. DraftInv /\ EditIsWhole /\ StatusHasConnection
    BY <1>1, ConstantsType DEF Init, DraftInv, EditIsWhole, StatusHasConnection
  <1> QED BY <1>2, <1>3, <1>4, <1>5, <1>6 DEF Inv

LEMMA Inv_Next == Inv /\ [Next]_vars => Inv'
  <1> SUFFICES ASSUME Inv, [Next]_vars PROVE Inv'
    OBVIOUS
  <1>1. FormsInv' /\ HolderInv'
    BY Forms_Next DEF Inv
  <1> QED BY <1>1, Type_Next, Ids_Next, Draft_Next, Conns_Next, Status_Next DEF Inv

(* The invariant holds in every reachable state. *)
LEMMA InvHolds == Spec => []Inv
  <1> QED BY Inv_Init, Inv_Next, PTL DEF Spec

(* Every row is one that validation let through, and there is an id for    *)
(* every form that may still create one.                                   *)
THEOREM TypeCorrect == Spec => []TypeOK
  <1>1. Inv => TypeOK
    BY DEF Inv
  <1> QED BY <1>1, InvHolds, PTL

(* An edit is stored with its secrets or not at all, whatever fails in its *)
(* transaction and whatever other requests do before and after it.         *)
THEOREM EditsAreWhole == Spec => []EditIsWhole
  <1>1. Inv => EditIsWhole
    BY DEF Inv
  <1> QED BY <1>1, InvHolds, PTL

(* A status write that comes late leaves no row behind for a connection    *)
(* that was deleted meanwhile.                                             *)
THEOREM StatusIsOwned == Spec => []StatusHasConnection
  <1>1. Inv => StatusHasConnection
    BY DEF Inv
  <1> QED BY <1>1, InvHolds, PTL

-----------------------------------------------------------------------------
(* Routes: what comes to the tables while a request is on its way *)

Grows(cs, ls) ==
  /\ \A i \in Rows' : \/ i \in Rows /\ conns'[i].subnets = conns[i].subnets
                      \/ conns'[i].subnets \subseteq cs
  /\ Present' \subseteq Present \cup ls

LEMMA GrowsClaimed ==
  ASSUME NEW cs, NEW ls, Grows(cs, ls), NEW s, req'[s].id = req[s].id
  PROVE  Claimed(req[s].id)' \subseteq Claimed(req[s].id) \cup cs
  BY DEF Grows, Claimed

(* A step of another request leaves true what a request knows of the       *)
(* tables, if the request is told of what it could not see.                *)
LEMMA SeenOther ==
  ASSUME NEW s \in Requests, SeenBy(s), req'[s] = req[s], unseen[s] \subseteq unseen'[s],
         NEW cs, NEW ls, Grows(cs, ls), req[s].pc \notin InTx,
         req[s].pc \in {"locals", "write"} => cs \subseteq unseen'[s],
         req[s].pc = "write" => ls \subseteq unseen'[s]
  PROVE  SeenBy(s)'
  <1>1. Claimed(req[s].id)' \subseteq Claimed(req[s].id) \cup cs /\ Present' \subseteq Present \cup ls
    BY GrowsClaimed DEF Grows
  <1>2. req'[s].pc = "locals" => Claimed(req[s].id)' \subseteq req'[s].claimed \cup unseen'[s]
    BY <1>1 DEF SeenBy
  <1>3. ASSUME req[s].pc = "write" PROVE Clear(s)'
    <2>1. Clear(s)
      BY <1>3 DEF SeenBy
    <2>2. ASSUME NEW p \in req[s].subnets, NEW q \in Claimed(req[s].id)' \cup Present',
                 <<p, q>> \in Overlaps
          PROVE  q \in unseen'[s]
      BY <1>1, <1>3, <2>1, <2>2 DEF Clear
    <2> QED BY <2>2 DEF Clear
  <1> QED BY <1>2, <1>3 DEF SeenBy

(* A step that leaves the tables alone keeps what a request found clear. *)
LEMMA ClearSame ==
  ASSUME NEW s, Clear(s), UNCHANGED <<conns, locals>>, Same(req'[s], req[s]), unseen'[s] = unseen[s]
  PROVE  Clear(s)'
  BY DEF Clear, Claimed, Rows, Present, Same

LEMMA RoutesInBounds ==
  ASSUME TypeOK
  PROVE  /\ Present \in SUBSET Prefixes
         /\ \A i \in Rows : conns[i] \in Row /\ conns[i].subnets \in SUBSET Prefixes
  <1>1. \A i \in Rows : conns[i] \in Row
    BY DEF Rows, TypeOK
  <1> QED BY <1>1 DEF Row, SubnetLists, Present

LEMMA StatementGrows ==
  ASSUME Inv, Statement
  PROVE  Grows({}, {}) /\ UNCHANGED <<req, draft, unseen>>
  <1>1. \A i \in Rows : conns[i] \in Row /\ i \in Ids
    BY RoutesInBounds DEF Inv, Rows
  <1>2. conns \in Table /\ locals \in [Prefixes -> {"absent", "on", "off"}]
    BY DEF Inv, TypeOK, Table
  <1>3. Rows' \subseteq Rows
    BY StatementRows DEF Inv
  <1>4. \/ UNCHANGED conns
        \/ \E i \in Rows, on \in BOOLEAN : conns' = [conns EXCEPT ![i].enabled = on]
        \/ \E i \in Rows : conns' = [conns EXCEPT ![i] = None]
    BY DEF Statement, DeleteConnection, SetConnectionEnabled, DeleteLocalSubnet,
           SetLocalSubnetEnabled, Learn, SetStatus, vars
  <1>5. \/ UNCHANGED locals
        \/ \E p \in Present, to \in {"absent", "on", "off"} : locals' = [locals EXCEPT ![p] = to]
    BY DEF Statement, DeleteConnection, SetConnectionEnabled, DeleteLocalSubnet,
           SetLocalSubnetEnabled, Learn, SetStatus, vars, Present
  <1>6. \A i \in Rows' : conns'[i].subnets = conns[i].subnets
    <2>1. CASE UNCHANGED conns
      BY <2>1
    <2>2. ASSUME NEW i \in Rows, NEW on \in BOOLEAN, conns' = [conns EXCEPT ![i].enabled = on]
          PROVE  \A j \in Rows' : conns'[j].subnets = conns[j].subnets
      <3> DEFINE row == [conns[i] EXCEPT !.enabled = on]
      <3>1. row.subnets = conns[i].subnets
        BY <1>1 DEF Row
      <3>2. conns' = [conns EXCEPT ![i] = row]
        BY <2>2
      <3> HIDE DEF row
      <3> QED BY <1>1, <1>2, <1>3, <3>1, <3>2 DEF Table
    <2>3. ASSUME NEW i \in Rows, conns' = [conns EXCEPT ![i] = None]
          PROVE  \A j \in Rows' : conns'[j].subnets = conns[j].subnets
      BY <1>1, <1>2, <1>3, <2>3 DEF Table, Rows
    <2> QED BY <1>4, <2>1, <2>2, <2>3
  <1>7. Present' \subseteq Present
    BY <1>2, <1>5 DEF Present
  <1> QED BY <1>3, <1>6, <1>7, StatementReq DEF Grows

(* What an INSERT puts in the table, and what a COMMIT does. *)
LEMMA InsertGrows ==
  ASSUME Inv, NEW r \in Requests, Insert(r), ~UNCHANGED conns
  PROVE  \E i \in Ids \ Rows : /\ Rows' = Rows \cup {i} /\ conns'[i].subnets = req[r].subnets
                              /\ \A j \in Rows : conns'[j] = conns[j]
  <1>1. PICK i \in Ids \ Rows, row \in Row :
          conns' = [conns EXCEPT ![i] = row] /\ row.subnets = req[r].subnets
    BY InsertRow DEF Inv
  <1>2. conns \in Table /\ row # None /\ Rows \subseteq Ids
    BY ConstantsType DEF Inv, TypeOK, Table, Rows
  <1>3. Rows' = Rows \cup {i} /\ conns'[i] = row /\ \A j \in Rows : conns'[j] = conns[j]
    BY <1>1, <1>2 DEF Table, Rows
  <1> QED BY <1>1, <1>3

LEMMA CommitGrows ==
  ASSUME Inv, NEW r \in Requests, SeenBy(r), Commit(r), conns' = draft
  PROVE  /\ Rows' = Rows
         /\ \A j \in Rows \ {req[r].id} : conns'[j] = conns[j]
         /\ req[r].id \in Rows <=> draft[req[r].id] # None
         /\ req[r].id \in Rows => conns'[req[r].id].subnets = req[r].subnets
  <1>1. holder = r /\ req[r].pc \in InTx /\ req[r].id \in Ids
    BY DEF Inv, HolderInv, FormsInv, FormInv, Commit, At, InTx
  <1>2. Rows' = Rows
    BY <1>1, Commits
  <1>3. /\ \A j \in Ids \ {req[r].id} : draft[j] = conns[j]
        /\ draft[req[r].id] = None <=> conns[req[r].id] = None
    BY <1>1 DEF Inv, DraftInv
  <1> QED BY <1>1, <1>2, <1>3 DEF SeenBy, Rows

LEMMA SaveGrows ==
  ASSUME Inv, NEW r \in Requests, SeenBy(r), Save(r)
  PROVE  \E cs, ls : /\ Grows(cs, ls)
                     /\ \A s \in Requests \ {r} :
                          /\ unseen[s] \subseteq unseen'[s]
                          /\ req[s].pc \in {"locals", "write"} => cs \subseteq unseen'[s]
                          /\ req[s].pc = "write" => ls \subseteq unseen'[s]
  <1>1. TypeOK /\ unseen \in [Requests -> SUBSET Prefixes] /\ req[r].subnets \in SUBSET Prefixes
    BY ReqType DEF Inv, TypeOK, Request
  <1>2. ASSUME UNCHANGED <<conns, locals>>, \A s \in Requests \ {r} : unseen'[s] = unseen[s]
        PROVE  /\ Grows({}, {})
               /\ \A s \in Requests \ {r} : unseen[s] \subseteq unseen'[s]
    BY <1>2 DEF Grows, Rows, Present
  <1>3. CASE Insert(r)
    <2> DEFINE cs == req[r].subnets
    <2>1. UNCHANGED <<conns, unseen>> \/ Stores(r, cs, {"locals", "write"})
      BY <1>3 DEF Insert
    <2>2. CASE UNCHANGED <<conns, unseen>>
      BY <1>2, <1>3, <2>2 DEF Insert
    <2>3. CASE Stores(r, cs, {"locals", "write"})
      <3>1. Grows(cs, {})
        BY <1>2, <1>3, InsertGrows DEF Grows, Insert, Present, Rows
      <3>2. cs \in SUBSET Prefixes
        BY <1>1
      <3> HIDE DEF cs
      <3>3. /\ \A s \in Requests : unseen[s] \subseteq unseen'[s]
            /\ \A s \in Requests : s # r /\ req[s].pc \in {"locals", "write"} => cs \subseteq unseen'[s]
        BY <1>1, <2>3, <3>2, StoresType
      <3> QED BY <3>1, <3>3
    <2> QED BY <2>1, <2>2, <2>3
  <1>4. CASE InsertLocal(r)
    <2> DEFINE ls == req[r].subnets \ Present
    <2>1. Grows({}, ls)
      BY <1>4 DEF Grows, InsertLocal, Present, Rows
    <2>2. Stores(r, ls, {"write"}) /\ ls \in SUBSET Prefixes
      BY <1>1, <1>4 DEF InsertLocal
    <2> HIDE DEF ls
    <2>3. /\ \A s \in Requests : unseen[s] \subseteq unseen'[s]
          /\ \A s \in Requests : s # r /\ req[s].pc \in {"write"} => ls \subseteq unseen'[s]
      BY <1>1, <2>2, StoresType
    <2> QED BY <2>1, <2>3
  <1>5. CASE Commit(r)
    <2> DEFINE cs == IF draft[req[r].id] = None THEN {} ELSE req[r].subnets
    <2>1. \/ UNCHANGED <<conns, unseen>>
          \/ conns' = draft /\ Stores(r, cs, {"locals", "write"}) /\ cs \in SUBSET Prefixes
      BY <1>1, <1>5 DEF Commit
    <2>2. CASE UNCHANGED <<conns, unseen>>
      BY <1>2, <1>5, <2>2 DEF Commit
    <2>3. CASE conns' = draft /\ Stores(r, cs, {"locals", "write"}) /\ cs \in SUBSET Prefixes
      <3>1. Grows(cs, {})
        BY <1>5, <2>3, CommitGrows DEF Grows, Commit, Present
      <3> HIDE DEF cs
      <3>2. /\ \A s \in Requests : unseen[s] \subseteq unseen'[s]
            /\ \A s \in Requests : s # r /\ req[s].pc \in {"locals", "write"} => cs \subseteq unseen'[s]
        BY <1>1, <2>3, StoresType
      <3> QED BY <3>1, <3>2
    <2> QED BY <2>1, <2>2, <2>3
  <1>6. CASE ReadConns(r)
    <2>1. UNCHANGED <<conns, locals>> /\ unseen' = [unseen EXCEPT ![r] = {}]
      BY <1>6 DEF ReadConns
    <2>2. \A s \in Requests \ {r} : unseen'[s] = unseen[s]
      BY <1>1, <2>1
    <2> QED BY <1>2, <2>1, <2>2
  <1>7. CASE UNCHANGED <<conns, locals, unseen>>
    BY <1>2, <1>7
  <1> QED BY <1>3, <1>4, <1>5, <1>6, <1>7
          DEF Save, Lookup, ReadLocals, Update, SetPSK, SetPassword

(* The steps of a request itself: what it reads is what it has seen. *)
LEMMA SeenSave ==
  ASSUME Inv, NEW r \in Requests, SeenBy(r), Save(r)
  PROVE  SeenBy(r)'
  <1>1. /\ req \in [Requests -> Request] /\ unseen \in [Requests -> SUBSET Prefixes]
        /\ FormInv(req[r]) /\ (req[r].pc \in InTx <=> holder = r)
    BY ReqType DEF Inv, TypeOK, FormsInv, HolderInv
  <1>2. ASSUME req'[r].pc \in {"idle", "conns"} PROVE SeenBy(r)'
    BY <1>2 DEF SeenBy, InTx
  <1>3. ASSUME req[r].pc \in InTx \cup {"write"}, UNCHANGED <<conns, locals, unseen>>,
               Same(req'[r], req[r]), req'[r].pc \in InTx,
               draft'[req[r].id] # None => draft'[req[r].id].subnets = req[r].subnets
        PROVE  SeenBy(r)'
    <2>1. Clear(r)
      BY <1>3 DEF SeenBy
    <2>2. Clear(r)'
      BY <1>3, <2>1, ClearSame
    <2>3. req'[r].id = req[r].id /\ req'[r].subnets = req[r].subnets
      BY <1>3 DEF Same
    <2> QED BY <1>3, <2>2, <2>3 DEF SeenBy, InTx
  <1>4. CASE Lookup(r)
    <2>1. req'[r].pc \in {"idle", "conns"}
      BY <1>1, <1>4, DoneType, GotoType, IdleType DEF Lookup, Pcs
    <2> QED BY <1>2, <2>1
  <1>5. CASE ReadConns(r)
    <2> DEFINE ps == Claimed(req[r].id)
    <2>1. ps \in SUBSET Prefixes /\ "locals" \in Pcs /\ UNCHANGED conns
          /\ req' = [req EXCEPT ![r].pc = "locals", ![r].claimed = ps]
      BY <1>5, ClaimedType DEF Pcs, ReadConns, Inv
    <2> HIDE DEF ps
    <2>2. req'[r].pc = "locals" /\ req'[r].claimed = ps /\ Same(req'[r], req[r])
      <3>1. req' = [req EXCEPT ![r].pc = "locals", ![r].claimed = ps]
        BY <2>1
      <3>2. ps \in SUBSET Prefixes /\ "locals" \in Pcs /\ req \in [Requests -> Request]
        BY <1>1, <2>1
      <3>3. /\ req'[r].pc = "locals" /\ Same(req'[r], req[r])
            /\ \A s \in Requests : s # r => req'[s] = req[s]
        BY <3>1, <3>2, ReadType
      <3>4. req[r] \in Request /\ req'[r] = [req[r] EXCEPT !.pc = "locals", !.claimed = ps]
        BY <3>1, <3>2
      <3> QED BY <3>3, <3>4 DEF Request
    <2>3. Claimed(req[r].id)' = ps
      BY <2>1, <2>2 DEF Same, ps, Claimed, Rows
    <2> QED BY <2>2, <2>3 DEF SeenBy, InTx
  <1>6. CASE ReadLocals(r)
    <2>1. CASE Done(r)
      <3>1. req'[r].pc = "idle"
        BY <1>1, <2>1, DoneType, IdleType
      <3> QED BY <1>2, <3>1
    <2>2. CASE ~Done(r)
      <3>1. /\ ~Conflict(req[r].subnets, req[r].claimed \cup Present)
            /\ req[r].pc = "locals" /\ UNCHANGED <<conns, locals, unseen>>
            /\ req' = [req EXCEPT ![r].pc = "write", ![r].claimed = {}]
        BY <1>6, <2>2 DEF ReadLocals, At
      <3>2. {} \in SUBSET Prefixes /\ "write" \in Pcs
        BY DEF Pcs
      <3>3. req'[r].pc = "write" /\ Same(req'[r], req[r])
        BY <1>1, <3>1, <3>2, ReadType
      <3>4. Claimed(req[r].id) \subseteq req[r].claimed \cup unseen[r]
        BY <3>1 DEF SeenBy
      <3>5. Clear(r)
        BY <3>1, <3>4 DEF Clear, Conflict
      <3>6. Clear(r)'
        BY <3>1, <3>3, <3>5, ClearSame
      <3> QED BY <3>3, <3>6 DEF SeenBy, InTx
    <2> QED BY <2>1, <2>2
  <1>7. CASE Insert(r) \/ InsertLocal(r) \/ Commit(r)
    <2>1. Done(r)
      BY <1>7 DEF Insert, InsertLocal, Commit, Rollback
    <2>2. req'[r].pc = "idle"
      BY <1>1, <2>1, DoneType, IdleType
    <2> QED BY <1>2, <2>2
  <1>8. CASE Update(r)
    <2>1. CASE Done(r)
      <3>1. req'[r].pc = "idle"
        BY <1>1, <2>1, DoneType, IdleType
      <3> QED BY <1>2, <3>1
    <2>2. CASE ~Done(r)
      <3> DEFINE i == req[r].id
      <3>1. /\ draft' = IF conns[i] = None THEN conns
                        ELSE [conns EXCEPT ![i] = Updated(conns[i], req[r])]
            /\ Goto(r, AfterUpdate(r, {})) /\ UNCHANGED <<conns, locals, unseen>>
            /\ req[r].pc = "write" /\ req[r].op = "update"
        BY <1>8, <2>2 DEF Update, At
      <3>2. AfterUpdate(r, {}) \in Pcs /\ AfterUpdate(r, {}) \in InTx
        BY AfterUpdateType DEF InTx, Pcs
      <3>3. req'[r].pc \in InTx /\ Same(req'[r], req[r])
        BY <1>1, <3>1, <3>2, GotoType
      <3>4. i \in Ids /\ req[r] \in Request /\ req[r].save \in Ids /\ req[r].name \in Names
            /\ req[r].subnets \in SubnetLists /\ conns \in Table
        BY <1>1, <3>1 DEF FormInv, Inv, TypeOK, Table
      <3>5. draft'[i] # None => draft'[i].subnets = req[r].subnets
        <4>1. CASE conns[i] = None
          BY <3>1, <4>1
        <4>2. CASE conns[i] # None
          <5>1. conns[i] \in Row
            BY <3>4, <4>2 DEF Table
          <5>2. Updated(conns[i], req[r]).subnets = req[r].subnets
            BY <3>4, <5>1, UpdatedType
          <5>3. draft'[i] = Updated(conns[i], req[r])
            BY <3>1, <3>4, <4>2 DEF Table
          <5> QED BY <5>2, <5>3
        <4> QED BY <4>1, <4>2
      <3> QED BY <1>3, <3>1, <3>3, <3>5
    <2> QED BY <2>1, <2>2
  <1>9. CASE SetPSK(r) \/ SetPassword(r)
    <2>1. UNCHANGED <<conns, locals, unseen>> /\ req[r].pc \in InTx
      BY <1>9 DEF SetPSK, SetPassword, At, InTx
    <2>2. CASE Done(r)
      <3>1. req'[r].pc = "idle"
        BY <1>1, <2>2, DoneType, IdleType
      <3> QED BY <1>2, <3>1
    <2>3. CASE ~Done(r)
      <3> DEFINE i == req[r].id
      <3>1. /\ Goto(r, AfterUpdate(r, {"psk"})) \/ Goto(r, "commit")
            /\ \/ UNCHANGED draft
               \/ draft[i] # None /\ draft' = [draft EXCEPT ![i].psk = req[r].save]
               \/ draft[i] # None /\ draft' = [draft EXCEPT ![i].password = req[r].save]
        BY <1>9, <2>3 DEF SetPSK, SetPassword, Rollback
      <3>2. /\ AfterUpdate(r, {"psk"}) \in Pcs /\ AfterUpdate(r, {"psk"}) \in InTx
            /\ "commit" \in Pcs /\ "commit" \in InTx
        BY AfterUpdateType DEF InTx, Pcs
      <3>3. req'[r].pc \in InTx /\ Same(req'[r], req[r])
        BY <1>1, <3>1, <3>2, GotoType
      <3>4. i \in Ids /\ draft \in Table /\ (draft[i] # None => draft[i].subnets = req[r].subnets)
        BY <1>1, <2>1 DEF FormInv, Inv, DraftInv, Table, SeenBy
      <3>5. draft[i] # None => draft[i] \in Row
        BY <3>4 DEF Table
      <3>6. draft'[i] # None => draft'[i].subnets = req[r].subnets
        BY <3>1, <3>4, <3>5 DEF Table, Row
      <3> QED BY <1>3, <2>1, <3>3, <3>6
    <2> QED BY <2>2, <2>3
  <1> QED BY <1>4, <1>5, <1>6, <1>7, <1>8, <1>9 DEF Save

LEMMA Seen_Next ==
  ASSUME Inv, SeenInv, [Next]_vars
  PROVE  SeenInv'
  <1>1. ASSUME NEW r \in Requests, Save(r), Goes(r), NEW s \in Requests PROVE SeenBy(s)'
    <2>1. SeenBy(r) /\ SeenBy(s)
      BY DEF SeenInv
    <2>2. CASE s = r
      BY <1>1, <2>1, <2>2, SeenSave
    <2>3. CASE s # r
      <3>1. req'[s] = req[s]
        BY <1>1, <2>3 DEF Goes
      <3>2. req[s].pc \notin InTx
        <4>1. holder = None \/ req[r].pc \in InTx
          BY <1>1 DEF Save, Lookup, ReadConns, ReadLocals, Insert, InsertLocal, Update, SetPSK,
                      SetPassword, Commit, Free, At, InTx
        <4> QED BY <2>3, <4>1, ConstantsType DEF Inv, HolderInv
      <3>3. PICK cs, ls :
              /\ Grows(cs, ls) /\ unseen[s] \subseteq unseen'[s]
              /\ req[s].pc \in {"locals", "write"} => cs \subseteq unseen'[s]
              /\ req[s].pc = "write" => ls \subseteq unseen'[s]
        BY <1>1, <2>1, <2>3, SaveGrows
      <3> QED BY <2>1, <3>1, <3>2, <3>3, SeenOther
    <2> QED BY <2>2, <2>3
  <1>2. ASSUME NEW r \in Requests, Posted(r), \A s \in Requests : s # r => req'[s] = req[s],
               NEW s \in Requests
        PROVE  SeenBy(s)'
    <2>1. UNCHANGED <<conns, locals, draft, unseen>>
      BY <1>2 DEF Posted
    <2>2. CASE s = r
      BY <1>2, <2>2 DEF Posted, SeenBy, InTx
    <2>3. CASE s # r
      BY <1>2, <2>1, <2>3 DEF SeenInv, SeenBy, Clear, Claimed, Rows, Present
    <2> QED BY <2>2, <2>3
  <1>3. ASSUME Statement, NEW s \in Requests PROVE SeenBy(s)'
    <2>1. Grows({}, {}) /\ UNCHANGED <<req, draft, unseen>> /\ SeenBy(s)
      BY <1>3, StatementGrows DEF SeenInv
    <2>2. Claimed(req[s].id)' \subseteq Claimed(req[s].id) /\ Present' \subseteq Present
      BY <2>1, GrowsClaimed DEF Grows
    <2>3. Clear(s) => Clear(s)'
      BY <2>1, <2>2 DEF Clear
    <2> QED BY <2>1, <2>2, <2>3 DEF SeenBy
  <1> QED BY <1>1, <1>2, <1>3, Cases DEF Inv, SeenInv

-----------------------------------------------------------------------------
(* Routes that overlap *)

LEMMA RoutesAre ==
  /\ \A x : x \in Routes <=> \/ \E i \in Rows : \E p \in conns[i].subnets : x = <<i, p>>
                             \/ \E p \in Present : x = <<0, p>>
  /\ \A x : x \in Routes' <=> \/ \E i \in Rows' : \E p \in conns'[i].subnets : x = <<i, p>>
                              \/ \E p \in Present' : x = <<0, p>>
  <1>1. \A x : x \in Routes <=> \/ \E i \in Rows : x \in {i} \X conns[i].subnets
                                \/ x \in {0} \X Present
    BY DEF Routes
  <1>2. \A x : x \in Routes' <=> \/ \E i \in Rows' : x \in {i} \X conns'[i].subnets
                                 \/ x \in {0} \X Present'
    BY DEF Routes
  <1>3. \A i, ps, x : x \in {i} \X ps <=> \E p \in ps : x = <<i, p>>
    OBVIOUS
  <1> QED BY <1>1, <1>2, <1>3

(* What a request stores: the new routes are those of its owner, and clear *)
(* of all the others but for those it has not seen.                        *)
LEMMA PlacedRaces ==
  ASSUME NEW r \in Requests, Clear(r), NEW new,
         \A x \in new : x[2] \in req[r].subnets,
         \A x, y \in new : x # y => <<x[2], y[2]>> \notin Overlaps,
         \A y \in Routes' \ new : y \in Routes /\ y[2] \in Claimed(req[r].id) \cup Present,
         NEW pair \in Overlapping' \ Overlapping
  PROVE  \E x, y \in {pair[1], pair[2]} : x[2] \in req[r].subnets /\ y[2] \in unseen[r]
  <1>1. /\ pair \in Routes' \X Routes' /\ pair[1] \in Routes' /\ pair[2] \in Routes'
        /\ pair[1] # pair[2] /\ <<pair[1][2], pair[2][2]>> \in Overlaps
    BY DEF Overlapping
  <1>2. <<pair[2][2], pair[1][2]>> \in Overlaps
    <2>1. pair[1][2] \in Prefixes /\ pair[2][2] \in Prefixes
      BY <1>1, StoreAssumption
    <2> QED BY <1>1, <2>1, StoreAssumption
  <1>3. pair[1] \in new \/ pair[2] \in new
    <2> SUFFICES ASSUME pair[1] \notin new, pair[2] \notin new PROVE FALSE
      OBVIOUS
    <2>1. pair[1] \in Routes /\ pair[2] \in Routes
      BY <1>1
    <2> QED BY <1>1, <2>1 DEF Overlapping
  <1>4. CASE pair[1] \in new /\ pair[2] \in new
    BY <1>1, <1>4
  <1>5. CASE pair[1] \in new /\ pair[2] \notin new
    BY <1>1, <1>5 DEF Clear
  <1>6. CASE pair[1] \notin new /\ pair[2] \in new
    BY <1>1, <1>2, <1>6 DEF Clear
  <1> QED BY <1>3, <1>4, <1>5, <1>6

Excused(r, pair) ==
  \E x, y \in {pair[1], pair[2]} : x[2] \in req[r].subnets /\ y[2] \in unseen[r]

LEMMA InsertRaces ==
  ASSUME Inv, NEW r \in Requests, SeenBy(r), Insert(r), ~UNCHANGED conns,
         NEW pair \in Overlapping' \ Overlapping
  PROVE  Excused(r, pair)
  <1>1. PICK i \in Ids \ Rows :
          /\ Rows' = Rows \cup {i} /\ conns'[i].subnets = req[r].subnets
          /\ \A j \in Rows : conns'[j] = conns[j]
    BY InsertGrows
  <1>2. /\ req[r].subnets \in SubnetLists /\ req[r].id = 0 /\ Clear(r) /\ 0 \notin Rows
        /\ Present' = Present
    BY ConstantsType
       DEF Inv, FormsInv, FormInv, SeenBy, Insert, At, Present, Rows
  <1> DEFINE new == {i} \X req[r].subnets
  <1>3. \A x \in new : x[2] \in req[r].subnets
    OBVIOUS
  <1>4. \A x, y \in new : x # y => <<x[2], y[2]>> \notin Overlaps
    BY <1>2 DEF SubnetLists
  <1>5. ASSUME NEW y \in Routes' \ new
        PROVE  y \in Routes /\ y[2] \in Claimed(req[r].id) \cup Present
    <2>1. CASE \E j \in Rows' : \E p \in conns'[j].subnets : y = <<j, p>>
      <3>1. PICK j \in Rows' : \E p \in conns'[j].subnets : y = <<j, p>>
        BY <2>1
      <3> PICK p \in conns'[j].subnets : y = <<j, p>>
        BY <3>1
      <3>2. j \in Rows /\ p \in conns[j].subnets
        BY <1>1, <1>5, <3>1
      <3> QED BY <1>2, <3>1, <3>2, RoutesAre DEF Claimed
    <2>2. CASE \E p \in Present' : y = <<0, p>>
      BY <1>2, <2>2, RoutesAre
    <2> QED BY <2>1, <2>2, RoutesAre
  <1> HIDE DEF new
  <1> QED BY <1>2, <1>3, <1>4, <1>5, PlacedRaces DEF Excused

LEMMA InsertLocalRaces ==
  ASSUME Inv, NEW r \in Requests, SeenBy(r), InsertLocal(r),
         NEW pair \in Overlapping' \ Overlapping
  PROVE  Excused(r, pair)
  <1>1. PICK p \in Prefixes : req[r].subnets = {p}
    BY DEF InsertLocal, Inv, FormsInv, FormInv
  <1>2. req[r].id = 0 /\ 0 \notin Rows /\ UNCHANGED conns /\ Clear(r) /\ Rows' = Rows
    BY ConstantsType DEF InsertLocal, At, Inv, FormsInv, FormInv, SeenBy, Rows
  <1>3. Present' \subseteq Present \cup {p}
    BY <1>1 DEF InsertLocal, Present
  <1> DEFINE new == {<<0, p>>}
  <1>4. \A x \in new : x[2] \in req[r].subnets
    BY <1>1
  <1>5. \A x, y \in new : x # y => <<x[2], y[2]>> \notin Overlaps
    OBVIOUS
  <1>6. ASSUME NEW y \in Routes' \ new
        PROVE  y \in Routes /\ y[2] \in Claimed(req[r].id) \cup Present
    <2>1. CASE \E j \in Rows' : \E q \in conns'[j].subnets : y = <<j, q>>
      BY <1>2, <2>1, RoutesAre DEF Claimed
    <2>2. CASE \E q \in Present' : y = <<0, q>>
      BY <1>3, <1>6, <2>2, RoutesAre
    <2> QED BY <2>1, <2>2, RoutesAre
  <1> HIDE DEF new
  <1> QED BY <1>2, <1>4, <1>5, <1>6, PlacedRaces DEF Excused

LEMMA CommitRaces ==
  ASSUME Inv, NEW r \in Requests, SeenBy(r), Commit(r), conns' = draft,
         NEW pair \in Overlapping' \ Overlapping
  PROVE  Excused(r, pair)
  <1> DEFINE i == req[r].id
  <1>1. /\ Rows' = Rows /\ \A j \in Rows \ {i} : conns'[j] = conns[j]
        /\ i \in Rows => conns'[i].subnets = req[r].subnets
    BY CommitGrows
  <1>2. /\ req[r].subnets \in SubnetLists /\ Clear(r) /\ Present' = Present
    BY DEF Inv, FormsInv, FormInv, SeenBy, Commit, At, InTx, Present
  <1> DEFINE new == {i} \X req[r].subnets
  <1>3. \A x \in new : x[2] \in req[r].subnets
    OBVIOUS
  <1>4. \A x, y \in new : x # y => <<x[2], y[2]>> \notin Overlaps
    BY <1>2 DEF SubnetLists
  <1>5. ASSUME NEW y \in Routes' \ new
        PROVE  y \in Routes /\ y[2] \in Claimed(req[r].id) \cup Present
    <2>1. CASE \E j \in Rows' : \E p \in conns'[j].subnets : y = <<j, p>>
      <3>1. PICK j \in Rows' : \E p \in conns'[j].subnets : y = <<j, p>>
        BY <2>1
      <3> PICK p \in conns'[j].subnets : y = <<j, p>>
        BY <3>1
      <3>2. j \in Rows \ {i} /\ p \in conns[j].subnets
        BY <1>1, <1>5, <3>1
      <3> HIDE DEF i
      <3>3. y \in Routes
        BY <3>1, <3>2, RoutesAre
      <3>4. p \in Claimed(i)
        BY <3>2 DEF Claimed
      <3> QED BY <3>1, <3>3, <3>4 DEF i
    <2>2. CASE \E p \in Present' : y = <<0, p>>
      BY <1>2, <2>2, RoutesAre
    <2> QED BY <2>1, <2>2, RoutesAre
  <1> HIDE DEF new
  <1> QED BY <1>2, <1>3, <1>4, <1>5, PlacedRaces DEF Excused

(* Nothing else brings an overlap. *)
LEMMA GrowsNothing ==
  ASSUME Grows({}, {})
  PROVE  Overlapping' \subseteq Overlapping
  <1>1. ASSUME NEW x \in Routes' PROVE x \in Routes
    <2>1. CASE \E j \in Rows' : \E p \in conns'[j].subnets : x = <<j, p>>
      BY <2>1, RoutesAre DEF Grows
    <2>2. CASE \E p \in Present' : x = <<0, p>>
      BY <2>2, RoutesAre DEF Grows
    <2> QED BY <2>1, <2>2, RoutesAre
  <1> QED BY <1>1 DEF Overlapping

LEMMA Races_Next ==
  ASSUME Inv, SeenInv, [Next]_vars, NEW pair \in Overlapping' \ Overlapping
  PROVE  \E r \in Requests : req'[r] # req[r] /\ Excused(r, pair)
  <1>1. ASSUME UNCHANGED <<conns, locals>> PROVE FALSE
    BY <1>1, GrowsNothing DEF Grows, Rows, Present
  <1>2. ASSUME NEW r \in Requests, Save(r) PROVE req'[r] # req[r] /\ Excused(r, pair)
    <2>1. SeenBy(r) /\ req \in [Requests -> Request]
      BY ReqType DEF SeenInv, Inv
    <2>2. \/ Insert(r) /\ ~UNCHANGED conns
          \/ InsertLocal(r)
          \/ Commit(r) /\ conns' = draft
      BY <1>1, <1>2 DEF Save, Lookup, ReadConns, ReadLocals, Insert, InsertLocal, Update, SetPSK,
                        SetPassword, Commit
    <2>3. Excused(r, pair)
      BY <2>1, <2>2, InsertRaces, InsertLocalRaces, CommitRaces
    <2>4. Done(r) /\ req[r].pc # "idle"
      BY <2>2 DEF Insert, InsertLocal, Commit, Rollback, At
    <2>5. req'[r] # req[r]
      BY <2>1, <2>4, DoneType, IdleType
    <2> QED BY <2>3, <2>5
  <1>3. ASSUME Statement PROVE FALSE
    BY <1>3, StatementGrows, GrowsNothing
  <1>4. ASSUME NEW r \in Requests, Posted(r) PROVE FALSE
    BY <1>1, <1>4 DEF Posted
  <1> QED BY <1>2, <1>3, <1>4, Cases DEF Inv

LEMMA Seen_Init == Init => SeenInv
  <1> SUFFICES ASSUME Init PROVE SeenInv
    OBVIOUS
  <1>1. \A r \in Requests : req[r].pc = "idle"
    BY IdleType DEF Init
  <1> QED BY <1>1 DEF SeenInv, SeenBy, InTx

(* However many requests are on their way, subnets come to overlap only by *)
(* a store of one that had read the table before the other subnet came:    *)
(* what CheckOverlap found is still true of all it could see, although     *)
(* connections and local subnets come and go in between.                   *)
THEOREM OnlyRacesMakeOverlaps == Spec => OnlyRacesOverlap
  <1>1. Inv /\ SeenInv /\ [Next]_vars => (Inv /\ SeenInv)'
    BY Inv_Next, Seen_Next
  <1>2. Inv /\ SeenInv /\ [Next]_vars =>
          [\A pair \in Overlapping' \ Overlapping : \E r \in Requests :
             /\ req'[r] # req[r]
             /\ \E x, y \in {pair[1], pair[2]} :
                  x[2] \in req[r].subnets /\ y[2] \in unseen[r]]_vars
    BY Races_Next DEF Excused
  <1> QED BY Inv_Init, Seen_Init, <1>1, <1>2, PTL DEF Spec, OnlyRacesOverlap
=============================================================================
