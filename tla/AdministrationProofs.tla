------------------------ MODULE AdministrationProofs ------------------------
(***************************************************************************)
(* Theorems about what Postgres holds for the tenants, for any number of   *)
(* requests, tenants, rows and names, whatever clients ask: first the      *)
(* devices, their credentials, profiles and quota (module DeviceAdmin),    *)
(* then the other tables, then both together.  The invariant of the rows   *)
(* is Types /\ Tables /\ Settled: the tables meet their constraints, and   *)
(* what the check of a request found stays true until its write, for an id *)
(* is used once and a row keeps its table and its tenant.                  *)
(***************************************************************************)
EXTENDS Administration, FiniteSetTheorems, TLAPS

(* The handlers, by operation, and what each knows where it is.            *)
Create == {"limit", "read", "store", "count", "insert"}

PCs == Create \cup {"idle", "profile", "owner", "update", "default", "upsert", "delete", "row",
                    "provision", "find", "token", "write", "commit", "done", "saveLimits",
                    "invalidate", "inUse", "drop"}

Request ==
  [op : {"none", "save", "delete", "credentials", "import", "provision", "limits", "dropProfile"},
   pc : PCs,
   tenant : Tenants \cup {None}, dev : Devices \cup {None}, name : Names \cup {None},
   prof : Profiles \cup {None}, cred : Given \cup {None}, rows : Seq(FileRow), lim : Nat,
   type : ProfileTypes \cup {None}, created : BOOLEAN,
   token : CredentialIds \cup Drawn \cup {None}]

Path(q) ==
  /\ q.op = "none" => q.pc = "idle"
  /\ q.op = "save" => q.pc \in Create \cup {"profile", "owner", "update", "default", "upsert"}
  /\ q.op = "delete" => q.pc \in {"owner", "delete"}
  /\ q.op = "credentials" => q.pc \in {"owner", "upsert"}
  /\ q.op = "import" => q.pc \in Create \cup {"profile", "row", "upsert"}
  /\ q.op = "provision" => q.pc \in Create \cup {"provision", "find", "token", "write", "commit", "done"}
  /\ q.op = "limits" => q.pc \in {"saveLimits", "invalidate"}
  /\ q.op = "dropProfile" => q.pc \in {"inUse", "drop"}

Handles(q) ==
  /\ q.op # "none" /\ q.pc # "provision" => q.tenant \in Tenants
  /\ q.op \in {"save", "provision"} => q.name \in Names
  /\ q.op \in {"provision", "dropProfile"} => q.prof \in Profiles
  /\ q.op \in {"save", "import"} /\ q.pc # "profile" => q.prof \in Profiles
  /\ q.op = "import" /\ q.pc \in Create => q.name \in Names
  /\ q.op = "import" /\ q.pc \in Create \cup {"upsert"} => q.rows # <<>>
  /\ q.pc \in {"update", "delete", "upsert", "default", "token", "write", "commit", "done"}
       => q.dev \in Devices
  /\ q.op = "limits" \/ q.pc \in {"store", "count"} => q.lim \in LimitValues
  /\ q.created => q.op = "provision" /\ q.pc \in {"token", "write", "commit", "done"}

Valid(q) == q \in Request /\ Path(q) /\ Handles(q)

Entry == [limit : LimitValues, expires : Nat]

Types ==
  /\ profile \in [Profiles -> ProfileRow \cup {None}]
  /\ device \in [Devices -> DeviceRow \cup {None, Gone}]
  /\ cred \in [Devices -> Secret \cup {None}]
  /\ rotated \in SUBSET Devices
  /\ limit \in [Tenants -> LimitValues]
  /\ edited \in [Tenants -> Nat]
  /\ cache \in [Tenants -> Entry \cup {None}]
  /\ req \in [Requests -> Request]
  /\ \A r \in Requests : Valid(req[r])
  /\ clock \in Nat

(* What a handler that is past its check of a device knows of the row: a   *)
(* uuid is used once, so the row is there or it was deleted.               *)
Inserted(q) ==
  \/ q.pc \in {"update", "delete", "upsert", "default"}
  \/ q.pc \in {"token", "write", "commit", "done"} /\ ~q.created
Found == \A r \in Requests : Inserted(req[r]) => device[req[r].dev] # None

(* A device a provisioning inserts appears when it commits.                *)
Creating ==
  \A r \in Requests : req[r].created =>
    /\ req[r].pc # "done" => device[req[r].dev] = None /\ profile[req[r].prof] # None
    /\ req[r].pc = "done" => device[req[r].dev] # None
    /\ \A x \in Requests : req[x].created /\ req[x].dev = req[r].dev => x = r

Profiled == \A d \in Live : profile[device[d].profile] # None

(* No id twice, and what was drawn belongs to the device it was drawn for. *)
OneIdEach ==
  /\ \A d \in Devices : cred[d] # None /\ cred[d].id \in Drawn => cred[d].id[2] = d
  /\ \A d, e \in Devices : cred[d] # None /\ cred[e] # None /\ cred[d].id = cred[e].id => d = e

Tables == Found /\ Creating /\ Profiled /\ OneIdEach

(* Request p created device d, and nobody replaced its credential.         *)
Owner(p, d) == /\ req[p].created /\ req[p].pc = "done" /\ req[p].dev = d
               /\ d \notin rotated

Tokens ==
  \A r \in Requests :
    /\ req[r].created /\ req[r].pc \in {"commit", "done"} => req[r].token = <<r, req[r].dev>>
    /\ Owner(r, req[r].dev) =>
         /\ HasToken(req[r].dev) /\ cred[req[r].dev].id = req[r].token
         /\ \A q \in Requests :
              ~req[q].created /\ req[q].dev = req[r].dev /\ req[q].pc \in {"write", "commit", "done"}
                => req[q].pc # "write" /\ req[q].token = req[r].token

-----------------------------------------------------------------------------
(* One request at a time.                                                  *)

Moved(r) ==
  /\ req' \in [Requests -> Request] /\ Valid(req'[r])
  /\ \A x \in Requests \ {r} : req'[x] = req[x]

LEMMA Moves ==
  ASSUME Types, NEW r \in Requests, NEW q, Valid(q), req' = [req EXCEPT ![r] = q]
  PROVE  Moved(r) /\ req'[r] = q
BY DEF Types, Moved, Valid

LEMMA NoRequestValid == Valid(NoRequest)
BY DeviceAdminAssumption DEF Valid, Request, PCs, Path, Handles, NoRequest, Create

LEMMA Fails ==
  ASSUME Types, NEW r \in Requests, Fail(r)
  PROVE  Moved(r) /\ req'[r] = NoRequest
BY Moves, NoRequestValid DEF Fail

(* All but the place where a request is.                                   *)
Like(q, p) ==
  /\ q.op = p.op /\ q.tenant = p.tenant /\ q.dev = p.dev /\ q.name = p.name /\ q.prof = p.prof
  /\ q.cred = p.cred /\ q.rows = p.rows /\ q.lim = p.lim /\ q.type = p.type
  /\ q.created = p.created /\ q.token = p.token

LEMMA GotoLike ==
  ASSUME NEW p \in Request, NEW pc
  PROVE  /\ [p EXCEPT !.pc = pc].pc = pc /\ Like([p EXCEPT !.pc = pc], p)
         /\ pc \in PCs => [p EXCEPT !.pc = pc] \in Request
BY DEF Request, Like

(* A request goes on, and where it goes it holds what it must.             *)
LEMMA Goes ==
  ASSUME Types, NEW r \in Requests, NEW pc \in PCs, Goto(r, pc),
         \A q \in Request : q.pc = pc /\ Like(q, req[r]) => Path(q) /\ Handles(q)
  PROVE  Moved(r) /\ req'[r].pc = pc /\ Like(req'[r], req[r])
<1> DEFINE q == [req[r] EXCEPT !.pc = pc]
<1>1. req[r] \in Request /\ req' = [req EXCEPT ![r] = q]
  BY DEF Types, Goto
<1>2. q.pc = pc /\ Like(q, req[r]) /\ q \in Request
  BY <1>1, GotoLike
<1> HIDE DEF q
<1> QED BY <1>1, <1>2, Moves DEF Valid

-----------------------------------------------------------------------------
(* Each handler's step, by what becomes of its request.                    *)

(* The facts about one request that the next lemmas start from.            *)
LEMMA Here ==
  ASSUME Types, NEW r \in Requests
  PROVE  /\ req[r] \in Request /\ Path(req[r]) /\ Handles(req[r])
         /\ None \notin Tenants /\ None \notin Devices /\ None \notin Names /\ None \notin Profiles
BY DeviceAdminAssumption DEF Types, Valid

(* A step that leaves the devices and their credentials alone, after which *)
(* the request creates nothing and holds no token.                         *)
Quiet(r) ==
  /\ Moved(r) /\ UNCHANGED <<device, cred, rotated>>
  /\ ~req'[r].created /\ req'[r].pc \notin {"write", "commit", "done"}
  /\ Inserted(req'[r]) => device[req'[r].dev] # None

(* One that leaves profiles, limits and the clock alone as well, and after  *)
(* which the request holds no limit and no quota has admitted it.          *)
Calm(r) ==
  /\ Quiet(r) /\ req'[r].pc \notin {"store", "count", "insert"}
  /\ UNCHANGED <<profile, quota, clock>>

LEMMA Limits == LimitValues \subseteq Nat
BY DeviceInputAssumption DEF LimitValues

LEMMA FailsCalmly ==
  ASSUME Types, NEW r \in Requests, Fail(r), UNCHANGED <<tables, quota, clock>>
  PROVE  Calm(r)
BY Fails DEF NoRequest, Calm, Quiet, tables, Inserted

LEMMA NextRows ==
  ASSUME Types, NEW r \in Requests, NextRow(r), req[r].op = "import", req[r].rows # <<>>,
         req[r].pc # "profile"
  PROVE  Moved(r) /\ req'[r].pc = "row" /\ ~req'[r].created
<1> DEFINE q == [req[r] EXCEPT !.rows = Tail(@), !.pc = "row"]
<1>1. req[r] \in Request /\ Path(req[r]) /\ Handles(req[r])
  BY Here
<1>2. Tail(req[r].rows) \in Seq(FileRow)
  BY <1>1 DEF Request
<1>3. q \in Request
  BY <1>1, <1>2 DEF Request, PCs
<1>4. /\ q.pc = "row" /\ q.op = "import" /\ q.tenant = req[r].tenant
      /\ q.prof = req[r].prof /\ q.created = req[r].created
  BY <1>1 DEF Request
<1>5. req' = [req EXCEPT ![r] = q]
  BY DEF NextRow
<1> HIDE DEF q
<1>6. Path(q) /\ Handles(q) /\ ~q.created
  BY <1>1, <1>4 DEF Path, Handles, Create
<1> QED BY <1>3, <1>4, <1>5, <1>6, Moves DEF Valid

LEMMA Denies ==
  ASSUME Types, NEW r \in Requests, Denied(r), req[r].pc \in Create \cup {"upsert"}
  PROVE  Moved(r) /\ req'[r].pc \in {"idle", "row"} /\ ~req'[r].created
<1>1. CASE req[r].op = "import"
  <2>1. req[r].rows # <<>> /\ req[r].pc # "profile"
    BY <1>1, Here DEF Handles, Create
  <2> QED BY <1>1, <2>1, NextRows DEF Denied
<1>2. CASE req[r].op # "import"
  BY <1>2, Fails DEF Denied, NoRequest
<1> QED BY <1>1, <1>2

LEMMA Resolves ==
  ASSUME Types, NEW r \in Requests, ResolveDefaultProfile(r)
  PROVE  Calm(r)
<1>1. CASE Fail(r)
  BY <1>1, FailsCalmly DEF ResolveDefaultProfile
<1>2. ASSUME NEW p \in Profiles, NEW pc \in {"row", "limit", "owner"},
             req' = [req EXCEPT ![r].prof = p, ![r].pc = pc],
             req[r].op = "import" => pc = "row",
             req[r].op # "import" => pc # "row",
             pc = "owner" => req[r].dev # None
      PROVE  Calm(r)
  <2> DEFINE q == [req[r] EXCEPT !.prof = p, !.pc = pc]
  <2>1. req[r] \in Request /\ req[r].pc = "profile" /\ Path(req[r]) /\ Handles(req[r])
    BY Here DEF ResolveDefaultProfile
  <2>2. q \in Request
    BY <2>1, <1>2 DEF Request, PCs, Create
  <2>3. /\ q.pc = pc /\ q.prof = p /\ q.op = req[r].op /\ q.tenant = req[r].tenant /\ q.dev = req[r].dev
        /\ q.name = req[r].name /\ q.rows = req[r].rows /\ q.lim = req[r].lim /\ q.created = req[r].created
    BY <2>1, <1>2 DEF Request
  <2>4. req' = [req EXCEPT ![r] = q]
    BY <2>1, <1>2 DEF Types
  <2> HIDE DEF q
  <2>5. req[r].op \in {"save", "import"}
    BY <2>1 DEF Path, Create, Request
  <2>6. Path(q)
    BY <2>1, <2>3, <2>5, <1>2 DEF Path, Create
  <2>7. Handles(q) /\ ~q.created
    BY <2>1, <2>3, <2>5, <1>2 DEF Handles, Create
  <2>8. Moved(r) /\ req'[r] = q
    BY <2>2, <2>4, <2>6, <2>7, Moves DEF Valid
  <2> QED BY <2>3, <2>7, <2>8, <1>2 DEF Calm, Quiet, Inserted, tables, ResolveDefaultProfile
<1>3. CASE ~Fail(r)
  <2>1. PICK p \in Profiles :
          req' = [req EXCEPT ![r].prof = p,
                             ![r].pc = IF req[r].op = "import" THEN "row"
                                       ELSE IF req[r].dev = None THEN "limit" ELSE "owner"]
    BY <1>3 DEF ResolveDefaultProfile
  <2> DEFINE pc == IF req[r].op = "import" THEN "row"
                   ELSE IF req[r].dev = None THEN "limit" ELSE "owner"
  <2>2. /\ pc \in {"row", "limit", "owner"} /\ (req[r].op = "import" => pc = "row")
        /\ (req[r].op # "import" => pc # "row") /\ (pc = "owner" => req[r].dev # None)
    OBVIOUS
  <2>3. req' = [req EXCEPT ![r].prof = p, ![r].pc = pc]
    BY <2>1
  <2> HIDE DEF pc
  <2> QED BY <2>2, <2>3, <1>2
<1> QED BY <1>1, <1>3

LEMMA ChecksOwner ==
  ASSUME Types, NEW r \in Requests, CheckOwner(r)
  PROVE  Calm(r)
<1>1. req[r] \in Request /\ Path(req[r]) /\ Handles(req[r]) /\ req[r].pc = "owner"
  BY Here DEF CheckOwner
<1>2. CASE req[r].dev \in DevicesOf(req[r].tenant)
  <2> DEFINE pc == CASE req[r].op = "save" -> "update"
                     [] req[r].op = "delete" -> "delete"
                     [] OTHER -> "upsert"
  <2>1. req[r].op \in {"save", "delete", "credentials"}
    BY <1>1 DEF Path, Request, Create
  <2>2. /\ pc \in {"update", "delete", "upsert"}
        /\ req[r].op = "save" => pc = "update"
        /\ req[r].op = "delete" => pc = "delete"
        /\ req[r].op = "credentials" => pc = "upsert"
    BY <2>1
  <2>3. Goto(r, pc)
    BY <1>2 DEF CheckOwner
  <2> HIDE DEF pc
  <2>4. req[r].dev \in Devices /\ device[req[r].dev] # None
    BY <1>2 DEF DevicesOf, Live
  <2>5. ASSUME NEW q \in Request, q.pc = pc, Like(q, req[r])
        PROVE  Path(q) /\ Handles(q)
    <3>1. Path(q)
      BY <1>1, <2>1, <2>2, <2>5 DEF Path, Like, Create
    <3>2. Handles(q)
      BY <1>1, <2>1, <2>2, <2>4, <2>5 DEF Handles, Like, Create
    <3> QED BY <3>1, <3>2
  <2>6. Moved(r) /\ req'[r].pc = pc /\ Like(req'[r], req[r])
    BY <2>2, <2>3, <2>5, Goes DEF PCs
  <2>7. ~req'[r].created
    BY <1>1, <2>6 DEF Handles, Like
  <2> QED BY <2>2, <2>4, <2>6, <2>7 DEF Calm, Quiet, tables, CheckOwner, Like
<1>3. CASE req[r].dev \notin DevicesOf(req[r].tenant)
  BY <1>3, FailsCalmly DEF CheckOwner
<1> QED BY <1>2, <1>3

LEMMA ChecksProfile ==
  ASSUME Types, NEW r \in Requests, CheckProfileUnused(r)
  PROVE  Calm(r)
<1>1. req[r] \in Request /\ Path(req[r]) /\ Handles(req[r]) /\ req[r].pc = "inUse"
  BY Here DEF CheckProfileUnused
<1>2. CASE Goto(r, "drop")
  <2>1. ASSUME NEW q \in Request, q.pc = "drop", Like(q, req[r])
        PROVE  Path(q) /\ Handles(q)
    BY <1>1, <2>1 DEF Path, Handles, Like, Create, Request
  <2>2. Moved(r) /\ req'[r].pc = "drop" /\ Like(req'[r], req[r])
    BY <1>2, <2>1, Goes DEF PCs
  <2> QED BY <1>1, <2>2 DEF Handles, Like, Calm, Quiet, Inserted, tables, CheckProfileUnused
<1>3. CASE Fail(r)
  BY <1>3, FailsCalmly DEF CheckProfileUnused
<1> QED BY <1>2, <1>3 DEF CheckProfileUnused

LEMMA ImportsRow ==
  ASSUME Types, NEW r \in Requests, ImportRow(r)
  PROVE  Calm(r)
<1>1. req[r] \in Request /\ Path(req[r]) /\ Handles(req[r]) /\ req[r].pc = "row"
  BY Here DEF ImportRow
<1>2. req[r].op = "import"
  BY <1>1 DEF Path, Request, Create
<1>3. CASE req[r].rows = <<>>
  BY <1>2, <1>3, FailsCalmly DEF ImportRow, End
<1>4. CASE req[r].rows # <<>>
  <2> DEFINE new == Head(req[r].rows)
             there == Named(req[r].tenant, new.name)
             d == CHOOSE x \in there : TRUE
  <2>1. new \in FileRow
    BY <1>1, <1>4 DEF Request
  <2>2. new.name \in Names /\ new.cred \in Given \cup {None}
    BY <2>1 DEF FileRow
  <2>3. there # {} => d \in Devices /\ device[d] # None
    BY DEF Named, DevicesOf, Live
  <2>4. CASE NextRow(r)
    BY <1>1, <1>2, <1>4, <2>4, NextRows DEF Calm, Quiet, Inserted, tables, ImportRow
  <2>5. CASE there # {} /\ req' = [req EXCEPT ![r].dev = d, ![r].cred = new.cred, ![r].pc = "upsert"]
    <3> HIDE DEF new, there, d
    <3> DEFINE q == [req[r] EXCEPT !.dev = d, !.cred = new.cred, !.pc = "upsert"]
    <3>1. q \in Request
      BY <1>1, <2>2, <2>3, <2>5 DEF Request, PCs
    <3>2. /\ q.pc = "upsert" /\ q.op = "import" /\ q.dev = d /\ q.tenant = req[r].tenant
          /\ q.prof = req[r].prof /\ q.rows = req[r].rows /\ q.created = req[r].created
      BY <1>1, <1>2 DEF Request
    <3>3. req' = [req EXCEPT ![r] = q]
      BY <2>5
    <3> HIDE DEF q
    <3>4. Path(q) /\ Handles(q) /\ ~q.created
      BY <1>1, <1>2, <1>4, <2>3, <2>5, <3>2 DEF Path, Handles, Create
    <3>5. Moved(r) /\ req'[r] = q
      BY <3>1, <3>3, <3>4, Moves DEF Valid
    <3> QED BY <2>3, <2>5, <3>2, <3>4, <3>5 DEF Calm, Quiet, tables, ImportRow
  <2>6. CASE req' = [req EXCEPT ![r].name = new.name, ![r].cred = new.cred, ![r].pc = "limit"]
    <3> HIDE DEF new, there, d
    <3> DEFINE q == [req[r] EXCEPT !.name = new.name, !.cred = new.cred, !.pc = "limit"]
    <3>1. q \in Request
      BY <1>1, <2>2 DEF Request, PCs, Create
    <3>2. /\ q.pc = "limit" /\ q.op = "import" /\ q.name = new.name /\ q.tenant = req[r].tenant
          /\ q.prof = req[r].prof /\ q.rows = req[r].rows /\ q.created = req[r].created
      BY <1>1, <1>2 DEF Request
    <3>3. req' = [req EXCEPT ![r] = q]
      BY <2>6
    <3> HIDE DEF q
    <3>4. Path(q) /\ Handles(q) /\ ~q.created
      BY <1>1, <1>2, <1>4, <2>2, <3>2 DEF Path, Handles, Create
    <3>5. Moved(r) /\ req'[r] = q
      BY <3>1, <3>3, <3>4, Moves DEF Valid
    <3> QED BY <3>2, <3>4, <3>5 DEF Calm, Quiet, Inserted, tables, ImportRow
  <2> QED BY <1>4, <2>4, <2>5, <2>6 DEF ImportRow
<1> QED BY <1>3, <1>4

LEMMA FindsLimits ==
  ASSUME Types, NEW r \in Requests, LimitsFor(r)
  PROVE  /\ Quiet(r) /\ UNCHANGED <<profile, quota, clock>>
         /\ req'[r].tenant = req[r].tenant /\ req'[r].pc \in {"read", "count"}
         /\ req'[r].pc = "count" => /\ Cached(req[r].tenant)
                                    /\ req'[r].lim = cache[req[r].tenant].limit
<1>1. req[r] \in Request /\ Path(req[r]) /\ Handles(req[r]) /\ req[r].pc = "limit"
  BY Here DEF LimitsFor
<1>2. req[r].tenant \in Tenants /\ ~req[r].created /\ req[r].op # "none"
  BY <1>1 DEF Path, Handles, Create
<1>3. CASE Cached(req[r].tenant)
  <2> DEFINE q == [req[r] EXCEPT !.pc = "count", !.lim = cache[req[r].tenant].limit]
  <2>1. cache[req[r].tenant].limit \in LimitValues /\ cache[req[r].tenant].limit \in Nat
    <3>1. cache[req[r].tenant] \in Entry
      BY <1>2, <1>3 DEF Cached, Types
    <3> QED BY <3>1, Limits DEF Entry
  <2>2. q \in Request
    BY <1>1, <2>1 DEF Request, PCs, Create
  <2>3. /\ q.pc = "count" /\ q.lim = cache[req[r].tenant].limit
        /\ q.op = req[r].op /\ q.tenant = req[r].tenant /\ q.dev = req[r].dev
        /\ q.name = req[r].name /\ q.prof = req[r].prof /\ q.rows = req[r].rows
        /\ q.created = req[r].created
    BY <1>1 DEF Request
  <2>4. req' = [req EXCEPT ![r] = q]
    BY <1>3 DEF LimitsFor
  <2> HIDE DEF q
  <2>5. Path(q) /\ Handles(q)
    BY <1>1, <1>2, <2>1, <2>3 DEF Path, Handles, Create
  <2>6. Moved(r) /\ req'[r] = q
    BY <2>2, <2>4, <2>5, Moves DEF Valid
  <2> QED BY <1>2, <1>3, <2>3, <2>6 DEF Quiet, Inserted, tables, LimitsFor
<1>4. CASE ~Cached(req[r].tenant)
  <2>1. Goto(r, "read")
    BY <1>4 DEF LimitsFor, Goto
  <2>2. ASSUME NEW q \in Request, q.pc = "read", Like(q, req[r])
        PROVE  Path(q) /\ Handles(q)
    BY <1>1, <1>2, <2>2 DEF Path, Handles, Like, Create
  <2>3. Moved(r) /\ req'[r].pc = "read" /\ Like(req'[r], req[r])
    BY <2>1, <2>2, Goes DEF PCs, Create
  <2> QED BY <1>2, <2>3 DEF Like, Quiet, Inserted, tables, LimitsFor
<1> QED BY <1>3, <1>4

LEMMA ReadsLimits ==
  ASSUME Types, NEW r \in Requests, ReadLimits(r)
  PROVE  /\ Quiet(r) /\ UNCHANGED <<profile, quota, clock>>
         /\ req'[r].tenant = req[r].tenant /\ req'[r].pc = "store"
         /\ req'[r].lim = limit[req[r].tenant]
<1>1. req[r] \in Request /\ Path(req[r]) /\ Handles(req[r]) /\ req[r].pc = "read"
  BY Here DEF ReadLimits
<1>2. req[r].tenant \in Tenants /\ ~req[r].created /\ req[r].op # "none"
  BY <1>1 DEF Path, Handles, Create
<1> DEFINE q == [req[r] EXCEPT !.pc = "store", !.lim = limit[req[r].tenant]]
<1>3. limit[req[r].tenant] \in LimitValues /\ limit[req[r].tenant] \in Nat
  BY <1>2, Limits DEF Types
<1>4. q \in Request
  BY <1>1, <1>3 DEF Request, PCs, Create
<1>5. /\ q.pc = "store" /\ q.lim = limit[req[r].tenant]
      /\ q.op = req[r].op /\ q.tenant = req[r].tenant /\ q.dev = req[r].dev
      /\ q.name = req[r].name /\ q.prof = req[r].prof /\ q.rows = req[r].rows
      /\ q.created = req[r].created
  BY <1>1 DEF Request
<1>6. req' = [req EXCEPT ![r] = q]
  BY DEF ReadLimits
<1> HIDE DEF q
<1>7. Path(q) /\ Handles(q)
  BY <1>1, <1>2, <1>3, <1>5 DEF Path, Handles, Create
<1>8. Moved(r) /\ req'[r] = q
  BY <1>4, <1>6, <1>7, Moves DEF Valid
<1> QED BY <1>2, <1>5, <1>8 DEF Quiet, Inserted, tables, ReadLimits

LEMMA StoresLimits ==
  ASSUME Types, NEW r \in Requests, StoreLimits(r)
  PROVE  /\ Quiet(r) /\ UNCHANGED <<profile, limit, edited, clock>>
         /\ cache' \in [Tenants -> Entry \cup {None}]
         /\ req'[r].tenant = req[r].tenant /\ req'[r].pc = "count" /\ req'[r].lim = req[r].lim
<1>1. req[r] \in Request /\ Path(req[r]) /\ Handles(req[r]) /\ req[r].pc = "store"
  BY Here DEF StoreLimits
<1>2. req[r].tenant \in Tenants /\ ~req[r].created /\ req[r].lim \in LimitValues
  BY <1>1 DEF Path, Handles, Create
<1>3. ASSUME NEW q \in Request, q.pc = "count", Like(q, req[r])
      PROVE  Path(q) /\ Handles(q)
  BY <1>1, <1>2, <1>3 DEF Path, Handles, Like, Create
<1>4. Moved(r) /\ req'[r].pc = "count" /\ Like(req'[r], req[r])
  BY <1>3, Goes DEF PCs, Create, StoreLimits
<1>5. clock + TTL \in Nat
  BY DeviceAdminAssumption DEF Types
<1>6. [limit |-> req[r].lim, expires |-> clock + TTL] \in Entry
  BY <1>2, <1>5 DEF Entry
<1>7. cache' \in [Tenants -> Entry \cup {None}]
  BY <1>6 DEF Types, StoreLimits
<1> QED BY <1>2, <1>4, <1>7 DEF Like, Quiet, Inserted, tables, StoreLimits

LEMMA Enforces ==
  ASSUME Types, NEW r \in Requests, Enforce(r)
  PROVE  /\ Quiet(r) /\ UNCHANGED <<profile, quota, clock>>
         /\ req'[r].pc \in {"idle", "row", "insert"}
         /\ req'[r].pc = "insert" => WithinLimit(r) /\ req'[r].tenant = req[r].tenant
<1>1. req[r] \in Request /\ Path(req[r]) /\ Handles(req[r]) /\ req[r].pc = "count"
  BY Here DEF Enforce
<1>2. CASE WithinLimit(r)
  <2>1. ~req[r].created
    BY <1>1 DEF Handles
  <2>2. ASSUME NEW q \in Request, q.pc = "insert", Like(q, req[r])
        PROVE  Path(q) /\ Handles(q)
    BY <1>1, <2>1, <2>2 DEF Path, Handles, Like, Create
  <2>3. Moved(r) /\ req'[r].pc = "insert" /\ Like(req'[r], req[r])
    BY <1>2, <2>2, Goes DEF PCs, Create, Enforce
  <2> QED BY <1>2, <2>1, <2>3 DEF Like, Quiet, Inserted, tables, Enforce
<1>3. CASE ~WithinLimit(r)
  BY <1>1, <1>3, Denies DEF Quiet, Inserted, tables, Enforce, Create
<1> QED BY <1>2, <1>3

LEMMA SavesLimits ==
  ASSUME Types, NEW r \in Requests, SaveLimits(r)
  PROVE  /\ Quiet(r) /\ UNCHANGED <<profile, cache, clock>>
         /\ limit' \in [Tenants -> LimitValues] /\ req'[r].pc = "invalidate"
<1>1. req[r] \in Request /\ Path(req[r]) /\ Handles(req[r]) /\ req[r].pc = "saveLimits"
  BY Here DEF SaveLimits
<1>2. req[r].op = "limits"
  BY <1>1 DEF Path, Create, Request
<1>3. ~req[r].created /\ req[r].lim \in LimitValues
  BY <1>1, <1>2 DEF Handles
<1>4. ASSUME NEW q \in Request, q.pc = "invalidate", Like(q, req[r])
      PROVE  Path(q) /\ Handles(q)
  BY <1>1, <1>2, <1>3, <1>4 DEF Path, Handles, Like, Create
<1>5. Moved(r) /\ req'[r].pc = "invalidate" /\ Like(req'[r], req[r])
  BY <1>4, Goes DEF PCs, SaveLimits
<1>6. limit' \in [Tenants -> LimitValues]
  BY <1>3 DEF Types, SaveLimits
<1> QED BY <1>3, <1>5, <1>6 DEF Like, Quiet, Inserted, tables, SaveLimits

LEMMA Ends ==
  ASSUME Types, NEW r \in Requests, req[r].op # "provision", End(r)
  PROVE  Moved(r) /\ req'[r] = NoRequest
BY Fails DEF End

LEMMA Invalidates ==
  ASSUME Types, NEW r \in Requests, InvalidateCache(r)
  PROVE  /\ Quiet(r) /\ UNCHANGED <<profile, limit, edited, clock>> /\ req'[r].pc = "idle"
<1>1. req[r] \in Request /\ Path(req[r]) /\ req[r].pc = "invalidate"
  BY Here DEF InvalidateCache
<1>2. req[r].op # "provision"
  BY <1>1 DEF Path, Create, Request
<1>3. Moved(r) /\ req'[r] = NoRequest
  BY <1>2, Ends DEF InvalidateCache
<1> QED BY <1>3 DEF NoRequest, Quiet, Inserted, tables, InvalidateCache

LEMMA LooksUp ==
  ASSUME Types, NEW r \in Requests, ProvisionLookup(r)
  PROVE  Calm(r)
<1>1. req[r] \in Request /\ Path(req[r]) /\ Handles(req[r]) /\ req[r].pc = "provision"
  BY Here DEF ProvisionLookup
<1>2. req[r].op = "provision" /\ req[r].prof \in Profiles /\ ~req[r].created
  BY <1>1 DEF Path, Handles, Create, Request
<1> DEFINE p == profile[req[r].prof]
           q == [req[r] EXCEPT !.tenant = p.tenant, !.pc = "find", !.type = p.type]
<1>3. CASE p # None /\ p.type # "DISABLED"
  <2>1. p \in ProfileRow
    BY <1>2, <1>3 DEF Types
  <2>2. p.tenant \in Tenants /\ p.type \in ProfileTypes
    BY <2>1 DEF ProfileRow
  <2>3. req' = [req EXCEPT ![r] = q]
    BY <1>3 DEF ProvisionLookup
  <2> HIDE DEF p
  <2>4. q \in Request
    BY <1>1, <2>2 DEF Request, PCs
  <2>5. /\ q.pc = "find" /\ q.op = "provision" /\ q.tenant = p.tenant /\ q.name = req[r].name
        /\ q.prof = req[r].prof /\ q.created = req[r].created
    BY <1>1, <1>2 DEF Request
  <2> HIDE DEF q
  <2>6. Path(q) /\ Handles(q)
    BY <1>1, <1>2, <2>2, <2>5 DEF Path, Handles, Create
  <2>7. Moved(r) /\ req'[r] = q
    BY <2>3, <2>4, <2>6, Moves DEF Valid
  <2> QED BY <1>2, <2>5, <2>7 DEF Calm, Quiet, Inserted, tables, ProvisionLookup
<1>4. CASE Fail(r)
  BY <1>4, FailsCalmly DEF ProvisionLookup
<1> QED BY <1>3, <1>4 DEF ProvisionLookup

LEMMA FindsDevice ==
  ASSUME Types, NEW r \in Requests, FindDevice(r)
  PROVE  Calm(r)
<1>1. req[r] \in Request /\ Path(req[r]) /\ Handles(req[r]) /\ req[r].pc = "find"
  BY Here DEF FindDevice
<1>2. /\ req[r].op = "provision" /\ req[r].prof \in Profiles /\ ~req[r].created
      /\ req[r].tenant \in Tenants
  BY <1>1 DEF Path, Handles, Create, Request
<1> DEFINE found == {d \in Named(req[r].tenant, req[r].name) : device[d].profile = req[r].prof}
           d == CHOOSE x \in found : TRUE
<1>3. CASE found # {}
  <2>1. d \in Devices /\ device[d] # None
    BY <1>3 DEF Named, DevicesOf, Live
  <2>2. req' = [req EXCEPT ![r].dev = d, ![r].pc = "token"]
    BY <1>3 DEF FindDevice
  <2> HIDE DEF found, d
  <2> DEFINE q == [req[r] EXCEPT !.dev = d, !.pc = "token"]
  <2>3. req' = [req EXCEPT ![r] = q]
    BY <2>2
  <2>4. q \in Request
    BY <1>1, <2>1 DEF Request, PCs
  <2>5. /\ q.pc = "token" /\ q.op = "provision" /\ q.tenant = req[r].tenant /\ q.name = req[r].name
        /\ q.prof = req[r].prof /\ q.created = req[r].created /\ q.dev = d
    BY <1>1, <1>2 DEF Request
  <2> HIDE DEF q
  <2>6. Path(q) /\ Handles(q)
    BY <1>1, <1>2, <2>1, <2>5 DEF Path, Handles, Create
  <2>7. Moved(r) /\ req'[r] = q
    BY <2>3, <2>4, <2>6, Moves DEF Valid
  <2> QED BY <1>2, <2>1, <2>5, <2>7 DEF Calm, Quiet, tables, FindDevice
<1>4. CASE Goto(r, "limit")
  <2>1. ASSUME NEW q \in Request, q.pc = "limit", Like(q, req[r])
        PROVE  Path(q) /\ Handles(q)
    BY <1>1, <1>2, <2>1 DEF Path, Handles, Like, Create
  <2>2. Moved(r) /\ req'[r].pc = "limit" /\ Like(req'[r], req[r])
    BY <1>4, <2>1, Goes DEF PCs, Create
  <2> QED BY <1>2, <2>2 DEF Like, Calm, Quiet, Inserted, tables, FindDevice
<1>5. CASE Fail(r)
  BY <1>5, FailsCalmly DEF FindDevice
<1> QED BY <1>3, <1>4, <1>5 DEF FindDevice

-----------------------------------------------------------------------------
(* Requests that arrive.                                                   *)

LEMMA Starts ==
  ASSUME Types, NEW r \in Requests, NEW q, Valid(q), Start(r, q), ~q.created,
         q.pc \notin {"write", "commit", "done", "store", "count", "insert"}, ~Inserted(q)
  PROVE  Calm(r)
<1>1. Moved(r) /\ req'[r] = q
  BY Moves DEF Start
<1> QED BY <1>1 DEF Calm, Quiet, tables, Start

(* What a request holds when it arrives.                                   *)
Kinds == {"save", "delete", "credentials", "import", "provision", "limits", "dropProfile"}

LEMMA AskedFields ==
  ASSUME NEW op \in Kinds, NEW pc \in PCs, NEW t \in Tenants \cup {None}, NEW d \in Devices \cup {None}
  PROVE  /\ Asked(op, pc, t, d) \in Request
         /\ Asked(op, pc, t, d).op = op /\ Asked(op, pc, t, d).pc = pc
         /\ Asked(op, pc, t, d).tenant = t /\ Asked(op, pc, t, d).dev = d
         /\ ~Asked(op, pc, t, d).created
BY NoRequestValid DEF Asked, Valid, Request, NoRequest, Kinds

LEMMA KindsHere ==
  /\ \A op \in {"save", "delete", "credentials", "import", "provision", "limits", "dropProfile"} :
       op \in Kinds
  /\ \A pc \in {"profile", "limit", "owner", "provision", "saveLimits", "inUse"} : pc \in PCs
BY DEF Kinds, PCs, Create

LEMMA SaveArrives ==
  ASSUME Types, NEW r \in Requests, NEW i \in Saves,
         HandleDeviceCreateOrUpdate(r, i) \/ HandleDeviceWithCredentials(r, i)
  PROVE  Calm(r)
<1> DEFINE pc == IF i.cred # None \/ i.prof = None THEN "profile"
                 ELSE IF i.dev = None THEN "limit" ELSE "owner"
           a == Asked("save", pc, i.tenant, i.dev)
           q == [a EXCEPT !.name = i.name, !.prof = i.prof, !.cred = i.cred]
<1>1. /\ i.tenant \in Tenants /\ i.dev \in Devices \cup {None} /\ i.name \in Names
      /\ i.prof \in Profiles \cup {None} /\ i.cred \in Given \cup {None}
  <2>1. i \in [tenant : Tenants, dev : Devices \cup {None}, name : Names,
               prof : Profiles \cup {None}, cred : Given \cup {None}]
    BY DeviceInputAssumption
  <2> QED BY <2>1
<1>2. Start(r, q)
  BY DEF HandleDeviceCreateOrUpdate, HandleDeviceWithCredentials, Saved
<1>3. pc \in {"profile", "limit", "owner"} /\ (pc # "profile" => i.prof # None)
  OBVIOUS
<1> HIDE DEF pc
<1>4. a \in Request /\ a.op = "save" /\ a.pc = pc /\ a.tenant = i.tenant /\ a.dev = i.dev /\ ~a.created
  BY <1>1, <1>3, KindsHere, AskedFields
<1> HIDE DEF a
<1>5. /\ q \in Request /\ q.op = "save" /\ q.pc = pc /\ q.tenant = i.tenant /\ q.dev = i.dev
      /\ q.name = i.name /\ q.prof = i.prof /\ ~q.created
  BY <1>1, <1>4 DEF Request
<1> HIDE DEF q
<1>6. Path(q) /\ Handles(q)
  BY <1>1, <1>3, <1>5 DEF Path, Handles, Create
<1> QED BY <1>2, <1>3, <1>5, <1>6, Starts DEF Valid, Inserted

LEMMA DeleteArrives ==
  ASSUME Types, NEW r \in Requests, NEW i \in Deletes, HandleDeviceDelete(r, i)
  PROVE  Calm(r)
<1> DEFINE q == Asked("delete", "owner", i.tenant, i.dev)
<1>1. i \in [tenant : Tenants, dev : Devices]
  BY DeviceInputAssumption
<1>2. /\ q \in Request /\ q.op = "delete" /\ q.pc = "owner" /\ q.tenant = i.tenant /\ q.dev = i.dev
      /\ ~q.created
  BY <1>1, KindsHere, AskedFields
<1>3. Start(r, q)
  BY DEF HandleDeviceDelete
<1> HIDE DEF q
<1>4. Path(q) /\ Handles(q)
  BY <1>1, <1>2 DEF Path, Handles, Create
<1> QED BY <1>2, <1>3, <1>4, Starts DEF Valid, Inserted

LEMMA RotationArrives ==
  ASSUME Types, NEW r \in Requests, NEW i \in Rotations, HandleDeviceCredentialsUpdate(r, i)
  PROVE  Calm(r)
<1> DEFINE a == Asked("credentials", "owner", i.tenant, i.dev)
           q == [a EXCEPT !.cred = i.cred]
<1>1. i.tenant \in Tenants /\ i.dev \in Devices /\ i.cred \in Given
  <2>1. i \in [tenant : Tenants, dev : Devices, cred : Given]
    BY DeviceInputAssumption
  <2> QED BY <2>1
<1>2. Start(r, q)
  BY DEF HandleDeviceCredentialsUpdate
<1>3. /\ a \in Request /\ a.op = "credentials" /\ a.pc = "owner" /\ a.tenant = i.tenant
      /\ a.dev = i.dev /\ ~a.created
  BY <1>1, KindsHere, AskedFields
<1> HIDE DEF a
<1>4. /\ q \in Request /\ q.op = "credentials" /\ q.pc = "owner" /\ q.tenant = i.tenant
      /\ q.dev = i.dev /\ ~q.created
  BY <1>1, <1>3 DEF Request
<1> HIDE DEF q
<1>5. Path(q) /\ Handles(q)
  BY <1>1, <1>4 DEF Path, Handles, Create
<1> QED BY <1>2, <1>4, <1>5, Starts DEF Valid, Inserted

LEMMA ImportArrives ==
  ASSUME Types, NEW r \in Requests, NEW i \in Imports, HandleDeviceBulkImport(r, i)
  PROVE  Calm(r)
<1> DEFINE a == Asked("import", "profile", i.tenant, None)
           q == [a EXCEPT !.rows = i.rows]
<1>1. i.tenant \in Tenants /\ i.rows \in Seq(FileRow)
  <2>1. i \in [tenant : Tenants, rows : Seq(FileRow)]
    BY DeviceInputAssumption
  <2> QED BY <2>1
<1>2. Start(r, q)
  BY DEF HandleDeviceBulkImport
<1>3. a \in Request /\ a.op = "import" /\ a.pc = "profile" /\ a.tenant = i.tenant /\ ~a.created
  BY <1>1, KindsHere, AskedFields
<1> HIDE DEF a
<1>4. q \in Request /\ q.op = "import" /\ q.pc = "profile" /\ q.tenant = i.tenant /\ ~q.created
  BY <1>1, <1>3 DEF Request
<1> HIDE DEF q
<1>5. Path(q) /\ Handles(q)
  BY <1>1, <1>4 DEF Path, Handles, Create
<1> QED BY <1>2, <1>4, <1>5, Starts DEF Valid, Inserted

LEMMA ProvisionArrives ==
  ASSUME Types, NEW r \in Requests, NEW i \in Provisions, HandleProvision(r, i)
  PROVE  Calm(r)
<1> DEFINE a == Asked("provision", "provision", None, None)
           q == [a EXCEPT !.prof = i.prof, !.name = i.name]
<1>1. i.prof \in Profiles /\ i.name \in Names
  <2>1. i \in [prof : Profiles, name : Names]
    BY DeviceInputAssumption
  <2> QED BY <2>1
<1>2. Start(r, q)
  BY DEF HandleProvision
<1>3. a \in Request /\ a.op = "provision" /\ a.pc = "provision" /\ ~a.created
  BY <1>1, KindsHere, AskedFields
<1> HIDE DEF a
<1>4. /\ q \in Request /\ q.op = "provision" /\ q.pc = "provision" /\ q.prof = i.prof
      /\ q.name = i.name /\ ~q.created
  BY <1>1, <1>3 DEF Request
<1> HIDE DEF q
<1>5. Path(q) /\ Handles(q)
  BY <1>1, <1>4 DEF Path, Handles, Create
<1> QED BY <1>2, <1>4, <1>5, Starts DEF Valid, Inserted

LEMMA LimitsArrive ==
  ASSUME Types, NEW r \in Requests, NEW i \in LimitEdits, HandleLimits(r, i)
  PROVE  Calm(r)
<1> DEFINE a == Asked("limits", "saveLimits", i.tenant, None)
           q == [a EXCEPT !.lim = i.lim]
<1>1. i.tenant \in Tenants /\ i.lim \in Nat /\ i.lim \in LimitValues
  <2>1. i \in [tenant : Tenants, lim : Nat]
    BY DeviceInputAssumption
  <2> QED BY <2>1 DEF LimitValues
<1>2. Start(r, q)
  BY DEF HandleLimits
<1>3. a \in Request /\ a.op = "limits" /\ a.pc = "saveLimits" /\ a.tenant = i.tenant /\ ~a.created
  BY <1>1, KindsHere, AskedFields
<1> HIDE DEF a
<1>4. /\ q \in Request /\ q.op = "limits" /\ q.pc = "saveLimits" /\ q.tenant = i.tenant
      /\ q.lim = i.lim /\ ~q.created
  BY <1>1, <1>3 DEF Request
<1> HIDE DEF q
<1>5. Path(q) /\ Handles(q)
  BY <1>1, <1>4 DEF Path, Handles, Create
<1> QED BY <1>2, <1>4, <1>5, Starts DEF Valid, Inserted

LEMMA ProfileDeleteArrives ==
  ASSUME Types, NEW r \in Requests, NEW i \in ProfileDeletes, HandleDeviceProfileDelete(r, i)
  PROVE  Calm(r)
<1> DEFINE a == Asked("dropProfile", "inUse", i.tenant, None)
           q == [a EXCEPT !.prof = i.prof]
<1>1. i.tenant \in Tenants /\ i.prof \in Profiles
  <2>1. i \in [tenant : Tenants, prof : Profiles]
    BY DeviceInputAssumption
  <2> QED BY <2>1
<1>2. Start(r, q)
  BY DEF HandleDeviceProfileDelete
<1>3. a \in Request /\ a.op = "dropProfile" /\ a.pc = "inUse" /\ a.tenant = i.tenant /\ ~a.created
  BY <1>1, KindsHere, AskedFields
<1> HIDE DEF a
<1>4. /\ q \in Request /\ q.op = "dropProfile" /\ q.pc = "inUse" /\ q.tenant = i.tenant
      /\ q.prof = i.prof /\ ~q.created
  BY <1>1, <1>3 DEF Request
<1> HIDE DEF q
<1>5. Path(q) /\ Handles(q)
  BY <1>1, <1>4 DEF Path, Handles, Create
<1> QED BY <1>2, <1>4, <1>5, Starts DEF Valid, Inserted

-----------------------------------------------------------------------------
(* The handlers that write rows.  What they write is in their definitions; *)
(* what becomes of their requests is here.                                 *)

(* After a saved device: the wizard's credential, or the end.              *)
LEMMA GoesOn ==
  ASSUME Types, NEW r \in Requests, NEW there \in BOOLEAN, Credential(r, there),
         req[r].pc \in {"update", "default"}
  PROVE  /\ Moved(r) /\ ~req'[r].created /\ req'[r].pc \in {"idle", "upsert"}
         /\ req'[r].pc = "upsert" => there /\ req'[r].dev = req[r].dev
<1>1. req[r] \in Request /\ Path(req[r]) /\ Handles(req[r])
  BY Here
<1>2. req[r].op = "save" /\ ~req[r].created
  BY <1>1 DEF Path, Handles, Request, Create
<1>3. CASE req[r].cred # None /\ there
  <2>1. ASSUME NEW q \in Request, q.pc = "upsert", Like(q, req[r])
        PROVE  Path(q) /\ Handles(q)
    BY <1>1, <1>2, <2>1 DEF Path, Handles, Like, Create
  <2>2. Moved(r) /\ req'[r].pc = "upsert" /\ Like(req'[r], req[r])
    BY <1>3, <2>1, Goes DEF Credential, PCs
  <2> QED BY <1>2, <1>3, <2>2 DEF Like
<1>4. CASE ~(req[r].cred # None /\ there)
  BY <1>2, <1>4, Ends DEF Credential, NoRequest
<1> QED BY <1>3, <1>4

LEMMA Updates ==
  ASSUME Types, NEW r \in Requests, UpdateDevice(r)
  PROVE  \/ Moved(r) /\ req'[r] = NoRequest /\ UNCHANGED device
         \/ /\ Moved(r) /\ ~req'[r].created /\ req'[r].pc \in {"idle", "upsert"}
            /\ req'[r].pc = "upsert" => req'[r].dev = req[r].dev
            /\ req[r].dev \in Live /\ profile[req[r].prof] # None
            /\ req[r].name \in Names /\ req[r].prof \in Profiles
            /\ device' = [device EXCEPT ![req[r].dev] =
                            [device[req[r].dev] EXCEPT !.name = req[r].name, !.profile = req[r].prof]]
<1>1. req[r] \in Request /\ Path(req[r]) /\ Handles(req[r]) /\ req[r].pc = "update"
  BY Here DEF UpdateDevice
<1>2. req[r].op = "save" /\ req[r].name \in Names /\ req[r].prof \in Profiles
  BY <1>1 DEF Path, Handles, Request, Create
<1>3. CASE req[r].dev \notin Live
  BY <1>2, <1>3, Ends DEF UpdateDevice
<1>4. CASE req[r].dev \in Live /\ ~RowFits(req[r].tenant, req[r].name, req[r].prof, req[r].dev)
  BY <1>4, Fails DEF UpdateDevice
<1>5. CASE req[r].dev \in Live /\ RowFits(req[r].tenant, req[r].name, req[r].prof, req[r].dev)
  <2>1. Credential(r, TRUE)
    BY <1>5 DEF UpdateDevice
  <2>2. device' = [device EXCEPT ![req[r].dev] =
                     [device[req[r].dev] EXCEPT !.name = req[r].name, !.profile = req[r].prof]]
    BY <1>5 DEF UpdateDevice
  <2> QED BY <1>1, <1>2, <1>5, <2>1, <2>2, GoesOn DEF RowFits
<1> QED BY <1>3, <1>4, <1>5

LEMMA Inserts ==
  ASSUME Types, NEW r \in Requests, InsertDevice(r)
  PROVE  \/ /\ Moved(r) /\ ~req'[r].created /\ req'[r].pc \in {"idle", "row"} /\ UNCHANGED device
         \/ /\ Moved(r) /\ ~req'[r].created /\ req'[r].pc \in {"default", "upsert"}
            /\ req'[r].dev \in Devices /\ Fresh(req'[r].dev) /\ profile[req[r].prof] # None
            /\ req[r].tenant \in Tenants /\ req[r].name \in Names /\ req[r].prof \in Profiles
            /\ device' = [device EXCEPT ![req'[r].dev] =
                            [tenant |-> req[r].tenant, name |-> req[r].name, profile |-> req[r].prof]]
<1>1. req[r] \in Request /\ Path(req[r]) /\ Handles(req[r]) /\ req[r].pc = "insert"
  BY Here DEF InsertDevice
<1>2. req[r].op \in {"save", "import"}
  BY <1>1 DEF Path, Request, Create, InsertDevice
<1>3. /\ req[r].tenant \in Tenants /\ req[r].name \in Names /\ req[r].prof \in Profiles
      /\ ~req[r].created
  BY <1>1, <1>2 DEF Handles, Create
<1> DEFINE d == CHOOSE x \in Devices : Fresh(x)
<1>4. d \in Devices /\ Fresh(d)
  BY DEF InsertDevice
<1>5. CASE RowFits(req[r].tenant, req[r].name, req[r].prof, d)
  <2> DEFINE pc == IF req[r].op = "import" THEN "upsert" ELSE "default"
             q == [req[r] EXCEPT !.dev = d, !.pc = pc]
  <2>1. device' = [device EXCEPT ![d] = [tenant |-> req[r].tenant, name |-> req[r].name,
                                         profile |-> req[r].prof]]
    BY <1>5 DEF InsertDevice
  <2>2. req' = [req EXCEPT ![r].dev = d, ![r].pc = pc]
    BY <1>5 DEF InsertDevice
  <2>3. profile[req[r].prof] # None
    BY <1>5 DEF RowFits
  <2>4. pc \in {"upsert", "default"} /\ (req[r].op = "import" => pc = "upsert")
        /\ (req[r].op = "save" => pc = "default")
    OBVIOUS
  <2> HIDE DEF d, pc
  <2>5. req' = [req EXCEPT ![r] = q]
    BY <2>2
  <2>6. q \in Request
    BY <1>1, <1>4, <2>4 DEF Request, PCs
  <2>7. /\ q.pc = pc /\ q.dev = d /\ q.op = req[r].op /\ q.tenant = req[r].tenant
        /\ q.name = req[r].name /\ q.prof = req[r].prof /\ q.rows = req[r].rows
        /\ q.created = req[r].created
    BY <1>1 DEF Request
  <2> HIDE DEF q
  <2>8. Path(q) /\ Handles(q)
    BY <1>1, <1>2, <1>3, <1>4, <2>4, <2>7 DEF Path, Handles, Create
  <2>9. Moved(r) /\ req'[r] = q
    BY <2>5, <2>6, <2>8, Moves DEF Valid
  <2> QED BY <1>3, <1>4, <2>1, <2>3, <2>4, <2>7, <2>9
<1>6. CASE ~RowFits(req[r].tenant, req[r].name, req[r].prof, d)
  <2>1. Denied(r) /\ UNCHANGED device
    BY <1>6 DEF InsertDevice
  <2> QED BY <1>1, <2>1, Denies DEF Create
<1> QED BY <1>5, <1>6

LEMMA Defaults ==
  ASSUME Types, NEW r \in Requests, DefaultCredential(r)
  PROVE  /\ Moved(r) /\ ~req'[r].created /\ req'[r].pc \in {"idle", "upsert"}
         /\ req'[r].pc = "upsert" => req'[r].dev = req[r].dev
         /\ req[r].dev \in Devices
<1>1. req[r].pc = "default" /\ Handles(req[r])
  BY Here DEF DefaultCredential
<1>2. (req[r].dev \in Live) \in BOOLEAN /\ Credential(r, req[r].dev \in Live)
  BY DEF DefaultCredential
<1> QED BY <1>1, <1>2, GoesOn DEF Handles

LEMMA Upserts ==
  ASSUME Types, NEW r \in Requests, UpsertCredentials(r)
  PROVE  /\ Moved(r) /\ ~req'[r].created /\ req'[r].pc \in {"idle", "row"}
         /\ req[r].dev \in Devices /\ req[r].cred \in Given \cup {None}
<1>1. req[r] \in Request /\ Path(req[r]) /\ Handles(req[r]) /\ req[r].pc = "upsert"
  BY Here DEF UpsertCredentials
<1>2. /\ req[r].dev \in Devices /\ req[r].cred \in Given \cup {None}
      /\ req[r].op \in {"save", "credentials", "import"}
  BY <1>1 DEF Path, Handles, Request, Create
<1>3. CASE Denied(r)
  BY <1>1, <1>2, <1>3, Denies DEF Create
<1>4. CASE req[r].op = "import" /\ NextRow(r)
  BY <1>1, <1>2, <1>4, NextRows DEF Handles
<1>5. CASE req[r].op # "import" /\ End(r)
  BY <1>2, <1>5, Ends DEF NoRequest
<1> QED BY <1>3, <1>4, <1>5 DEF UpsertCredentials

LEMMA Deletion ==
  ASSUME Types, NEW r \in Requests, DeleteDevice(r)
  PROVE  Moved(r) /\ req'[r] = NoRequest /\ req[r].dev \in Devices
<1>1. req[r] \in Request /\ Path(req[r]) /\ Handles(req[r]) /\ req[r].pc = "delete"
  BY Here DEF DeleteDevice
<1>2. req[r].op = "delete" /\ req[r].dev \in Devices
  BY <1>1 DEF Path, Handles, Request, Create
<1> QED BY <1>2, Ends DEF DeleteDevice

LEMMA Drops ==
  ASSUME Types, NEW r \in Requests, DropProfile(r)
  PROVE  Moved(r) /\ req'[r] = NoRequest /\ req[r].prof \in Profiles
<1>1. req[r] \in Request /\ Path(req[r]) /\ Handles(req[r]) /\ req[r].pc = "drop"
  BY Here DEF DropProfile
<1>2. req[r].op = "dropProfile" /\ req[r].prof \in Profiles
  BY <1>1 DEF Path, Handles, Request, Create
<1> QED BY <1>2, Ends, Fails DEF DropProfile

LEMMA SavesProfile ==
  ASSUME Types, NEW r \in Requests, NEW i \in ProfileSaves, HandleDeviceProfileSave(r, i)
  PROVE  /\ Moved(r) /\ req'[r] = NoRequest /\ i.id \in Profiles
         /\ profile' \in [Profiles -> ProfileRow \cup {None}]
         /\ \A p \in Profiles : profile[p] # None => profile'[p] # None
<1>1. i \in [id : Profiles, tenant : Tenants, default : BOOLEAN, type : ProfileTypes]
  BY DeviceInputAssumption
<1> DEFINE new == [tenant |-> i.tenant, default |-> i.default, type |-> i.type]
<1>2. i.id \in Profiles /\ new \in ProfileRow
  BY <1>1 DEF ProfileRow
<1>3. profile' = [profile EXCEPT ![i.id] = new]
  BY DEF HandleDeviceProfileSave
<1>4. new # None
  BY <1>2, DeviceAdminAssumption
<1> HIDE DEF new
<1>5. Moved(r) /\ req'[r] = NoRequest
  BY Moves, NoRequestValid DEF HandleDeviceProfileSave
<1>6. /\ profile' \in [Profiles -> ProfileRow \cup {None}]
      /\ \A p \in Profiles : profile[p] # None => profile'[p] # None
  BY <1>2, <1>3, <1>4 DEF Types
<1> QED BY <1>2, <1>5, <1>6

LEMMA InsertsInTransaction ==
  ASSUME Types, NEW r \in Requests, ProvisionInsert(r)
  PROVE  \/ Moved(r) /\ req'[r] = NoRequest
         \/ /\ Moved(r) /\ req'[r].created /\ req'[r].pc = "token"
            /\ req'[r].dev \in Devices /\ Fresh(req'[r].dev) /\ profile[req[r].prof] # None
            /\ req'[r].prof = req[r].prof /\ req'[r].tenant = req[r].tenant
            /\ ~req[r].created
<1>1. req[r] \in Request /\ Path(req[r]) /\ Handles(req[r]) /\ req[r].pc = "insert"
  BY Here DEF ProvisionInsert
<1>2. req[r].op = "provision" /\ ~req[r].created
  BY <1>1 DEF Path, Handles, ProvisionInsert
<1> DEFINE d == CHOOSE x \in Devices : Fresh(x)
<1>3. d \in Devices /\ Fresh(d)
  BY DEF ProvisionInsert
<1>4. CASE RowFits(req[r].tenant, req[r].name, req[r].prof, d)
  <2> DEFINE q == [req[r] EXCEPT !.dev = d, !.created = TRUE, !.pc = "token"]
  <2>1. req' = [req EXCEPT ![r] = q]
    BY <1>4 DEF ProvisionInsert
  <2>2. profile[req[r].prof] # None
    BY <1>4 DEF RowFits
  <2> HIDE DEF d
  <2>3. q \in Request
    BY <1>1, <1>3 DEF Request, PCs
  <2>4. /\ q.pc = "token" /\ q.dev = d /\ q.op = req[r].op /\ q.tenant = req[r].tenant
        /\ q.name = req[r].name /\ q.prof = req[r].prof /\ q.created
    BY <1>1 DEF Request
  <2> HIDE DEF q
  <2>5. Path(q) /\ Handles(q)
    BY <1>1, <1>2, <1>3, <2>4 DEF Path, Handles, Create
  <2>6. Moved(r) /\ req'[r] = q
    BY <2>1, <2>3, <2>5, Moves DEF Valid
  <2> QED BY <1>2, <1>3, <2>2, <2>4, <2>6
<1>5. CASE Fail(r)
  BY <1>5, Fails
<1> QED BY <1>4, <1>5 DEF ProvisionInsert

(* What a provisioning that holds a device keeps until it is over.         *)
Keeps(r) ==
  /\ req'[r].dev = req[r].dev /\ req'[r].created = req[r].created /\ req'[r].tenant = req[r].tenant
  /\ req'[r].prof = req[r].prof /\ req'[r].op = req[r].op

LEMMA ReadsToken ==
  ASSUME Types, NEW r \in Requests, ReadToken(r)
  PROVE  /\ Moved(r) /\ Keeps(r) /\ req[r].dev \in Devices
         /\ KnownToken(r) => req'[r].pc = "commit" /\ req'[r].token = cred[req[r].dev].id
         /\ ~KnownToken(r) => req'[r].pc = "write"
<1>1. req[r] \in Request /\ Path(req[r]) /\ Handles(req[r]) /\ req[r].pc = "token"
  BY Here DEF ReadToken
<1>2. req[r].op = "provision" /\ req[r].dev \in Devices
  BY <1>1 DEF Path, Handles, Request, Create
<1>3. CASE KnownToken(r)
  <2> DEFINE q == [req[r] EXCEPT !.token = cred[req[r].dev].id, !.pc = "commit"]
  <2>1. cred[req[r].dev] \in Secret
    BY <1>2, <1>3 DEF KnownToken, HasToken, Types
  <2>2. cred[req[r].dev].id \in CredentialIds \cup Drawn
    BY <2>1 DEF Secret
  <2>3. req' = [req EXCEPT ![r] = q]
    BY <1>3 DEF ReadToken
  <2>4. q \in Request
    BY <1>1, <2>2 DEF Request, PCs
  <2>5. /\ q.pc = "commit" /\ q.dev = req[r].dev /\ q.op = req[r].op /\ q.tenant = req[r].tenant
        /\ q.name = req[r].name /\ q.prof = req[r].prof /\ q.created = req[r].created
        /\ q.token = cred[req[r].dev].id
    BY <1>1 DEF Request
  <2> HIDE DEF q
  <2>6. Path(q) /\ Handles(q)
    BY <1>1, <1>2, <2>5 DEF Path, Handles, Create
  <2>7. Moved(r) /\ req'[r] = q
    BY <2>3, <2>4, <2>6, Moves DEF Valid
  <2> QED BY <1>2, <1>3, <2>5, <2>7 DEF Keeps
<1>4. CASE ~KnownToken(r)
  <2>1. Goto(r, "write")
    BY <1>4 DEF ReadToken, Goto
  <2>2. ASSUME NEW q \in Request, q.pc = "write", Like(q, req[r])
        PROVE  Path(q) /\ Handles(q)
    BY <1>1, <1>2, <2>2 DEF Path, Handles, Like, Create
  <2>3. Moved(r) /\ req'[r].pc = "write" /\ Like(req'[r], req[r])
    BY <2>1, <2>2, Goes DEF PCs
  <2> QED BY <1>2, <1>4, <2>3 DEF Like, Keeps
<1> QED BY <1>3, <1>4

LEMMA WritesToken ==
  ASSUME Types, NEW r \in Requests, WriteToken(r)
  PROVE  /\ Moved(r) /\ Keeps(r) /\ req[r].dev \in Devices
         /\ req'[r].pc = "commit" /\ req'[r].token = <<r, req[r].dev>>
<1>1. req[r] \in Request /\ Path(req[r]) /\ Handles(req[r]) /\ req[r].pc = "write"
  BY Here DEF WriteToken
<1>2. req[r].op = "provision" /\ req[r].dev \in Devices
  BY <1>1 DEF Path, Handles, Request, Create
<1> DEFINE q == [req[r] EXCEPT !.token = <<r, req[r].dev>>, !.pc = "commit"]
<1>3. <<r, req[r].dev>> \in Drawn
  BY <1>2 DEF Drawn
<1>4. req' = [req EXCEPT ![r] = q]
  BY DEF WriteToken
<1>5. q \in Request
  BY <1>1, <1>3 DEF Request, PCs
<1>6. /\ q.pc = "commit" /\ q.dev = req[r].dev /\ q.op = req[r].op /\ q.tenant = req[r].tenant
      /\ q.name = req[r].name /\ q.prof = req[r].prof /\ q.created = req[r].created
      /\ q.token = <<r, req[r].dev>>
  BY <1>1 DEF Request
<1> HIDE DEF q
<1>7. Path(q) /\ Handles(q)
  BY <1>1, <1>2, <1>6 DEF Path, Handles, Create
<1>8. Moved(r) /\ req'[r] = q
  BY <1>4, <1>5, <1>7, Moves DEF Valid
<1> QED BY <1>2, <1>6, <1>8 DEF Keeps

LEMMA Commits ==
  ASSUME Types, NEW r \in Requests, CommitProvision(r)
  PROVE  /\ Moved(r) /\ Keeps(r) /\ req[r].dev \in Devices
         /\ req'[r].pc = "done" /\ req'[r].token = req[r].token
         /\ req[r].tenant \in Tenants /\ req[r].name \in Names /\ req[r].prof \in Profiles
<1>1. req[r] \in Request /\ Path(req[r]) /\ Handles(req[r]) /\ req[r].pc = "commit"
  BY Here DEF CommitProvision
<1>2. /\ req[r].op = "provision" /\ req[r].dev \in Devices
      /\ req[r].tenant \in Tenants /\ req[r].name \in Names /\ req[r].prof \in Profiles
  BY <1>1 DEF Path, Handles, Request, Create
<1>3. Goto(r, "done")
  BY <1>2 DEF CommitProvision, End
<1>4. ASSUME NEW q \in Request, q.pc = "done", Like(q, req[r])
      PROVE  Path(q) /\ Handles(q)
  BY <1>1, <1>2, <1>4 DEF Path, Handles, Like, Create
<1>5. Moved(r) /\ req'[r].pc = "done" /\ Like(req'[r], req[r])
  BY <1>3, <1>4, Goes DEF PCs
<1> QED BY <1>2, <1>5 DEF Like, Keeps

-----------------------------------------------------------------------------
(* The kinds of step.                                                      *)

(* What touches only the quota, and what writes rows.                      *)
QuotaStep(r) == LimitsFor(r) \/ ReadLimits(r) \/ StoreLimits(r) \/ Enforce(r) \/ SaveLimits(r)
                \/ InvalidateCache(r)
RowStep(r) ==
  \/ UpdateDevice(r) \/ InsertDevice(r) \/ DefaultCredential(r) \/ UpsertCredentials(r)
  \/ DeleteDevice(r) \/ DropProfile(r) \/ (\E i \in ProfileSaves : HandleDeviceProfileSave(r, i))
  \/ ProvisionInsert(r) \/ ReadToken(r) \/ WriteToken(r) \/ CommitProvision(r)

LEMMA StepKinds ==
  ASSUME Types, [DeviceNext]_deviceVars
  PROVE  \/ UNCHANGED deviceVars \/ Tick
         \/ \E r \in Requests : Calm(r) \/ QuotaStep(r) \/ RowStep(r)
<1>1. ASSUME NEW r \in Requests, Arrival(r)
      PROVE  Calm(r) \/ RowStep(r)
  <2>1. ASSUME NEW i \in Saves, HandleDeviceCreateOrUpdate(r, i) \/ HandleDeviceWithCredentials(r, i)
        PROVE  Calm(r)
    BY <2>1, SaveArrives
  <2>2. ASSUME NEW i \in Deletes, HandleDeviceDelete(r, i) PROVE Calm(r)
    BY <2>2, DeleteArrives
  <2>3. ASSUME NEW i \in Rotations, HandleDeviceCredentialsUpdate(r, i) PROVE Calm(r)
    BY <2>3, RotationArrives
  <2>4. ASSUME NEW i \in Imports, HandleDeviceBulkImport(r, i) PROVE Calm(r)
    BY <2>4, ImportArrives
  <2>5. ASSUME NEW i \in Provisions, HandleProvision(r, i) PROVE Calm(r)
    BY <2>5, ProvisionArrives
  <2>6. ASSUME NEW i \in LimitEdits, HandleLimits(r, i) PROVE Calm(r)
    BY <2>6, LimitsArrive
  <2>7. ASSUME NEW i \in ProfileDeletes, HandleDeviceProfileDelete(r, i) PROVE Calm(r)
    BY <2>7, ProfileDeleteArrives
  <2> QED BY <1>1, <2>1, <2>2, <2>3, <2>4, <2>5, <2>6, <2>7, Zenon DEF Arrival, RowStep
<1>2. ASSUME NEW r \in Requests, DeviceStep(r)
      PROVE  Calm(r) \/ QuotaStep(r) \/ RowStep(r)
  BY <1>2, Resolves, ChecksOwner, ImportsRow, ChecksProfile, LooksUp, FindsDevice, Zenon
  DEF DeviceStep, QuotaStep, RowStep
<1> QED BY <1>1, <1>2, Zenon DEF DeviceNext

LEMMA QuotaSteps ==
  ASSUME Types, NEW r \in Requests, QuotaStep(r)
  PROVE  Quiet(r) /\ UNCHANGED <<profile, clock>>
BY FindsLimits, ReadsLimits, StoresLimits, Enforces, SavesLimits, Invalidates DEF QuotaStep, quota

-----------------------------------------------------------------------------
(* The tables keep their types.                                            *)

LEMMA TypesMove ==
  ASSUME Types, NEW r \in Requests, Moved(r), clock' \in Nat,
         profile' \in [Profiles -> ProfileRow \cup {None}],
         device' \in [Devices -> DeviceRow \cup {None, Gone}],
         cred' \in [Devices -> Secret \cup {None}], rotated' \in SUBSET Devices,
         limit' \in [Tenants -> LimitValues], edited' \in [Tenants -> Nat],
         cache' \in [Tenants -> Entry \cup {None}]
  PROVE  Types'
<1>1. \A x \in Requests : Valid(req'[x])
  BY DEF Types, Moved
<1> QED BY <1>1 DEF Types, Moved, Valid, Path, Handles

LEMMA GeneratedSecret ==
  ASSUME NEW r \in Requests, NEW d \in Devices
  PROVE  /\ Generated(r, d) \in Secret /\ Generated(r, d) # None
         /\ Generated(r, d).type = "ACCESS_TOKEN" /\ Generated(r, d).id = <<r, d>>
         /\ <<r, d>> \in Drawn /\ Generated(r, d).id[2] = d
<1>1. Generated(r, d) \in Secret /\ <<r, d>> \in Drawn
  BY DEF Generated, Secret, Drawn, CredentialTypes
<1> QED BY <1>1, DeviceAdminAssumption DEF Generated

LEMMA GivenIsSecret == Given \subseteq Secret /\ None \notin Given /\ None \notin Secret
<1>1. Given \subseteq Secret
  BY DEF Given, Secret
<1> QED BY <1>1, DeviceAdminAssumption

LEMMA TypesInit ==
  ASSUME DeviceInit
  PROVE  Types
<1>1. /\ profile \in [Profiles -> ProfileRow \cup {None}]
      /\ device \in [Devices -> DeviceRow \cup {None, Gone}]
      /\ cred \in [Devices -> Secret \cup {None}]
      /\ rotated \in SUBSET Devices
  BY DeviceInputAssumption, GivenIsSecret DEF DeviceInit
<1>2. limit \in [Tenants -> LimitValues]
  BY DeviceInputAssumption DEF DeviceInit, LimitValues
<1>3. edited \in [Tenants -> Nat] /\ cache \in [Tenants -> Entry \cup {None}] /\ clock \in Nat
  BY DEF DeviceInit
<1>4. req \in [Requests -> Request] /\ \A r \in Requests : Valid(req[r])
  BY NoRequestValid DEF DeviceInit, Valid
<1> QED BY <1>1, <1>2, <1>3, <1>4 DEF Types

LEMMA TypesStep ==
  ASSUME Types, [DeviceNext]_deviceVars
  PROVE  Types'
<1>1. CASE UNCHANGED deviceVars
  BY <1>1 DEF deviceVars, tables, quota, Types, Valid, Path, Handles
<1>2. CASE Tick
  BY <1>2 DEF Tick, tables, quota, Types, Valid, Path, Handles
<1>3. ASSUME NEW r \in Requests, Calm(r)
      PROVE  Types'
  BY <1>3, TypesMove DEF Calm, Quiet, quota, Types
<1>4. ASSUME NEW r \in Requests, QuotaStep(r)
      PROVE  Types'
  <2>1. Quiet(r) /\ UNCHANGED <<profile, clock>>
    BY <1>4, QuotaSteps
  <2>2. /\ limit' \in [Tenants -> LimitValues] /\ edited' \in [Tenants -> Nat]
        /\ cache' \in [Tenants -> Entry \cup {None}]
    <3>1. CASE LimitsFor(r) \/ ReadLimits(r) \/ Enforce(r)
      BY <3>1 DEF LimitsFor, ReadLimits, Enforce, quota, Types
    <3>2. CASE StoreLimits(r)
      BY <3>2, StoresLimits DEF Types
    <3>3. CASE SaveLimits(r)
      <4>1. limit' \in [Tenants -> LimitValues]
        BY <3>3, SavesLimits
      <4>2. edited' \in [Tenants -> Nat] /\ cache' = cache
        BY <3>3 DEF SaveLimits, Types
      <4> QED BY <4>1, <4>2 DEF Types
    <3>4. CASE InvalidateCache(r)
      BY <3>4 DEF InvalidateCache, Types
    <3> QED BY <1>4, <3>1, <3>2, <3>3, <3>4 DEF QuotaStep
  <2> QED BY <2>1, <2>2, TypesMove DEF Quiet, Types
<1>5. ASSUME NEW r \in Requests, RowStep(r)
      PROVE  Types'
  <2>1. CASE UpdateDevice(r)
    <3>1. Moved(r) /\ UNCHANGED <<profile, cred, rotated, quota, clock>>
      BY <2>1, Updates DEF UpdateDevice
    <3>2. device' \in [Devices -> DeviceRow \cup {None, Gone}]
      <4>1. CASE UNCHANGED device
        BY <4>1 DEF Types
      <4>2. CASE ~UNCHANGED device
        <5> DEFINE new == [device[req[r].dev] EXCEPT !.name = req[r].name, !.profile = req[r].prof]
        <5>1. /\ req[r].dev \in Live /\ req[r].name \in Names /\ req[r].prof \in Profiles
              /\ device' = [device EXCEPT ![req[r].dev] = new]
          BY <2>1, <4>2, Updates
        <5>2. device[req[r].dev] \in DeviceRow
          BY <5>1 DEF Live, Types
        <5>3. new \in DeviceRow
          BY <5>1, <5>2 DEF DeviceRow
        <5> HIDE DEF new
        <5> QED BY <5>1, <5>3 DEF Types
      <4> QED BY <4>1, <4>2
    <3> QED BY <3>1, <3>2, TypesMove DEF quota, Types
  <2>2. CASE InsertDevice(r)
    <3>1. Moved(r) /\ UNCHANGED <<profile, cred, rotated, quota, clock>>
      BY <2>2, Inserts DEF InsertDevice
    <3>2. device' \in [Devices -> DeviceRow \cup {None, Gone}]
      <4>1. CASE UNCHANGED device
        BY <4>1 DEF Types
      <4>2. CASE ~UNCHANGED device
        <5> DEFINE new == [tenant |-> req[r].tenant, name |-> req[r].name, profile |-> req[r].prof]
        <5>1. /\ new \in DeviceRow
              /\ device' = [device EXCEPT ![req'[r].dev] = new]
          BY <2>2, <4>2, Inserts DEF DeviceRow
        <5> HIDE DEF new
        <5> QED BY <5>1 DEF Types
      <4> QED BY <4>1, <4>2
    <3> QED BY <3>1, <3>2, TypesMove DEF quota, Types
  <2>3. CASE DefaultCredential(r)
    <3>1. /\ Moved(r) /\ req[r].dev \in Devices
          /\ UNCHANGED <<profile, device, rotated, quota, clock>>
      BY <2>3, Defaults DEF DefaultCredential
    <3>2. cred' \in [Devices -> Secret \cup {None}]
      <4>1. Generated(r, req[r].dev) \in Secret
        BY <3>1, GeneratedSecret
      <4> QED BY <2>3, <4>1 DEF DefaultCredential, Types
    <3> QED BY <3>1, <3>2, TypesMove DEF quota, Types
  <2>4. CASE UpsertCredentials(r)
    <3>1. /\ Moved(r) /\ req[r].dev \in Devices /\ req[r].cred \in Given \cup {None}
          /\ UNCHANGED <<profile, device, quota, clock>>
      BY <2>4, Upserts DEF UpsertCredentials
    <3>2. cred' \in [Devices -> Secret \cup {None}] /\ rotated' \in SUBSET Devices
      <4> DEFINE c == IF req[r].cred = None THEN Generated(r, req[r].dev) ELSE req[r].cred
      <4>1. c \in Secret
        BY <3>1, GeneratedSecret, GivenIsSecret
      <4>2. \/ UNCHANGED <<cred, rotated>>
            \/ cred' = [cred EXCEPT ![req[r].dev] = c] /\ rotated' = rotated \cup {req[r].dev}
        BY <2>4 DEF UpsertCredentials
      <4> HIDE DEF c
      <4> QED BY <3>1, <4>1, <4>2 DEF Types
    <3> QED BY <3>1, <3>2, TypesMove DEF quota, Types
  <2>5. CASE DeleteDevice(r)
    <3>1. Moved(r) /\ req[r].dev \in Devices /\ UNCHANGED <<profile, quota, clock>>
      BY <2>5, Deletion DEF DeleteDevice
    <3>2. /\ cred' \in [Devices -> Secret \cup {None}] /\ rotated' \in SUBSET Devices
          /\ device' \in [Devices -> DeviceRow \cup {None, Gone}]
      BY <2>5, <3>1 DEF DeleteDevice, Types
    <3> QED BY <3>1, <3>2, TypesMove DEF quota, Types
  <2>6. CASE DropProfile(r)
    <3>1. Moved(r) /\ req[r].prof \in Profiles /\ UNCHANGED <<device, cred, rotated, quota, clock>>
      BY <2>6, Drops DEF DropProfile
    <3>2. profile' \in [Profiles -> ProfileRow \cup {None}]
      BY <2>6, <3>1 DEF DropProfile, Types
    <3> QED BY <3>1, <3>2, TypesMove DEF quota, Types
  <2>7. ASSUME NEW i \in ProfileSaves, HandleDeviceProfileSave(r, i)
        PROVE  Types'
    <3>1. Moved(r) /\ profile' \in [Profiles -> ProfileRow \cup {None}]
      BY <2>7, SavesProfile
    <3> QED BY <2>7, <3>1, TypesMove DEF HandleDeviceProfileSave, quota, Types
  <2>8. CASE ProvisionInsert(r) \/ ReadToken(r) \/ WriteToken(r)
    <3>1. Moved(r) /\ UNCHANGED <<tables, quota, clock>>
      BY <2>8, InsertsInTransaction, ReadsToken, WritesToken
      DEF ProvisionInsert, ReadToken, WriteToken
    <3> QED BY <3>1, TypesMove DEF tables, quota, Types
  <2>9. CASE CommitProvision(r)
    <3>1. /\ Moved(r) /\ req[r].dev \in Devices /\ UNCHANGED <<profile, rotated, quota, clock>>
          /\ req[r].tenant \in Tenants /\ req[r].name \in Names /\ req[r].prof \in Profiles
      BY <2>9, Commits DEF CommitProvision
    <3>2. device' \in [Devices -> DeviceRow \cup {None, Gone}]
      <4> DEFINE new == [tenant |-> req[r].tenant, name |-> req[r].name, profile |-> req[r].prof]
      <4>1. new \in DeviceRow
        BY <3>1 DEF DeviceRow
      <4>2. device' = IF req[r].created THEN [device EXCEPT ![req[r].dev] = new] ELSE device
        BY <2>9 DEF CommitProvision
      <4> HIDE DEF new
      <4> QED BY <4>1, <4>2 DEF Types
    <3>3. cred' \in [Devices -> Secret \cup {None}]
      <4>1. Generated(r, req[r].dev) \in Secret
        BY <3>1, GeneratedSecret
      <4> QED BY <2>9, <4>1 DEF CommitProvision, Types
    <3> QED BY <3>1, <3>2, <3>3, TypesMove DEF quota, Types
  <2> QED BY <1>5, <2>1, <2>2, <2>3, <2>4, <2>5, <2>6, <2>7, <2>8, <2>9, Zenon DEF RowStep
<1> QED BY <1>1, <1>2, <1>3, <1>4, <1>5, StepKinds, Zenon

-----------------------------------------------------------------------------
(* Rows and the requests that hold them.                                   *)

LEMMA FoundMoves ==
  ASSUME Types, Found, NEW r \in Requests, Moved(r),
         \A d \in Devices : device[d] # None => device'[d] # None,
         Inserted(req'[r]) => device'[req'[r].dev] # None
  PROVE  Found'
<1>1. ASSUME NEW x \in Requests, Inserted(req'[x])
      PROVE  device'[req'[x].dev] # None
  <2>1. CASE x = r
    BY <1>1, <2>1
  <2>2. CASE x # r
    <3>1. req'[x] = req[x] /\ req[x].dev \in Devices
      BY <1>1, <2>2 DEF Moved, Types, Valid, Handles, Inserted
    <3> QED BY <1>1, <3>1 DEF Found
  <2> QED BY <2>1, <2>2
<1>2. Found' <=> \A x \in Requests : Inserted(req'[x]) => device'[req'[x].dev] # None
  BY DEF Found, Inserted
<1> QED BY <1>1, <1>2

LEMMA CreatingMoves ==
  ASSUME Types, Creating, NEW r \in Requests, Moved(r),
         \A d \in Devices : device[d] # None => device'[d] # None,
         \A x \in Requests \ {r} : req[x].created /\ req[x].pc # "done" =>
           device'[req[x].dev] = None /\ profile'[req[x].prof] # None,
         req'[r].created =>
           /\ req'[r].pc # "done" => device'[req'[r].dev] = None /\ profile'[req'[r].prof] # None
           /\ req'[r].pc = "done" => device'[req'[r].dev] # None
           /\ \A x \in Requests \ {r} : req[x].created => req[x].dev # req'[r].dev
  PROVE  Creating'
<1>1. ASSUME NEW x \in Requests, req'[x].created
      PROVE  /\ req'[x].pc # "done" => device'[req'[x].dev] = None /\ profile'[req'[x].prof] # None
             /\ req'[x].pc = "done" => device'[req'[x].dev] # None
             /\ \A y \in Requests : req'[y].created /\ req'[y].dev = req'[x].dev => y = x
  <2>1. CASE x = r
    BY <1>1, <2>1 DEF Moved
  <2>2. CASE x # r
    <3>1. req'[x] = req[x] /\ req[x].dev \in Devices
      BY <1>1, <2>2 DEF Moved, Types, Valid, Handles
    <3>2. ASSUME NEW y \in Requests, req'[y].created, req'[y].dev = req'[x].dev
          PROVE  y = x
      <4>1. CASE y = r
        BY <1>1, <2>2, <3>1, <3>2, <4>1
      <4>2. CASE y # r
        BY <1>1, <3>1, <3>2, <4>2 DEF Creating, Moved
      <4> QED BY <4>1, <4>2
    <3>3. req[x].pc = "done" => device[req[x].dev] # None
      BY <1>1, <3>1 DEF Creating
    <3> QED BY <1>1, <2>2, <3>1, <3>2, <3>3
  <2> QED BY <2>1, <2>2
<1> QED BY <1>1 DEF Creating

(* A request that creates a device holds it until it commits.              *)
LEMMA Held ==
  ASSUME Types, NEW x \in Requests, req[x].created
  PROVE  /\ req[x].dev \in Devices /\ req[x].prof \in Profiles
         /\ req[x].pc # "done" => Pending(x)
BY DEF Types, Valid, Handles, Pending

LEMMA QuietTables ==
  ASSUME Types, Tables, NEW r \in Requests, Quiet(r), profile' = profile
  PROVE  Tables'
<1>1. Found'
  BY FoundMoves DEF Quiet, Tables
<1>2. Creating'
  BY CreatingMoves DEF Quiet, Tables, Creating
<1>3. Profiled' /\ OneIdEach'
  BY DEF Quiet, Tables, Profiled, Live, OneIdEach
<1> QED BY <1>1, <1>2, <1>3 DEF Tables

(* A row that is written where nothing was, or where a live row is.        *)
LEMMA RowWritten ==
  ASSUME Types, Tables, NEW r \in Requests, Moved(r), ~req'[r].created,
         NEW d \in Devices, NEW new \in DeviceRow, Fresh(d) \/ d \in Live,
         profile[new.profile] # None,
         Inserted(req'[r]) => req'[r].dev = d,
         device' = [device EXCEPT ![d] = new], UNCHANGED <<profile, cred>>
  PROVE  Tables'
<1>1. new \notin {None, Gone}
  BY DeviceAdminAssumption
<1>2. device'[d] = new /\ \A e \in Devices \ {d} : device'[e] = device[e]
  BY DEF Types
<1>3. Found'
  BY <1>1, <1>2, FoundMoves DEF Tables
<1>4. ASSUME NEW x \in Requests \ {r}, req[x].created, req[x].pc # "done"
      PROVE  device'[req[x].dev] = None /\ profile'[req[x].prof] # None
  <2>1. Pending(x) /\ req[x].dev \in Devices
    BY <1>4, Held
  <2>2. device[req[x].dev] = None /\ profile[req[x].prof] # None
    BY <1>4 DEF Tables, Creating
  <2>3. req[x].dev # d
    BY <2>1, <2>2 DEF Fresh, Live
  <2> QED BY <1>2, <2>1, <2>2, <2>3
<1>5. Creating'
  BY <1>1, <1>2, <1>4, CreatingMoves DEF Tables
<1>6. Profiled'
  BY <1>2 DEF Tables, Profiled, Live
<1>7. OneIdEach'
  BY DEF Tables, OneIdEach
<1> QED BY <1>3, <1>5, <1>6, <1>7 DEF Tables

(* A credential that nobody else has.                                      *)
LEMMA CredentialWritten ==
  ASSUME Types, OneIdEach, NEW d \in Devices, NEW c \in Secret,
         c.id \in Drawn => c.id[2] = d,
         \A e \in Devices \ {d} : cred[e] # None => cred[e].id # c.id,
         cred' = [cred EXCEPT ![d] = c]
  PROVE  OneIdEach'
<1>1. cred'[d] = c /\ \A e \in Devices \ {d} : cred'[e] = cred[e]
  BY DEF Types
<1> QED BY <1>1 DEF OneIdEach

LEMMA GeneratedIsNew ==
  ASSUME Types, OneIdEach, NEW r \in Requests, NEW d \in Devices
  PROVE  \A e \in Devices \ {d} : cred[e] # None => cred[e].id # Generated(r, d).id
<1>1. <<r, d>> \in Drawn /\ <<r, d>>[2] = d /\ Generated(r, d).id = <<r, d>>
  BY GeneratedSecret
<1> QED BY <1>1 DEF OneIdEach

LEMMA TablesStep ==
  ASSUME Types, Types', Tables, [DeviceNext]_deviceVars
  PROVE  Tables'
<1>1. CASE UNCHANGED deviceVars \/ Tick
  BY <1>1 DEF deviceVars, tables, quota, Tick, Tables, Found, Creating, Profiled, Live, OneIdEach, Inserted
<1>2. ASSUME NEW r \in Requests, Calm(r) \/ QuotaStep(r)
      PROVE  Tables'
  BY <1>2, QuotaSteps, QuietTables DEF Calm
<1>3. ASSUME NEW r \in Requests, RowStep(r)
      PROVE  Tables'
  <2>1. CASE UpdateDevice(r)
    <3>1. CASE Moved(r) /\ req'[r] = NoRequest /\ UNCHANGED device
      BY <2>1, <3>1, QuietTables DEF UpdateDevice, NoRequest, Quiet, Inserted
    <3>2. CASE ~(Moved(r) /\ req'[r] = NoRequest /\ UNCHANGED device)
      <4> DEFINE new == [device[req[r].dev] EXCEPT !.name = req[r].name, !.profile = req[r].prof]
      <4>1. /\ Moved(r) /\ ~req'[r].created /\ req'[r].pc \in {"idle", "upsert"}
            /\ req'[r].pc = "upsert" => req'[r].dev = req[r].dev
            /\ req[r].dev \in Live /\ profile[req[r].prof] # None
            /\ req[r].name \in Names /\ req[r].prof \in Profiles
            /\ device' = [device EXCEPT ![req[r].dev] = new]
        BY <2>1, <3>2, Updates
      <4>2. device[req[r].dev] \in DeviceRow
        BY <4>1 DEF Live, Types
      <4>3. new \in DeviceRow /\ new.profile = req[r].prof
        BY <4>1, <4>2 DEF DeviceRow
      <4>4. UNCHANGED <<profile, cred>> /\ req[r].dev \in Devices
        BY <2>1, <4>1 DEF UpdateDevice, Live
      <4>5. Inserted(req'[r]) => req'[r].dev = req[r].dev
        BY <4>1 DEF Inserted
      <4> HIDE DEF new
      <4> QED BY <4>1, <4>3, <4>4, <4>5, RowWritten
    <3> QED BY <3>1, <3>2
  <2>2. CASE InsertDevice(r)
    <3>1. CASE Moved(r) /\ ~req'[r].created /\ req'[r].pc \in {"idle", "row"} /\ UNCHANGED device
      BY <2>2, <3>1, QuietTables DEF InsertDevice, Quiet, Inserted
    <3>2. CASE ~(Moved(r) /\ ~req'[r].created /\ req'[r].pc \in {"idle", "row"} /\ UNCHANGED device)
      <4> DEFINE new == [tenant |-> req[r].tenant, name |-> req[r].name, profile |-> req[r].prof]
      <4>1. /\ Moved(r) /\ ~req'[r].created /\ req'[r].pc \in {"default", "upsert"}
            /\ req'[r].dev \in Devices /\ Fresh(req'[r].dev) /\ profile[req[r].prof] # None
            /\ req[r].tenant \in Tenants /\ req[r].name \in Names /\ req[r].prof \in Profiles
            /\ device' = [device EXCEPT ![req'[r].dev] = new]
        BY <2>2, <3>2, Inserts
      <4>2. new \in DeviceRow /\ new.profile = req[r].prof
        BY <4>1 DEF DeviceRow
      <4>3. UNCHANGED <<profile, cred>>
        BY <2>2 DEF InsertDevice
      <4> HIDE DEF new
      <4> QED BY <4>1, <4>2, <4>3, RowWritten
    <3> QED BY <3>1, <3>2
  <2>3. CASE DefaultCredential(r)
    <3>1. /\ Moved(r) /\ ~req'[r].created /\ req'[r].pc \in {"idle", "upsert"}
          /\ req'[r].pc = "upsert" => req'[r].dev = req[r].dev
          /\ req[r].dev \in Devices /\ UNCHANGED <<profile, device>> /\ req[r].pc = "default"
      BY <2>3, Defaults DEF DefaultCredential
    <3>2. device[req[r].dev] # None
      BY <3>1 DEF Tables, Found, Inserted
    <3>3. Found'
      BY <3>1, <3>2, FoundMoves DEF Tables, Inserted
    <3>4. Creating'
      BY <3>1, CreatingMoves DEF Tables, Creating
    <3>5. Profiled'
      BY <3>1 DEF Tables, Profiled, Live
    <3>6. OneIdEach'
      <4>1. CASE cred' = cred
        BY <4>1 DEF Tables, OneIdEach
      <4>2. CASE cred' = [cred EXCEPT ![req[r].dev] = Generated(r, req[r].dev)]
        <5> DEFINE d == req[r].dev
                   c == Generated(r, d)
        <5>1. c \in Secret /\ c.id[2] = d /\ \A e \in Devices \ {d} : cred[e] # None => cred[e].id # c.id
          BY <3>1, GeneratedSecret, GeneratedIsNew DEF Tables
        <5>2. cred' = [cred EXCEPT ![d] = c] /\ d \in Devices
          BY <3>1, <4>2
        <5> HIDE DEF c, d
        <5> QED BY <5>1, <5>2, CredentialWritten DEF Tables
      <4> QED BY <2>3, <4>1, <4>2 DEF DefaultCredential
    <3> QED BY <3>3, <3>4, <3>5, <3>6 DEF Tables
  <2>4. CASE UpsertCredentials(r)
    <3>1. /\ Moved(r) /\ ~req'[r].created /\ req'[r].pc \in {"idle", "row"}
          /\ req[r].dev \in Devices /\ req[r].cred \in Given \cup {None}
          /\ UNCHANGED <<profile, device>>
      BY <2>4, Upserts DEF UpsertCredentials
    <3>2. Found'
      BY <3>1, FoundMoves DEF Tables, Inserted
    <3>3. Creating'
      BY <3>1, CreatingMoves DEF Tables, Creating
    <3>4. Profiled'
      BY <3>1 DEF Tables, Profiled, Live
    <3>5. OneIdEach'
      <4>1. CASE cred' = cred
        BY <4>1 DEF Tables, OneIdEach
      <4>2. CASE cred' # cred
        <5> DEFINE c == IF req[r].cred = None THEN Generated(r, req[r].dev) ELSE req[r].cred
        <5>1. ~IdTaken(req[r].dev, c.id) /\ cred' = [cred EXCEPT ![req[r].dev] = c]
          BY <2>4, <4>2 DEF UpsertCredentials
        <5>2. \A e \in Devices \ {req[r].dev} : cred[e] # None => cred[e].id # c.id
          BY <5>1 DEF IdTaken
        <5>3. c \in Secret /\ (c.id \in Drawn => c.id[2] = req[r].dev)
          <6>1. CASE req[r].cred = None
            BY <3>1, <6>1, GeneratedSecret
          <6>2. CASE req[r].cred # None
            <7>1. req[r].cred \in Given
              BY <3>1, <6>2
            <7>2. req[r].cred \in Secret /\ req[r].cred.id \in CredentialIds
              BY <7>1, GivenIsSecret DEF Given
            <7> QED BY <6>2, <7>2, DeviceAdminAssumption
          <6> QED BY <6>1, <6>2
        <5> HIDE DEF c
        <5> QED BY <3>1, <5>1, <5>2, <5>3, CredentialWritten DEF Tables
      <4> QED BY <4>1, <4>2
    <3> QED BY <3>2, <3>3, <3>4, <3>5 DEF Tables
  <2>5. CASE DeleteDevice(r)
    <3>1. /\ Moved(r) /\ req'[r] = NoRequest /\ req[r].dev \in Devices /\ profile' = profile
          /\ req[r].pc = "delete"
      BY <2>5, Deletion DEF DeleteDevice
    <3>2. /\ device'[req[r].dev] = Gone /\ cred'[req[r].dev] = None
          /\ \A e \in Devices \ {req[r].dev} : device'[e] = device[e] /\ cred'[e] = cred[e]
      BY <2>5, <3>1 DEF DeleteDevice, Types
    <3>3. device[req[r].dev] # None
      BY <3>1 DEF Tables, Found, Inserted
    <3>4. None # Gone /\ \A e \in Devices : device[e] # None => device'[e] # None
      BY <3>2, DeviceAdminAssumption
    <3>5. Found'
      BY <3>1, <3>4, FoundMoves DEF Tables, Inserted, NoRequest
    <3>6. ASSUME NEW x \in Requests \ {r}, req[x].created, req[x].pc # "done"
          PROVE  device'[req[x].dev] = None /\ profile'[req[x].prof] # None
      BY <3>1, <3>2, <3>3, <3>6, Held DEF Tables, Creating
    <3>7. Creating'
      BY <3>1, <3>4, <3>6, CreatingMoves DEF Tables, NoRequest
    <3>8. Profiled' /\ OneIdEach'
      BY <3>1, <3>2 DEF Tables, Profiled, Live, OneIdEach
    <3> QED BY <3>5, <3>7, <3>8 DEF Tables
  <2>6. CASE DropProfile(r)
    <3>1. /\ Moved(r) /\ req'[r] = NoRequest /\ req[r].prof \in Profiles
          /\ UNCHANGED <<device, cred>>
      BY <2>6, Drops DEF DropProfile
    <3>2. \/ profile' = profile
          \/ UsedBy(req[r].prof) = {} /\ profile' = [profile EXCEPT ![req[r].prof] = None]
      BY <2>6 DEF DropProfile, Referenced
    <3>3. ASSUME NEW p \in Profiles, p # req[r].prof \/ UsedBy(req[r].prof) # {}
          PROVE  profile'[p] = profile[p]
      BY <3>2, <3>3 DEF Types
    <3>4. Found'
      BY <3>1, FoundMoves DEF Tables, Inserted, NoRequest
    <3>5. ASSUME NEW x \in Requests \ {r}, req[x].created, req[x].pc # "done"
          PROVE  device'[req[x].dev] = None /\ profile'[req[x].prof] # None
      <4>1. Pending(x) /\ req[x].prof \in Profiles
        BY <3>5, Held
      <4>2. req[x].prof # req[r].prof
        BY <2>6, <4>1 DEF DropProfile
      <4> QED BY <3>1, <3>3, <3>5, <4>1, <4>2 DEF Tables, Creating
    <3>6. Creating'
      BY <3>1, <3>5, CreatingMoves DEF Tables, NoRequest
    <3>7. Profiled'
      <4>1. ASSUME NEW d \in Live
            PROVE  profile'[device[d].profile] # None
        <5>1. device[d].profile \in Profiles
          BY DEF Live, Types, DeviceRow
        <5>2. device[d].profile = req[r].prof => UsedBy(req[r].prof) # {}
          BY DEF UsedBy
        <5> QED BY <3>3, <5>1, <5>2 DEF Tables, Profiled
      <4> QED BY <3>1, <4>1 DEF Profiled, Live
    <3>8. OneIdEach'
      BY <3>1 DEF Tables, OneIdEach
    <3> QED BY <3>4, <3>6, <3>7, <3>8 DEF Tables
  <2>7. ASSUME NEW i \in ProfileSaves, HandleDeviceProfileSave(r, i)
        PROVE  Tables'
    <3>1. /\ Moved(r) /\ req'[r] = NoRequest /\ UNCHANGED <<device, cred>>
          /\ \A p \in Profiles : profile[p] # None => profile'[p] # None
      BY <2>7, SavesProfile DEF HandleDeviceProfileSave
    <3>2. Found'
      BY <3>1, FoundMoves DEF Tables, Inserted, NoRequest
    <3>3. ASSUME NEW x \in Requests \ {r}, req[x].created, req[x].pc # "done"
          PROVE  device'[req[x].dev] = None /\ profile'[req[x].prof] # None
      BY <3>1, <3>3, Held DEF Tables, Creating
    <3>4. Creating'
      BY <3>1, <3>3, CreatingMoves DEF Tables, NoRequest
    <3>5. Profiled'
      <4>1. ASSUME NEW d \in Live
            PROVE  device[d].profile \in Profiles
        BY DEF Live, Types, DeviceRow
      <4> QED BY <3>1, <4>1 DEF Tables, Profiled, Live
    <3>6. OneIdEach'
      BY <3>1 DEF Tables, OneIdEach
    <3> QED BY <3>2, <3>4, <3>5, <3>6 DEF Tables
  <2>8. CASE ProvisionInsert(r)
    <3>1. UNCHANGED <<profile, device, cred>>
      BY <2>8 DEF ProvisionInsert, tables
    <3>2. Profiled' /\ OneIdEach'
      BY <3>1 DEF Tables, Profiled, Live, OneIdEach
    <3>3. CASE Moved(r) /\ req'[r] = NoRequest
      BY <3>1, <3>2, <3>3, FoundMoves, CreatingMoves DEF Tables, Creating, Inserted, NoRequest
    <3>4. CASE ~(Moved(r) /\ req'[r] = NoRequest)
      <4>1. /\ Moved(r) /\ req'[r].created /\ req'[r].pc = "token"
            /\ req'[r].dev \in Devices /\ Fresh(req'[r].dev) /\ profile[req[r].prof] # None
            /\ req'[r].prof = req[r].prof
        BY <2>8, <3>4, InsertsInTransaction
      <4>2. ASSUME NEW x \in Requests \ {r}, req[x].created
            PROVE  req[x].dev # req'[r].dev
        <5>1. CASE req[x].pc = "done"
          BY <4>1, <4>2, <5>1 DEF Tables, Creating, Fresh
        <5>2. CASE req[x].pc # "done"
          BY <4>1, <4>2, <5>2, Held DEF Fresh
        <5> QED BY <5>1, <5>2
      <4>3. device'[req'[r].dev] = None
        BY <3>1, <4>1 DEF Fresh
      <4>4. Found'
        BY <3>1, <4>1, FoundMoves DEF Tables, Inserted
      <4>5. Creating'
        <5>1. \A x \in Requests \ {r} : req[x].created /\ req[x].pc # "done" =>
                device'[req[x].dev] = None /\ profile'[req[x].prof] # None
          BY <3>1 DEF Tables, Creating
        <5> QED BY <3>1, <4>1, <4>2, <4>3, <5>1, CreatingMoves DEF Tables
      <4> QED BY <3>2, <4>4, <4>5 DEF Tables
    <3> QED BY <3>3, <3>4
  <2>9. CASE ReadToken(r) \/ WriteToken(r)
    <3>1. /\ Moved(r) /\ Keeps(r) /\ req[r].dev \in Devices /\ UNCHANGED <<profile, device, cred>>
          /\ req[r].pc \in {"token", "write"} /\ req'[r].pc \in {"write", "commit"}
      BY <2>9, ReadsToken, WritesToken DEF ReadToken, WriteToken, tables
    <3>2. Profiled' /\ OneIdEach'
      BY <3>1 DEF Tables, Profiled, Live, OneIdEach
    <3>3. Found'
      BY <3>1, FoundMoves DEF Tables, Found, Inserted, Keeps
    <3>4. Creating'
      BY <3>1, CreatingMoves DEF Tables, Creating, Keeps
    <3> QED BY <3>2, <3>3, <3>4 DEF Tables
  <2>10. CASE CommitProvision(r)
    <3> DEFINE new == [tenant |-> req[r].tenant, name |-> req[r].name, profile |-> req[r].prof]
               d == req[r].dev
    <3>1. /\ Moved(r) /\ Keeps(r) /\ d \in Devices /\ profile' = profile
          /\ req[r].pc = "commit" /\ req'[r].pc = "done" /\ new \in DeviceRow
          /\ req[r].prof \in Profiles
      BY <2>10, Commits DEF CommitProvision, DeviceRow
    <3>2. device' = IF req[r].created THEN [device EXCEPT ![d] = new] ELSE device
      BY <2>10 DEF CommitProvision
    <3>3. new.profile = req[r].prof /\ new \notin {None, Gone}
      BY <3>1, DeviceAdminAssumption
    <3> HIDE DEF new
    <3>4. \A e \in Devices \ {d} : device'[e] = device[e]
      BY <3>1, <3>2 DEF Types
    <3>5. (req[r].created => device'[d] = new) /\ (~req[r].created => device'[d] = device[d])
      BY <3>1, <3>2 DEF Types
    <3>6. req[r].created => device[d] = None /\ profile[req[r].prof] # None
      BY <3>1 DEF Tables, Creating
    <3>7. ~req[r].created => device[d] # None
      BY <3>1 DEF Tables, Found, Inserted
    <3>8. device'[d] # None /\ \A e \in Devices : device[e] # None => device'[e] # None
      BY <3>3, <3>4, <3>5, <3>7
    <3>9. Found'
      BY <3>1, <3>8, FoundMoves DEF Tables, Keeps
    <3>10. ASSUME NEW x \in Requests \ {r}, req[x].created, req[x].pc # "done"
           PROVE  device'[req[x].dev] = None /\ profile'[req[x].prof] # None
      <4>1. req[x].dev \in Devices /\ device[req[x].dev] = None /\ profile[req[x].prof] # None
        BY <3>10, Held DEF Tables, Creating
      <4>2. req[x].dev # d
        BY <3>7, <3>10, <4>1 DEF Tables, Creating
      <4> QED BY <3>1, <3>4, <4>1, <4>2
    <3>11. Creating'
      <4>1. req'[r].created => \A x \in Requests \ {r} : req[x].created => req[x].dev # req'[r].dev
        BY <3>1 DEF Tables, Creating, Keeps
      <4> QED BY <3>1, <3>8, <3>10, <4>1, CreatingMoves DEF Tables, Keeps
    <3>12. Profiled'
      BY <3>1, <3>3, <3>4, <3>5, <3>6 DEF Tables, Profiled, Live
    <3>13. OneIdEach'
      <4>1. CASE cred' = cred
        BY <4>1 DEF Tables, OneIdEach
      <4>2. CASE cred' = [cred EXCEPT ![d] = Generated(r, d)]
        <5> DEFINE c == Generated(r, d)
        <5>1. c \in Secret /\ c.id[2] = d /\ \A e \in Devices \ {d} : cred[e] # None => cred[e].id # c.id
          BY <3>1, GeneratedSecret, GeneratedIsNew DEF Tables
        <5>2. cred' = [cred EXCEPT ![d] = c]
          BY <4>2
        <5> HIDE DEF c
        <5> QED BY <3>1, <5>1, <5>2, CredentialWritten DEF Tables
      <4> QED BY <2>10, <4>1, <4>2 DEF CommitProvision
    <3> QED BY <3>9, <3>11, <3>12, <3>13 DEF Tables
  <2> QED BY <1>3, <2>1, <2>2, <2>3, <2>4, <2>5, <2>6, <2>7, <2>8, <2>9, <2>10, Zenon DEF RowStep
<1> QED BY <1>1, <1>2, <1>3, StepKinds, Zenon

-----------------------------------------------------------------------------
(* Provisioning attempts and the token of the one that created the device. *)

(* The token a request that is not the owner has read, or will write.      *)
Borrows(q, d) == ~q.created /\ q.dev = d /\ q.pc \in {"write", "commit", "done"}

(* A step after which no owner's credential has changed and the request    *)
(* holds no token.                                                         *)
LEMMA TokensMove ==
  ASSUME Types, Tokens, NEW r \in Requests, Moved(r), rotated \subseteq rotated',
         \A p \in Requests : Owner(p, req[p].dev) /\ req[p].dev \notin rotated'
                               => cred'[req[p].dev] = cred[req[p].dev],
         req'[r].pc \notin {"write", "commit", "done"}
  PROVE  Tokens'
<1>1. ASSUME NEW x \in Requests
      PROVE  req'[x].created /\ req'[x].pc \in {"commit", "done"} => req'[x].token = <<x, req'[x].dev>>
  BY DEF Moved, Tokens
<1>2. ASSUME NEW x \in Requests, Owner(x, req[x].dev)'
      PROVE  /\ HasToken(req[x].dev)' /\ cred'[req'[x].dev].id = req'[x].token
             /\ \A q \in Requests :
                  Borrows(req'[q], req'[x].dev) => req'[q].pc # "write" /\ req'[q].token = req'[x].token
  <2>1. x # r /\ req'[x] = req[x]
    BY <1>2 DEF Owner, Moved
  <2>2. Owner(x, req[x].dev) /\ cred'[req[x].dev] = cred[req[x].dev]
    BY <1>2, <2>1 DEF Owner
  <2>3. HasToken(req[x].dev) /\ cred[req[x].dev].id = req[x].token
    BY <2>2 DEF Tokens
  <2>4. ASSUME NEW q \in Requests, Borrows(req'[q], req'[x].dev)
        PROVE  req'[q].pc # "write" /\ req'[q].token = req'[x].token
    <3>1. q # r /\ req'[q] = req[q]
      BY <2>4 DEF Borrows, Moved
    <3> QED BY <2>1, <2>2, <2>4, <3>1 DEF Tokens, Borrows
  <2> QED BY <2>1, <2>2, <2>3, <2>4 DEF HasToken
<1> QED BY <1>1, <1>2 DEF Tokens, Borrows

LEMMA TokensStep ==
  ASSUME Types, Tables, Tokens, [DeviceNext]_deviceVars
  PROVE  Tokens'
<1>1. CASE UNCHANGED deviceVars \/ Tick
  BY <1>1 DEF deviceVars, tables, Tick, Tokens, Owner, HasToken
<1>2. ASSUME NEW r \in Requests, Calm(r) \/ QuotaStep(r)
      PROVE  Tokens'
  BY <1>2, QuotaSteps, TokensMove DEF Calm, Quiet
<1>3. ASSUME NEW r \in Requests, RowStep(r)
      PROVE  Tokens'
  <2>1. CASE UpdateDevice(r)
    <3>1. Moved(r) /\ req'[r].pc \in {"idle", "upsert"}
      <4>1. CASE req'[r] = NoRequest /\ Moved(r)
        BY <4>1 DEF NoRequest
      <4>2. CASE Moved(r) /\ req'[r].pc \in {"idle", "upsert"}
        BY <4>2
      <4> QED BY <2>1, <4>1, <4>2, Updates
    <3> QED BY <2>1, <3>1, TokensMove DEF UpdateDevice
  <2>2. CASE InsertDevice(r)
    BY <2>2, Inserts, TokensMove DEF InsertDevice
  <2>3. CASE DefaultCredential(r)
    <3>1. Moved(r) /\ req'[r].pc \in {"idle", "upsert"} /\ rotated' = rotated
      BY <2>3, Defaults DEF DefaultCredential
    <3>2. ASSUME NEW d \in Devices, cred[d] # None
          PROVE  cred'[d] = cred[d]
      BY <2>3, <3>2 DEF DefaultCredential, Types
    <3>3. ASSUME NEW p \in Requests, Owner(p, req[p].dev)
          PROVE  cred'[req[p].dev] = cred[req[p].dev]
      <4>1. req[p].dev \in Devices
        BY <3>3, Held DEF Owner
      <4>2. cred[req[p].dev] # None
        BY <3>3 DEF Tokens, HasToken
      <4> QED BY <3>2, <4>1, <4>2
    <3> QED BY <3>1, <3>3, TokensMove
  <2>4. CASE UpsertCredentials(r)
    <3>1. Moved(r) /\ req'[r].pc \in {"idle", "row"} /\ req[r].dev \in Devices
      BY <2>4, Upserts
    <3>2. \/ UNCHANGED <<cred, rotated>>
          \/ /\ \A e \in Devices \ {req[r].dev} : cred'[e] = cred[e]
             /\ rotated' = rotated \cup {req[r].dev}
      BY <2>4 DEF UpsertCredentials, Types
    <3>3. ASSUME NEW p \in Requests, Owner(p, req[p].dev), req[p].dev \notin rotated'
          PROVE  cred'[req[p].dev] = cred[req[p].dev]
      <4>1. req[p].dev \in Devices
        BY <3>3, Held DEF Owner
      <4> QED BY <3>2, <3>3, <4>1
    <3> QED BY <3>1, <3>2, <3>3, TokensMove
  <2>5. CASE DeleteDevice(r)
    <3>1. Moved(r) /\ req'[r] = NoRequest /\ req[r].dev \in Devices
      BY <2>5, Deletion
    <3>2. /\ \A e \in Devices \ {req[r].dev} : cred'[e] = cred[e]
          /\ rotated' = rotated \cup {req[r].dev}
      BY <2>5 DEF DeleteDevice, Types
    <3>3. ASSUME NEW p \in Requests, Owner(p, req[p].dev), req[p].dev \notin rotated'
          PROVE  cred'[req[p].dev] = cred[req[p].dev]
      <4>1. req[p].dev \in Devices
        BY <3>3, Held DEF Owner
      <4> QED BY <3>2, <3>3, <4>1
    <3> QED BY <3>1, <3>2, <3>3, TokensMove DEF NoRequest
  <2>6. CASE DropProfile(r)
    BY <2>6, Drops, TokensMove DEF DropProfile, NoRequest
  <2>7. ASSUME NEW i \in ProfileSaves, HandleDeviceProfileSave(r, i)
        PROVE  Tokens'
    <3>1. Moved(r) /\ req'[r].pc = "idle"
      BY <2>7, SavesProfile DEF NoRequest
    <3> QED BY <2>7, <3>1, TokensMove DEF HandleDeviceProfileSave
  <2>8. CASE ProvisionInsert(r)
    <3>1. Moved(r) /\ req'[r].pc \in {"idle", "token"}
      BY <2>8, InsertsInTransaction DEF NoRequest
    <3> QED BY <2>8, <3>1, TokensMove DEF ProvisionInsert, tables
  <2>9. CASE ReadToken(r) \/ WriteToken(r)
    <3>1. /\ Moved(r) /\ Keeps(r) /\ req[r].dev \in Devices /\ UNCHANGED <<device, cred, rotated>>
          /\ req[r].pc \in {"token", "write"} /\ req'[r].pc \in {"write", "commit"}
      BY <2>9, ReadsToken, WritesToken DEF ReadToken, WriteToken, tables
    <3>2. ASSUME NEW x \in Requests
          PROVE  req'[x].created /\ req'[x].pc \in {"commit", "done"} => req'[x].token = <<x, req'[x].dev>>
      <4>1. CASE x # r
        BY <3>1, <4>1 DEF Moved, Tokens
      <4>2. CASE x = r /\ ReadToken(r)
        BY <3>1, <4>2, ReadsToken DEF Keeps, KnownToken
      <4>3. CASE x = r /\ WriteToken(r)
        BY <3>1, <4>3, WritesToken DEF Keeps
      <4> QED BY <2>9, <4>1, <4>2, <4>3
    <3>3. ASSUME NEW x \in Requests, Owner(x, req[x].dev)'
          PROVE  /\ HasToken(req[x].dev)' /\ cred'[req'[x].dev].id = req'[x].token
                 /\ \A q \in Requests :
                      Borrows(req'[q], req'[x].dev) => req'[q].pc # "write" /\ req'[q].token = req'[x].token
      <4>1. x # r /\ req'[x] = req[x]
        BY <3>1, <3>3 DEF Owner, Moved
      <4>2. Owner(x, req[x].dev)
        BY <3>1, <3>3, <4>1 DEF Owner
      <4>3. /\ HasToken(req[x].dev) /\ cred[req[x].dev].id = req[x].token
            /\ \A q \in Requests :
                 Borrows(req[q], req[x].dev) => req[q].pc # "write" /\ req[q].token = req[x].token
        BY <4>2 DEF Tokens, Borrows
      <4>4. ASSUME NEW q \in Requests, Borrows(req'[q], req'[x].dev)
            PROVE  req'[q].pc # "write" /\ req'[q].token = req'[x].token
        <5>1. CASE q # r
          <6>1. req'[q] = req[q]
            BY <3>1, <5>1 DEF Moved
          <6>2. Borrows(req[q], req[x].dev)
            BY <4>1, <4>4, <6>1
          <6> QED BY <4>1, <4>3, <6>1, <6>2
        <5>2. CASE q = r /\ ReadToken(r)
          <6>1. req[r].dev = req[x].dev /\ ~req[r].created
            BY <3>1, <4>1, <4>4, <5>2 DEF Borrows, Keeps
          <6>2. KnownToken(r)
            BY <4>3, <6>1 DEF KnownToken
          <6> QED BY <4>1, <4>3, <5>2, <6>1, <6>2, ReadsToken
        <5>3. CASE q = r /\ WriteToken(r)
          BY <3>1, <4>1, <4>3, <4>4, <5>3 DEF Borrows, Keeps, WriteToken
        <5> QED BY <2>9, <5>1, <5>2, <5>3
      <4> QED BY <3>1, <4>1, <4>3, <4>4 DEF HasToken
    <3> QED BY <3>2, <3>3 DEF Tokens, Borrows
  <2>10. CASE CommitProvision(r)
    <3>1. /\ Moved(r) /\ Keeps(r) /\ req[r].dev \in Devices /\ rotated' = rotated
          /\ req[r].pc = "commit" /\ req'[r].pc = "done" /\ req'[r].token = req[r].token
      BY <2>10, Commits DEF CommitProvision
    <3>2. cred' = IF Holds(r, req[r].dev)
                  THEN [cred EXCEPT ![req[r].dev] = Generated(r, req[r].dev)] ELSE cred
      BY <2>10 DEF CommitProvision
    <3>3. ASSUME NEW x \in Requests
          PROVE  req'[x].created /\ req'[x].pc \in {"commit", "done"} => req'[x].token = <<x, req'[x].dev>>
      BY <3>1 DEF Moved, Tokens, Keeps
    <3>4. ASSUME NEW x \in Requests, Owner(x, req[x].dev)'
          PROVE  /\ HasToken(req[x].dev)' /\ cred'[req'[x].dev].id = req'[x].token
                 /\ \A q \in Requests :
                      Borrows(req'[q], req'[x].dev) => req'[q].pc # "write" /\ req'[q].token = req'[x].token
      <4>1. CASE x = r
        <5>1. req[r].created /\ req[r].token = <<r, req[r].dev>>
          BY <3>1, <3>4, <4>1 DEF Owner, Keeps, Tokens
        <5>2. Holds(r, req[r].dev)
          BY <3>1, <5>1 DEF Holds
        <5>3. cred'[req[r].dev] = Generated(r, req[r].dev)
          BY <3>1, <3>2, <5>2 DEF Types
        <5>4. HasToken(req[r].dev)' /\ cred'[req'[r].dev].id = req'[r].token
          BY <3>1, <5>1, <5>3, GeneratedSecret DEF HasToken, Keeps
        <5>5. ASSUME NEW q \in Requests, Borrows(req'[q], req'[r].dev)
              PROVE  FALSE
          <6>1. q # r /\ req'[q] = req[q]
            BY <3>1, <5>1, <5>5 DEF Borrows, Keeps, Moved
          <6>2. Inserted(req[q]) /\ req[q].dev = req[r].dev
            BY <3>1, <5>5, <6>1 DEF Borrows, Inserted, Keeps
          <6> QED BY <3>1, <5>1, <6>2 DEF Tables, Found, Creating
        <5> QED BY <4>1, <5>4, <5>5
      <4>2. CASE x # r
        <5>1. req'[x] = req[x] /\ Owner(x, req[x].dev)
          BY <3>1, <3>4, <4>2 DEF Owner, Moved
        <5>2. /\ HasToken(req[x].dev) /\ cred[req[x].dev].id = req[x].token
              /\ \A q \in Requests :
                   Borrows(req[q], req[x].dev) => req[q].pc # "write" /\ req[q].token = req[x].token
              /\ req[x].token = <<x, req[x].dev>> /\ req[x].dev \in Devices
          BY <5>1, Held DEF Tokens, Borrows, Owner
        <5>3. cred'[req[x].dev] = cred[req[x].dev]
          <6>1. CASE req[x].dev # req[r].dev
            BY <3>2, <5>2, <6>1 DEF Types
          <6>2. CASE req[x].dev = req[r].dev
            <7>1. ~req[r].created
              BY <4>2, <5>1, <6>2 DEF Tables, Creating, Owner
            <7>2. req[r].token = <<x, req[x].dev>>
              BY <3>1, <5>2, <6>2, <7>1 DEF Borrows
            <7>3. ~Holds(r, req[r].dev)
              BY <4>2, <6>2, <7>2 DEF Holds
            <7> QED BY <3>2, <7>3
          <6> QED BY <6>1, <6>2
        <5>4. ASSUME NEW q \in Requests, Borrows(req'[q], req'[x].dev)
              PROVE  req'[q].pc # "write" /\ req'[q].token = req'[x].token
          <6>1. CASE q # r
            BY <3>1, <5>1, <5>2, <5>4, <6>1 DEF Moved
          <6>2. CASE q = r
            BY <3>1, <5>1, <5>2, <5>4, <6>2 DEF Borrows, Keeps
          <6> QED BY <6>1, <6>2
        <5> QED BY <5>1, <5>2, <5>3, <5>4 DEF HasToken
      <4> QED BY <4>1, <4>2
    <3> QED BY <3>3, <3>4 DEF Tokens, Borrows
  <2> QED BY <1>3, <2>1, <2>2, <2>3, <2>4, <2>5, <2>6, <2>7, <2>8, <2>9, <2>10, Zenon DEF RowStep
<1> QED BY <1>1, <1>2, <1>3, StepKinds, Zenon

-----------------------------------------------------------------------------
(* Limits and the cache.                                                   *)

LEMMA NoRequestIdle == NoRequest.pc = "idle"
BY DEF NoRequest

LEMMA RowStepsLeaveQuota ==
  ASSUME Types, NEW r \in Requests, RowStep(r)
  PROVE  /\ Moved(r) /\ req'[r].pc \notin {"store", "count", "insert"}
         /\ UNCHANGED <<quota, clock>>
<1>1. CASE UpdateDevice(r)
  <2>1. CASE Moved(r) /\ req'[r] = NoRequest
    BY <1>1, <2>1 DEF UpdateDevice, NoRequest
  <2>2. CASE Moved(r) /\ req'[r].pc \in {"idle", "upsert"}
    BY <1>1, <2>2 DEF UpdateDevice
  <2> QED BY <1>1, <2>1, <2>2, Updates
<1>2. CASE InsertDevice(r)
  BY <1>2, Inserts DEF InsertDevice
<1>3. CASE DefaultCredential(r)
  BY <1>3, Defaults DEF DefaultCredential
<1>4. CASE UpsertCredentials(r)
  BY <1>4, Upserts DEF UpsertCredentials
<1>5. CASE DeleteDevice(r)
  BY <1>5, Deletion, NoRequestIdle DEF DeleteDevice
<1>6. CASE DropProfile(r)
  BY <1>6, Drops DEF DropProfile, NoRequest
<1>7. ASSUME NEW i \in ProfileSaves, HandleDeviceProfileSave(r, i)
      PROVE  /\ Moved(r) /\ req'[r].pc \notin {"store", "count", "insert"}
             /\ UNCHANGED <<quota, clock>>
  <2>1. Moved(r) /\ req'[r] = NoRequest
    BY <1>7, SavesProfile
  <2> QED BY <1>7, <2>1 DEF HandleDeviceProfileSave, NoRequest
<1>8. CASE ProvisionInsert(r)
  <2>1. CASE Moved(r) /\ req'[r] = NoRequest
    BY <1>8, <2>1, NoRequestIdle DEF ProvisionInsert
  <2>2. CASE Moved(r) /\ req'[r].pc = "token"
    BY <1>8, <2>2 DEF ProvisionInsert
  <2> QED BY <1>8, <2>1, <2>2, InsertsInTransaction
<1>9. CASE ReadToken(r)
  BY <1>9, ReadsToken DEF ReadToken
<1>10. CASE WriteToken(r)
  BY <1>10, WritesToken DEF WriteToken
<1>11. CASE CommitProvision(r)
  BY <1>11, Commits DEF CommitProvision
<1> QED BY <1>1, <1>2, <1>3, <1>4, <1>5, <1>6, <1>7, <1>8, <1>9, <1>10, <1>11, Zenon DEF RowStep

(* A cached limit is the one in force, or was read before the last edit,   *)
(* and then it expires one TTL after that edit at the latest; so it is with *)
(* a limit that a request holds.                                           *)
CacheFresh ==
  \A t \in Tenants :
    /\ edited[t] <= clock
    /\ cache[t] # None =>
         /\ cache[t].expires <= clock + TTL
         /\ cache[t].limit = limit[t] \/ cache[t].expires <= edited[t] + TTL

HeldFresh ==
  \A r \in Requests :
    /\ req[r].pc = "store" =>
         req[r].lim = limit[req[r].tenant] \/ edited[req[r].tenant] = clock
    /\ req[r].pc = "count" =>
         req[r].lim = limit[req[r].tenant] \/ clock < edited[req[r].tenant] + TTL

Edits == CacheFresh /\ HeldFresh

LEMMA AtQuota ==
  ASSUME Types, NEW r \in Requests, req[r].pc \in Create
  PROVE  req[r].tenant \in Tenants
BY DEF Types, Valid, Path, Handles, Create

LEMMA HeldMoves ==
  ASSUME Types, HeldFresh, NEW r \in Requests, Moved(r), UNCHANGED <<limit, edited, clock>>,
         req'[r].pc = "store" =>
           req'[r].lim = limit[req'[r].tenant] \/ edited[req'[r].tenant] = clock,
         req'[r].pc = "count" =>
           req'[r].lim = limit[req'[r].tenant] \/ clock < edited[req'[r].tenant] + TTL
  PROVE  HeldFresh'
BY DEF HeldFresh, Moved

LEMMA EditsStep ==
  ASSUME Types, Types', Edits, [DeviceNext]_deviceVars
  PROVE  Edits'
<1> USE DeviceAdminAssumption
<1>1. CASE UNCHANGED deviceVars
  <2>1. UNCHANGED <<limit, edited, cache, req, clock>>
    BY <1>1 DEF deviceVars, quota
  <2>2. CacheFresh'
    BY <2>1 DEF Edits, CacheFresh
  <2>3. HeldFresh'
    BY <2>1 DEF Edits, HeldFresh
  <2> QED BY <2>2, <2>3 DEF Edits
<1>2. CASE Tick
  <2>1. clock' = clock + 1 /\ UNCHANGED <<limit, edited, cache, req>> /\ clock \in Nat
    BY <1>2 DEF Tick, quota, Types
  <2>2. CacheFresh'
    <3>1. ASSUME NEW t \in Tenants
          PROVE  /\ edited[t] \in Nat
                 /\ cache[t] # None => cache[t].expires \in Nat
      BY DEF Types, Entry
    <3> QED BY <2>1, <3>1 DEF Edits, CacheFresh
  <2>3. HeldFresh'
    <3>1. ASSUME NEW r \in Requests
          PROVE  req'[r].pc \notin {"store", "count"}
      BY <1>2, <2>1 DEF Tick
    <3> QED BY <3>1 DEF HeldFresh
  <2> QED BY <2>2, <2>3 DEF Edits
<1>3. ASSUME NEW r \in Requests, Calm(r) \/ RowStep(r)
      PROVE  Edits'
  <2>1. /\ Moved(r) /\ req'[r].pc \notin {"store", "count"}
        /\ UNCHANGED <<limit, edited, cache, clock>>
    BY <1>3, RowStepsLeaveQuota DEF Calm, Quiet, quota
  <2>2. HeldFresh'
    BY <2>1, HeldMoves DEF Edits
  <2> QED BY <2>1, <2>2 DEF Edits, CacheFresh
<1>4. ASSUME NEW r \in Requests, QuotaStep(r)
      PROVE  Edits'
  <2> DEFINE t == req[r].tenant
  <2>1. CASE LimitsFor(r)
    <3>1. /\ Moved(r) /\ UNCHANGED <<limit, edited, cache, clock>>
          /\ req'[r].tenant = t /\ req'[r].pc \in {"read", "count"}
          /\ req'[r].pc = "count" => Cached(t) /\ req'[r].lim = cache[t].limit
      BY <2>1, FindsLimits DEF Quiet, quota
    <3>2. t \in Tenants
      BY <2>1, AtQuota DEF LimitsFor, Create
    <3>3. edited[t] \in Nat /\ clock \in Nat /\ (cache[t] # None => cache[t].expires \in Nat)
      BY <3>2 DEF Types, Entry
    <3>4. Cached(t) => cache[t].limit = limit[t] \/ clock < edited[t] + TTL
      BY <3>2, <3>3 DEF Cached, Edits, CacheFresh
    <3>5. HeldFresh'
      BY <3>1, <3>4, HeldMoves DEF Edits
    <3> QED BY <3>1, <3>5 DEF Edits, CacheFresh
  <2>2. CASE ReadLimits(r)
    <3>1. /\ Moved(r) /\ UNCHANGED <<limit, edited, cache, clock>>
          /\ req'[r].tenant = t /\ req'[r].pc = "store" /\ req'[r].lim = limit[t]
      BY <2>2, ReadsLimits DEF Quiet, quota
    <3>2. HeldFresh'
      BY <3>1, HeldMoves DEF Edits
    <3> QED BY <3>1, <3>2 DEF Edits, CacheFresh
  <2>3. CASE StoreLimits(r)
    <3>1. /\ Moved(r) /\ UNCHANGED <<limit, edited, clock>>
          /\ req'[r].tenant = t /\ req'[r].pc = "count" /\ req'[r].lim = req[r].lim
      BY <2>3, StoresLimits DEF Quiet
    <3>2. /\ t \in Tenants /\ req[r].pc = "store"
          /\ cache' = [cache EXCEPT ![t] = [limit |-> req[r].lim, expires |-> clock + TTL]]
      BY <2>3, AtQuota DEF StoreLimits, Create
    <3>3. edited[t] \in Nat /\ clock \in Nat
      BY <3>2 DEF Types
    <3>4. req[r].lim = limit[t] \/ edited[t] = clock
      BY <3>2 DEF Edits, HeldFresh
    <3>5. HeldFresh'
      BY <3>1, <3>3, <3>4, HeldMoves DEF Edits
    <3>6. CacheFresh'
      <4>1. /\ cache'[t] = [limit |-> req[r].lim, expires |-> clock + TTL]
            /\ \A u \in Tenants \ {t} : cache'[u] = cache[u]
        BY <3>2 DEF Types
      <4>2. /\ cache'[t].expires <= clock + TTL
            /\ cache'[t].limit = limit[t] \/ cache'[t].expires <= edited[t] + TTL
        BY <3>3, <3>4, <4>1
      <4> QED BY <3>1, <4>1, <4>2 DEF Edits, CacheFresh
    <3> QED BY <3>5, <3>6 DEF Edits
  <2>4. CASE Enforce(r)
    <3>1. /\ Moved(r) /\ UNCHANGED <<limit, edited, cache, clock>>
          /\ req'[r].pc \in {"idle", "row", "insert"}
      BY <2>4, Enforces DEF Quiet, quota
    <3>2. HeldFresh'
      BY <3>1, HeldMoves DEF Edits
    <3> QED BY <3>1, <3>2 DEF Edits, CacheFresh
  <2>5. CASE SaveLimits(r)
    <3>1. /\ Moved(r) /\ UNCHANGED <<cache, clock>> /\ req'[r].pc = "invalidate"
      BY <2>5, SavesLimits DEF Quiet
    <3>2. /\ \A u \in Tenants : u # t => limit'[u] = limit[u] /\ edited'[u] = edited[u]
          /\ \A u \in Tenants : u = t => edited'[u] = clock
      BY <2>5 DEF SaveLimits, Types
    <3>3. clock \in Nat /\ clock < clock + TTL
      BY DEF Types
    <3>4. HeldFresh'
      <4>1. ASSUME NEW x \in Requests, req'[x].pc \in {"store", "count"}
            PROVE  /\ req'[x].pc = "store" =>
                        req'[x].lim = limit'[req'[x].tenant] \/ edited'[req'[x].tenant] = clock'
                   /\ req'[x].pc = "count" =>
                        req'[x].lim = limit'[req'[x].tenant] \/ clock' < edited'[req'[x].tenant] + TTL
        <5>1. x # r /\ req'[x] = req[x]
          BY <3>1, <4>1 DEF Moved
        <5>2. req[x].tenant \in Tenants
          BY <4>1, <5>1, AtQuota DEF Create
        <5>3. CASE req[x].tenant = t
          BY <3>1, <3>2, <3>3, <5>1, <5>2, <5>3
        <5>4. CASE req[x].tenant # t
          BY <3>1, <3>2, <5>1, <5>2, <5>4 DEF Edits, HeldFresh
        <5> QED BY <5>3, <5>4
      <4> QED BY <4>1 DEF HeldFresh
    <3>5. CacheFresh'
      <4>1. ASSUME NEW u \in Tenants
            PROVE  /\ edited'[u] <= clock
                   /\ cache[u] # None =>
                        /\ cache[u].expires <= clock + TTL
                        /\ cache[u].limit = limit'[u] \/ cache[u].expires <= edited'[u] + TTL
        <5>1. CASE u = t
          BY <3>2, <3>3, <5>1 DEF Edits, CacheFresh
        <5>2. CASE u # t
          BY <3>2, <5>2 DEF Edits, CacheFresh
        <5> QED BY <5>1, <5>2
      <4> QED BY <3>1, <4>1 DEF CacheFresh
    <3> QED BY <3>4, <3>5 DEF Edits
  <2>6. CASE InvalidateCache(r)
    <3>1. /\ Moved(r) /\ UNCHANGED <<limit, edited, clock>> /\ req'[r].pc = "idle"
          /\ cache' = [u \in Tenants |-> None]
      BY <2>6, Invalidates DEF Quiet, InvalidateCache
    <3>2. HeldFresh'
      BY <3>1, HeldMoves DEF Edits
    <3> QED BY <3>1, <3>2 DEF Edits, CacheFresh
  <2> QED BY <1>4, <2>1, <2>2, <2>3, <2>4, <2>5, <2>6 DEF QuotaStep
<1> QED BY <1>1, <1>2, <1>3, <1>4, StepKinds, Zenon

-----------------------------------------------------------------------------
(* The quota.                                                              *)

LEMMA FiniteMax ==
  ASSUME NEW S \in SUBSET Int, IsFiniteSet(S), S # {}
  PROVE  \E m \in S : \A y \in S : m >= y
<1> DEFINE HasMax(X) == \E m \in X : \A y \in X : m >= y
           T == {X \in SUBSET S : X # {} /\ ~HasMax(X)}
           R == StrictSubsetOrdering(S)
<1>1. IsWellFoundedOn(R, SUBSET S)
  BY FS_StrictSubsetOrderingWellFounded, FS_FiniteSubsetsOfFinite
<1>2. ASSUME T # {} PROVE FALSE
  <2>1. PICK X \in T : \A Y \in T : <<Y, X>> \notin R
    <3>1. T \subseteq SUBSET S
      OBVIOUS
    <3> HIDE DEF R, T
    <3> QED BY <1>1, <1>2, <3>1, WFMin
  <2>2. PICK e \in X : TRUE
    BY <2>1
  <2> DEFINE Y == X \ {e}
  <2>3. <<Y, X>> \in R
    BY <2>1, <2>2 DEF StrictSubsetOrdering
  <2>4. CASE Y = {}
    <3>1. \A y \in X : y = e
      BY <2>4
    <3>2. HasMax(X)
      BY <2>1, <2>2, <3>1
    <3> QED BY <2>1, <3>2
  <2>5. CASE Y # {}
    <3>1. HasMax(Y)
      BY <2>1, <2>3, <2>5
    <3>2. PICK m \in Y : \A y \in Y : m >= y
      BY <3>1
    <3>3. e \in Int /\ m \in Int
      BY <2>1
    <3>4. CASE m >= e
      BY <2>1, <3>2, <3>4
    <3>5. CASE e > m
      <4>1. \A y \in X : e >= y
        BY <2>1, <3>2, <3>3, <3>5
      <4> QED BY <2>1, <4>1
    <3> QED BY <3>3, <3>4, <3>5
  <2> QED BY <2>4, <2>5
<1>3. S \notin T
  BY <1>2
<1> QED BY <1>3

(* The largest limit there ever is.                                        *)
Most == CHOOSE m \in LimitValues : \A v \in LimitValues : v <= m

LEMMA MostIsMost ==
  ASSUME NEW t \in Tenants
  PROVE  Most \in Nat /\ \A v \in LimitValues : v <= Most
<1> DEFINE A == {LimitAtStart[u] : u \in Tenants}
           B == {i.lim : i \in LimitEdits}
<1>1. IsFiniteSet(A)
  <2>1. [u \in Tenants |-> LimitAtStart[u]] \in Surjection(Tenants, A)
    BY DEF Surjection
  <2> QED BY <2>1, FS_Surjection, DeviceAdminAssumption
<1>2. IsFiniteSet(B)
  <2>1. [i \in LimitEdits |-> i.lim] \in Surjection(LimitEdits, B)
    BY DEF Surjection
  <2> QED BY <2>1, FS_Surjection, DeviceAdminAssumption
<1>3. IsFiniteSet(LimitValues)
  <2>1. LimitValues = A \cup B
    BY DEF LimitValues
  <2> HIDE DEF A, B
  <2> QED BY <1>1, <1>2, <2>1, FS_Union
<1>4. LimitValues # {} /\ LimitValues \in SUBSET Int
  BY Limits DEF LimitValues
<1>5. \E m \in LimitValues : \A v \in LimitValues : m >= v
  BY <1>3, <1>4, FiniteMax
<1>6. \E m \in LimitValues : \A v \in LimitValues : v <= m
  BY <1>5, Limits
<1>7. Most \in LimitValues /\ \A v \in LimitValues : v <= Most
  BY <1>6 DEF Most
<1> QED BY <1>7, Limits

(* The requests the quota of a tenant has admitted, whose devices are not  *)
(* counted yet: those about to insert, and open transactions.              *)
Admitted(t) == {r \in Requests : req[r].tenant = t /\ (req[r].pc = "insert" \/ Pending(r))}

Overshoot ==
  \A t \in Tenants :
    Cardinality(DevicesOf(t)) + Cardinality(Admitted(t)) + 1 <= Most + Cardinality(Requests)

LEMMA Finite ==
  ASSUME NEW t
  PROVE  /\ IsFiniteSet(DevicesOf(t)) /\ Cardinality(DevicesOf(t)) \in Nat
         /\ IsFiniteSet(Admitted(t)) /\ Cardinality(Admitted(t)) \in Nat
         /\ Cardinality(Requests) \in Nat /\ Cardinality(Admitted(t)) <= Cardinality(Requests)
<1>1. IsFiniteSet(Devices) /\ IsFiniteSet(Requests)
  BY DeviceAdminAssumption
<1>2. DevicesOf(t) \in SUBSET Devices /\ Admitted(t) \in SUBSET Requests
  BY DEF DevicesOf, Live, Admitted
<1> QED BY <1>1, <1>2, FS_Subset, FS_CardinalityType

LEMMA FiniteNext ==
  ASSUME NEW t
  PROVE  /\ IsFiniteSet(DevicesOf(t)') /\ Cardinality(DevicesOf(t)') \in Nat
         /\ IsFiniteSet(Admitted(t)') /\ Cardinality(Admitted(t)') \in Nat
         /\ Cardinality(Admitted(t)') <= Cardinality(Requests)
<1>1. IsFiniteSet(Devices) /\ IsFiniteSet(Requests)
  BY DeviceAdminAssumption
<1>2. DevicesOf(t)' \in SUBSET Devices /\ Admitted(t)' \in SUBSET Requests
  BY DEF DevicesOf, Live, Admitted
<1> QED BY <1>1, <1>2, FS_Subset, FS_CardinalityType

(* A tenant's sum does not grow where no device and no admission is new,   *)
(* nor where an admission becomes a device.                                *)
Filled(t) == Cardinality(DevicesOf(t)) + Cardinality(Admitted(t))

LEMMA RoomShrinks ==
  ASSUME NEW t \in Tenants, DevicesOf(t)' \subseteq DevicesOf(t), Admitted(t)' \subseteq Admitted(t)
  PROVE  Filled(t)' <= Filled(t)
<1>1. /\ Cardinality(DevicesOf(t)') <= Cardinality(DevicesOf(t))
      /\ Cardinality(Admitted(t)') <= Cardinality(Admitted(t))
  BY Finite, FS_Subset
<1>2. Filled(t)' = Cardinality(DevicesOf(t)') + Cardinality(Admitted(t)')
  BY DEF Filled
<1> QED BY <1>1, <1>2, Finite, FiniteNext DEF Filled

LEMMA RoomTaken ==
  ASSUME NEW t \in Tenants, NEW r \in Requests, NEW d,
         DevicesOf(t)' \subseteq DevicesOf(t) \cup {d},
         r \in Admitted(t), Admitted(t)' \subseteq Admitted(t) \ {r}
  PROVE  Filled(t)' <= Filled(t)
<1>1. /\ IsFiniteSet(DevicesOf(t) \cup {d})
      /\ Cardinality(DevicesOf(t) \cup {d}) <= Cardinality(DevicesOf(t)) + 1
  <2> DEFINE S == DevicesOf(t)
  <2>1. IsFiniteSet(S) /\ Cardinality(S) \in Nat
    BY Finite
  <2> HIDE DEF S
  <2>2. /\ IsFiniteSet(S \cup {d})
        /\ Cardinality(S \cup {d}) = IF d \in S THEN Cardinality(S) ELSE Cardinality(S) + 1
    BY <2>1, FS_AddElement
  <2>3. IsFiniteSet(S \cup {d}) /\ Cardinality(S \cup {d}) <= Cardinality(S) + 1
    BY <2>1, <2>2
  <2> QED BY <2>3 DEF S
<1>2. Cardinality(DevicesOf(t)') <= Cardinality(DevicesOf(t) \cup {d})
  BY <1>1, FS_Subset
<1>3. /\ IsFiniteSet(Admitted(t) \ {r})
      /\ Cardinality(Admitted(t) \ {r}) = Cardinality(Admitted(t)) - 1
  BY Finite, FS_RemoveElement
<1>4. Cardinality(Admitted(t)') <= Cardinality(Admitted(t) \ {r})
  BY <1>3, FS_Subset
<1>5. Cardinality(DevicesOf(t) \cup {d}) \in Nat /\ Cardinality(Admitted(t) \ {r}) \in Nat
  BY <1>1, <1>3, FS_CardinalityType
<1>6. Filled(t)' = Cardinality(DevicesOf(t)') + Cardinality(Admitted(t)')
  BY DEF Filled
<1> QED BY <1>1, <1>2, <1>3, <1>4, <1>5, <1>6, Finite, FiniteNext DEF Filled

(* The other requests stay where they are.                                 *)
LEMMA AdmittedMoves ==
  ASSUME Types, NEW r \in Requests, Moved(r), NEW t
  PROVE  /\ Admitted(t)' \ {r} = Admitted(t) \ {r}
         /\ r \notin Admitted(t)' => Admitted(t)' \subseteq Admitted(t) \ {r}
         /\ r \in Admitted(t) => Admitted(t)' \subseteq Admitted(t)
         /\ r \in Admitted(t)' <=>
              /\ req'[r].tenant = t
              /\ req'[r].pc = "insert" \/ (req'[r].pc \in {"token", "write", "commit"} /\ req'[r].created)
<1>1. \A x \in Requests \ {r} : x \in Admitted(t)' <=> x \in Admitted(t)
  BY DEF Admitted, Pending, Moved
<1>2. Admitted(t)' \subseteq Requests /\ Admitted(t) \subseteq Requests
  BY DEF Admitted
<1>3. r \in Admitted(t)' <=>
        /\ req'[r].tenant = t
        /\ req'[r].pc = "insert" \/ (req'[r].pc \in {"token", "write", "commit"} /\ req'[r].created)
  BY DEF Admitted, Pending
<1> QED BY <1>1, <1>2, <1>3

LEMMA RowStepsRoom ==
  ASSUME Types, Tables, NEW r \in Requests, RowStep(r), NEW t \in Tenants
  PROVE  Filled(t)' <= Filled(t)
<1>1. Moved(r) /\ req'[r].pc # "insert"
  BY RowStepsLeaveQuota
<1>2. ASSUME ~req'[r].created
      PROVE  Admitted(t)' \subseteq Admitted(t) \ {r}
  BY <1>1, <1>2, AdmittedMoves
<1>3. CASE UpdateDevice(r)
  <2>1. ~req'[r].created
    <3>1. CASE req'[r] = NoRequest
      BY <3>1 DEF NoRequest
    <3> QED BY <1>3, <3>1, Updates
  <2>2. DevicesOf(t)' \subseteq DevicesOf(t)
    <3>1. CASE UNCHANGED device
      BY <3>1 DEF DevicesOf, Live
    <3>2. CASE ~UNCHANGED device
      <4> DEFINE d == req[r].dev
                 new == [device[d] EXCEPT !.name = req[r].name, !.profile = req[r].prof]
      <4>1. d \in Live /\ device' = [device EXCEPT ![d] = new]
        BY <1>3, <3>2, Updates
      <4>2. device[d] \in DeviceRow
        BY <4>1 DEF Live, Types
      <4>3. new.tenant = device[d].tenant
        BY <4>2 DEF DeviceRow
      <4> HIDE DEF d, new
      <4>4. /\ device'[d] = new /\ \A e \in Devices \ {d} : device'[e] = device[e]
        BY <4>1 DEF Live, Types
      <4> QED BY <4>1, <4>3, <4>4 DEF DevicesOf, Live
    <3> QED BY <3>1, <3>2
  <2> QED BY <1>2, <2>1, <2>2, RoomShrinks
<1>4. CASE InsertDevice(r)
  <2>1. CASE ~req'[r].created /\ UNCHANGED device
    <3>1. DevicesOf(t)' \subseteq DevicesOf(t)
      BY <2>1 DEF DevicesOf, Live
    <3> QED BY <1>2, <2>1, <3>1, RoomShrinks
  <2>2. CASE ~(~req'[r].created /\ UNCHANGED device)
    <3> DEFINE new == [tenant |-> req[r].tenant, name |-> req[r].name, profile |-> req[r].prof]
               d == req'[r].dev
    <3>1. /\ ~req'[r].created /\ d \in Devices /\ device' = [device EXCEPT ![d] = new]
      BY <1>4, <2>2, Inserts
    <3>2. new.tenant = req[r].tenant
      OBVIOUS
    <3> HIDE DEF new, d
    <3>3. /\ device'[d] = new /\ \A e \in Devices \ {d} : device'[e] = device[e]
      BY <3>1 DEF Types
    <3>4. CASE t = req[r].tenant
      <4>1. r \in Admitted(t)
        BY <1>4, <3>4 DEF InsertDevice, Admitted
      <4>2. DevicesOf(t)' \subseteq DevicesOf(t) \cup {d}
        BY <3>3 DEF DevicesOf, Live
      <4> QED BY <1>2, <3>1, <4>1, <4>2, RoomTaken
    <3>5. CASE t # req[r].tenant
      <4>1. DevicesOf(t)' \subseteq DevicesOf(t)
        BY <3>2, <3>3, <3>5 DEF DevicesOf, Live
      <4> QED BY <1>2, <3>1, <4>1, RoomShrinks
    <3> QED BY <3>4, <3>5
  <2> QED BY <2>1, <2>2
<1>5. CASE DefaultCredential(r) \/ UpsertCredentials(r)
  <2>1. ~req'[r].created /\ UNCHANGED device
    BY <1>5, Defaults, Upserts DEF DefaultCredential, UpsertCredentials
  <2>2. DevicesOf(t)' \subseteq DevicesOf(t)
    BY <2>1 DEF DevicesOf, Live
  <2> QED BY <1>2, <2>1, <2>2, RoomShrinks
<1>6. CASE DeleteDevice(r)
  <2>1. ~req'[r].created
    BY <1>6, Deletion DEF NoRequest
  <2>2. DevicesOf(t)' \subseteq DevicesOf(t)
    BY <1>6 DEF DeleteDevice, DevicesOf, Live, Types
  <2> QED BY <1>2, <2>1, <2>2, RoomShrinks
<1>7. CASE DropProfile(r)
  <2>1. ~req'[r].created /\ UNCHANGED device
    BY <1>7, Drops DEF NoRequest, DropProfile
  <2>2. DevicesOf(t)' \subseteq DevicesOf(t)
    BY <2>1 DEF DevicesOf, Live
  <2> QED BY <1>2, <2>1, <2>2, RoomShrinks
<1>8. ASSUME NEW i \in ProfileSaves, HandleDeviceProfileSave(r, i)
      PROVE  Filled(t)' <= Filled(t)
  <2>1. ~req'[r].created
    BY <1>8, SavesProfile DEF NoRequest
  <2>2. DevicesOf(t)' \subseteq DevicesOf(t)
    BY <1>8 DEF HandleDeviceProfileSave, DevicesOf, Live
  <2> QED BY <1>2, <2>1, <2>2, RoomShrinks
<1>9. CASE ProvisionInsert(r)
  <2>1. DevicesOf(t)' \subseteq DevicesOf(t)
    BY <1>9 DEF ProvisionInsert, tables, DevicesOf, Live
  <2>2. Admitted(t)' \subseteq Admitted(t)
    <3>1. CASE ~req'[r].created
      BY <1>2, <3>1
    <3>2. CASE req'[r].created
      <4>1. req'[r].tenant = req[r].tenant
        BY <1>9, <3>2, InsertsInTransaction DEF NoRequest
      <4>2. r \in Admitted(t)' => r \in Admitted(t)
        BY <1>1, <1>9, <4>1, AdmittedMoves DEF ProvisionInsert, Admitted
      <4> QED BY <1>1, <4>2, AdmittedMoves
    <3> QED BY <3>1, <3>2
  <2> QED BY <2>1, <2>2, RoomShrinks
<1>10. CASE ReadToken(r) \/ WriteToken(r)
  <2>1. DevicesOf(t)' \subseteq DevicesOf(t)
    BY <1>10 DEF ReadToken, WriteToken, tables, DevicesOf, Live
  <2>2. Keeps(r) /\ req[r].pc \in {"token", "write"}
    BY <1>10, ReadsToken, WritesToken DEF ReadToken, WriteToken
  <2>3. r \in Admitted(t)' => r \in Admitted(t)
    BY <1>1, <2>2, AdmittedMoves DEF Admitted, Pending, Keeps
  <2>4. Admitted(t)' \subseteq Admitted(t)
    BY <1>1, <2>3, AdmittedMoves
  <2> QED BY <2>1, <2>4, RoomShrinks
<1>11. CASE CommitProvision(r)
  <2> DEFINE new == [tenant |-> req[r].tenant, name |-> req[r].name, profile |-> req[r].prof]
             d == req[r].dev
  <2>1. req'[r].pc = "done" /\ d \in Devices /\ req[r].pc = "commit"
    BY <1>11, Commits DEF CommitProvision
  <2>2. Admitted(t)' \subseteq Admitted(t) \ {r}
    BY <1>1, <2>1, AdmittedMoves
  <2>3. device' = IF req[r].created THEN [device EXCEPT ![d] = new] ELSE device
    BY <1>11 DEF CommitProvision
  <2>4. new.tenant = req[r].tenant
    OBVIOUS
  <2> HIDE DEF new, d
  <2>5. \A e \in Devices \ {d} : device'[e] = device[e]
    BY <2>1, <2>3 DEF Types
  <2>6. CASE req[r].created /\ t = req[r].tenant
    <3>1. r \in Admitted(t)
      BY <2>1, <2>6 DEF Admitted, Pending
    <3>2. DevicesOf(t)' \subseteq DevicesOf(t) \cup {d}
      BY <2>5 DEF DevicesOf, Live
    <3> QED BY <2>2, <3>1, <3>2, RoomTaken
  <2>7. CASE req[r].created /\ t # req[r].tenant
    <3>1. device'[d] = new
      BY <2>1, <2>3, <2>7 DEF Types
    <3>2. DevicesOf(t)' \subseteq DevicesOf(t)
      BY <2>4, <2>5, <2>7, <3>1 DEF DevicesOf, Live
    <3> QED BY <2>2, <3>2, RoomShrinks
  <2>8. CASE ~req[r].created
    <3>1. DevicesOf(t)' \subseteq DevicesOf(t)
      BY <2>3, <2>8 DEF DevicesOf, Live
    <3> QED BY <2>2, <3>1, RoomShrinks
  <2> QED BY <2>6, <2>7, <2>8
<1> QED BY <1>3, <1>4, <1>5, <1>6, <1>7, <1>8, <1>9, <1>10, <1>11, Zenon DEF RowStep

LEMMA QuietRoom ==
  ASSUME Types, NEW r \in Requests, Quiet(r), NEW t \in Tenants,
         req'[r].pc # "insert" \/ req'[r].tenant # t
  PROVE  Filled(t)' <= Filled(t)
<1>1. Admitted(t)' \subseteq Admitted(t) \ {r}
  BY AdmittedMoves DEF Quiet
<1>2. DevicesOf(t)' \subseteq DevicesOf(t)
  BY DEF Quiet, DevicesOf, Live
<1> QED BY <1>1, <1>2, RoomShrinks

LEMMA OvershootKept ==
  ASSUME Overshoot, \A t \in Tenants : Filled(t)' <= Filled(t)
  PROVE  Overshoot'
<1>1. ASSUME NEW t \in Tenants
      PROVE  (Cardinality(DevicesOf(t)) + Cardinality(Admitted(t)))' + 1 <= Most + Cardinality(Requests)
  <2>1. Filled(t)' = Cardinality(DevicesOf(t)') + Cardinality(Admitted(t)')
    BY DEF Filled
  <2>2. Filled(t)' <= Filled(t)
    OBVIOUS
  <2>3. Filled(t) + 1 <= Most + Cardinality(Requests)
    BY DEF Overshoot, Filled
  <2>4. Filled(t) \in Nat /\ Filled(t)' \in Nat /\ Most \in Nat /\ Cardinality(Requests) \in Nat
    BY <2>1, Finite, FiniteNext, MostIsMost DEF Filled
  <2> QED BY <2>1, <2>2, <2>3, <2>4
<1> QED BY <1>1 DEF Overshoot

LEMMA OvershootStep ==
  ASSUME Types, Tables, Overshoot, 0 \notin LimitValues, [DeviceNext]_deviceVars
  PROVE  Overshoot'
<1>1. CASE UNCHANGED deviceVars \/ Tick
  <2>1. UNCHANGED <<device, req>>
    BY <1>1 DEF deviceVars, tables, Tick
  <2>2. \A t \in Tenants : DevicesOf(t)' \subseteq DevicesOf(t) /\ Admitted(t)' \subseteq Admitted(t)
    BY <2>1 DEF DevicesOf, Live, Admitted, Pending
  <2> QED BY <2>2, RoomShrinks, OvershootKept
<1>2. ASSUME NEW r \in Requests, Calm(r) \/ LimitsFor(r) \/ ReadLimits(r) \/ StoreLimits(r)
                                 \/ SaveLimits(r) \/ InvalidateCache(r)
      PROVE  Overshoot'
  <2>1. Quiet(r) /\ req'[r].pc # "insert"
    BY <1>2, FindsLimits, ReadsLimits, StoresLimits, SavesLimits, Invalidates DEF Calm
  <2>2. \A t \in Tenants : Filled(t)' <= Filled(t)
    BY <2>1, QuietRoom
  <2> QED BY <2>2, OvershootKept
<1>3. ASSUME NEW r \in Requests, RowStep(r)
      PROVE  Overshoot'
  <2>1. \A t \in Tenants : Filled(t)' <= Filled(t)
    BY <1>3, RowStepsRoom
  <2> QED BY <2>1, OvershootKept
<1>4. ASSUME NEW r \in Requests, Enforce(r)
      PROVE  Overshoot'
  <2>1. Quiet(r)
    BY <1>4, Enforces
  <2>2. CASE req'[r].pc # "insert"
    <3>1. \A t \in Tenants : Filled(t)' <= Filled(t)
      BY <2>1, <2>2, QuietRoom
    <3> QED BY <3>1, OvershootKept
  <2>3. CASE req'[r].pc = "insert"
    <3>1. /\ WithinLimit(r) /\ req'[r].tenant = req[r].tenant /\ device' = device
          /\ req[r].tenant \in Tenants /\ req[r].lim \in LimitValues
      BY <1>4, <2>1, <2>3, Enforces, AtQuota, Here DEF Enforce, Create, Handles, Quiet
    <3>2. ASSUME NEW t \in Tenants, t # req[r].tenant
          PROVE  Filled(t)' + 1 <= Most + Cardinality(Requests)
      <4>1. Filled(t)' <= Filled(t)
        BY <2>1, <3>1, <3>2, QuietRoom
      <4>2. Filled(t)' = Cardinality(DevicesOf(t)') + Cardinality(Admitted(t)')
        BY DEF Filled
      <4>3. Filled(t) \in Nat /\ Filled(t)' \in Nat /\ Most \in Nat /\ Cardinality(Requests) \in Nat
        BY <4>2, Finite, FiniteNext, MostIsMost DEF Filled
      <4>4. Filled(t) + 1 <= Most + Cardinality(Requests)
        BY DEF Overshoot, Filled
      <4> QED BY <4>1, <4>3, <4>4
    <3>3. ASSUME NEW t \in Tenants, t = req[r].tenant
          PROVE  Filled(t)' + 1 <= Most + Cardinality(Requests)
      <4>1. req[r].lim \in Nat /\ req[r].lim # 0 /\ req[r].lim <= Most /\ Most \in Nat
        BY <3>1, Limits, MostIsMost
      <4>2. Cardinality(DevicesOf(t)) < req[r].lim
        BY <3>1, <3>3, <4>1 DEF WithinLimit
      <4>3. DevicesOf(t)' = DevicesOf(t)
        BY <3>1 DEF DevicesOf, Live
      <4>4. Filled(t)' = Cardinality(DevicesOf(t)') + Cardinality(Admitted(t)')
        BY DEF Filled
      <4> QED BY <4>1, <4>2, <4>3, <4>4, Finite, FiniteNext
    <3>4. ASSUME NEW t \in Tenants
          PROVE  Filled(t)' + 1 <= Most + Cardinality(Requests)
      BY <3>2, <3>3
    <3> QED BY <3>4 DEF Overshoot, Filled
  <2> QED BY <2>2, <2>3
<1> QED BY <1>1, <1>2, <1>3, <1>4, StepKinds, Zenon DEF QuotaStep

-----------------------------------------------------------------------------
(* The devices beside the other tables: what the steps of Administration   *)
(* do to them.                                                             *)

LEMMA DevicesStay ==
  ASSUME Types, [DeviceNext]_deviceVars, NEW d \in Devices, device[d] # None
  PROVE  device'[d] # None
<1>1. CASE UNCHANGED device
  BY <1>1
<1>2. ASSUME NEW e \in Devices, NEW v, v # None, device' = [device EXCEPT ![e] = v]
      PROVE  device'[d] # None
  BY <1>2 DEF Types
<1>3. None \notin DeviceRow /\ None # Gone
  BY DeviceAdminAssumption
<1>4. ASSUME NEW r \in Requests, RowStep(r)
      PROVE  device'[d] # None
  <2>1. CASE UpdateDevice(r)
    <3>1. CASE UNCHANGED device
      BY <3>1
    <3>2. CASE ~UNCHANGED device
      <4> DEFINE new == [device[req[r].dev] EXCEPT !.name = req[r].name, !.profile = req[r].prof]
      <4>1. /\ req[r].dev \in Live /\ device' = [device EXCEPT ![req[r].dev] = new]
            /\ req[r].op = "save"
        BY <2>1, <3>2, Updates, NoRequestIdle, Here DEF UpdateDevice, Path, Create, Request
      <4>2. device[req[r].dev] \in DeviceRow
        BY <4>1 DEF Live, Types
      <4>3. new \in DeviceRow
        <5>1. req[r].name \in Names /\ req[r].prof \in Profiles
          BY <2>1, <4>1, Here DEF UpdateDevice, Handles
        <5> QED BY <4>2, <5>1 DEF DeviceRow
      <4> HIDE DEF new
      <4> QED BY <1>2, <1>3, <4>1, <4>3 DEF Live
    <3> QED BY <3>1, <3>2
  <2>2. CASE InsertDevice(r)
    <3>1. CASE UNCHANGED device
      BY <3>1
    <3>2. CASE ~UNCHANGED device
      <4> DEFINE new == [tenant |-> req[r].tenant, name |-> req[r].name, profile |-> req[r].prof]
      <4>1. /\ req'[r].dev \in Devices /\ device' = [device EXCEPT ![req'[r].dev] = new]
            /\ req[r].tenant \in Tenants /\ req[r].name \in Names /\ req[r].prof \in Profiles
        BY <2>2, <3>2, Inserts, Zenon
      <4>2. new \in DeviceRow
        BY <4>1 DEF DeviceRow
      <4> HIDE DEF new
      <4> QED BY <4>2, <1>2, <1>3, <4>1
    <3> QED BY <3>1, <3>2
  <2>3. CASE DefaultCredential(r) \/ UpsertCredentials(r) \/ DropProfile(r)
             \/ (\E i \in ProfileSaves : HandleDeviceProfileSave(r, i))
             \/ ProvisionInsert(r) \/ ReadToken(r) \/ WriteToken(r)
    BY <1>1, <2>3 DEF DefaultCredential, UpsertCredentials, DropProfile, HandleDeviceProfileSave,
                      ProvisionInsert, ReadToken, WriteToken, tables
  <2>4. CASE DeleteDevice(r)
    BY <1>3, <2>4 DEF DeleteDevice, Types
  <2>5. CASE CommitProvision(r)
    <3> DEFINE new == [tenant |-> req[r].tenant, name |-> req[r].name, profile |-> req[r].prof]
    <3>1. device' = IF req[r].created THEN [device EXCEPT ![req[r].dev] = new] ELSE device
      BY <2>5 DEF CommitProvision
    <3>2. CASE req[r].created
      <4>1. new \in DeviceRow /\ req[r].dev \in Devices
        BY <2>5, <3>2, Commits, Here DEF CommitProvision, Handles, DeviceRow
      <4> HIDE DEF new
      <4> QED BY <1>2, <1>3, <3>1, <3>2, <4>1
    <3> HIDE DEF new
    <3> QED BY <3>1, <3>2
  <2> QED BY <1>4, <2>1, <2>2, <2>3, <2>4, <2>5, Zenon DEF RowStep
<1>5. ASSUME NEW r \in Requests, Calm(r) \/ QuotaStep(r)
      PROVE  device'[d] # None
  BY <1>1, <1>5, QuotaSteps DEF Calm, Quiet
<1>6. CASE UNCHANGED deviceVars \/ Tick
  BY <1>1, <1>6 DEF deviceVars, tables, Tick
<1> QED BY <1>4, <1>5, <1>6, StepKinds, Zenon

(* A step that asks nothing of a device handler, gives no device and no    *)
(* credential, drops devices and profiles, and may empty the cache.        *)
Aside ==
  /\ UNCHANGED <<cred, limit, edited, req, clock>>
  /\ profile' \in [Profiles -> ProfileRow \cup {None}]
  /\ device' \in [Devices -> DeviceRow \cup {None, Gone}]
  /\ \A d \in Devices : device'[d] = device[d] \/ (device[d] # None /\ device'[d] = Gone)
  /\ Profiled'
  /\ \A r \in Requests : Pending(r) => (profile[req[r].prof] # None => profile'[req[r].prof] # None)
  /\ rotated \subseteq rotated' /\ rotated' \subseteq Devices
  /\ cache' = cache \/ cache' = [t \in Tenants |-> None]

LEMMA AsideTypes ==
  ASSUME Types, Aside
  PROVE  Types'
<1>1. cache' \in [Tenants -> Entry \cup {None}]
  BY DEF Types, Aside
<1> QED BY <1>1 DEF Types, Aside, Valid, Path, Handles

LEMMA AsideTables ==
  ASSUME Types, Tables, Aside
  PROVE  Tables'
<1>1. None # Gone
  BY DeviceAdminAssumption
<1>2. \A d \in Devices : device[d] # None <=> device'[d] # None
  BY <1>1 DEF Aside
<1>3. Found'
  <2>1. \A r \in Requests : Inserted(req[r]) => req[r].dev \in Devices
    BY Here DEF Handles, Inserted
  <2> QED BY <1>2, <2>1 DEF Tables, Found, Inserted, Aside
<1>4. Creating'
  <2>1. ASSUME NEW r \in Requests, req[r].created
        PROVE  /\ req[r].pc # "done" => device'[req[r].dev] = None /\ profile'[req[r].prof] # None
               /\ req[r].pc = "done" => device'[req[r].dev] # None
    <3>1. req[r].pc \in {"token", "write", "commit", "done"} /\ req[r].dev \in Devices
      BY <2>1, Here DEF Handles
    <3>2. req[r].pc # "done" => Pending(r)
      BY <2>1, <3>1 DEF Pending
    <3>3. /\ req[r].pc # "done" => device[req[r].dev] = None /\ profile[req[r].prof] # None
          /\ req[r].pc = "done" => device[req[r].dev] # None
      BY <2>1 DEF Tables, Creating
    <3> QED BY <1>2, <3>1, <3>2, <3>3 DEF Aside
  <2>2. UNCHANGED req
    BY DEF Aside
  <2>3. \A r, x \in Requests : req[r].created /\ req[x].created /\ req[x].dev = req[r].dev => x = r
    BY DEF Tables, Creating
  <2> QED BY <2>1, <2>2, <2>3 DEF Creating
<1>5. OneIdEach'
  BY DEF Tables, OneIdEach, Aside
<1> QED BY <1>3, <1>4, <1>5 DEF Tables, Aside

LEMMA AsideTokens ==
  ASSUME Tokens, Aside
  PROVE  Tokens'
<1>1. UNCHANGED <<cred, req>> /\ rotated \subseteq rotated'
  BY DEF Aside
<1>2. \A r \in Requests, d \in Devices : Owner(r, d)' => Owner(r, d)
  BY <1>1 DEF Owner
<1>3. \A r \in Requests : Owner(r, req[r].dev)' => Owner(r, req[r].dev)
  BY <1>1 DEF Owner
<1> QED BY <1>1, <1>3 DEF Tokens, HasToken

LEMMA AsideEdits ==
  ASSUME Edits, Aside
  PROVE  Edits'
<1>1. CacheFresh'
  BY DEF Edits, CacheFresh, Aside
<1>2. HeldFresh'
  BY DEF Edits, HeldFresh, Aside
<1> QED BY <1>1, <1>2 DEF Edits

LEMMA AsideOvershoot ==
  ASSUME Overshoot, Aside
  PROVE  Overshoot'
<1>1. ASSUME NEW t \in Tenants
      PROVE  Filled(t)' <= Filled(t)
  <2>1. DevicesOf(t)' \subseteq DevicesOf(t)
    BY DEF DevicesOf, Live, Aside
  <2>2. Admitted(t)' \subseteq Admitted(t)
    BY DEF Admitted, Pending, Aside
  <2> QED BY <2>1, <2>2, RoomShrinks
<1> QED BY <1>1, OvershootKept

-----------------------------------------------------------------------------
(* The other tables, as data: R is what they hold before a write and S     *)
(* after it.                                                               *)

RowsOf == [Ids -> Row \cup {None, Gone}]
In(R, x) == R[x] \notin {None, Gone}

(* The foreign keys, between tables.                                       *)
KeyTo(k, j) ==
  \/ k = "asset" /\ j = "asset_profile"
  \/ k = "notification_rule" /\ j = "notification_template"
  \/ k = "alarm_comment" /\ j = "alarm"

KeysGood(R) ==
  \A x, y \in Ids : In(R, x) /\ y \in R[x].refs => In(R, y) /\ KeyTo(R[x].table, R[y].table)
NamesOnce(R) ==
  \A x, y \in Ids :
    (In(R, x) /\ In(R, y) /\ R[x].table \in Unique /\ R[x].table = R[y].table
     /\ R[x].tenant = R[y].tenant /\ R[x].name = R[y].name) => x = y
CommentsGood(R) ==
  \A x, y \in Ids :
    In(R, x) /\ R[x].table = "alarm_comment" /\ y \in R[x].refs => R[y].tenant = R[x].tenant
Linked(R) == KeysGood(R) /\ NamesOnce(R) /\ CommentsGood(R)

(* An id once used is not used again, and a row stays in its table and     *)
(* with its tenant.                                                        *)
Steady(R, S) ==
  \A x \in Ids :
    /\ R[x] # None => S[x] # None
    /\ R[x] # None /\ In(S, x) => In(R, x) /\ S[x].table = R[x].table /\ S[x].tenant = R[x].tenant

LEMMA RowFields ==
  ASSUME NEW R \in RowsOf, NEW x \in Ids, In(R, x)
  PROVE  /\ R[x] \in Row /\ R[x].table \in RowTables /\ R[x].tenant \in Tenants /\ R[x].name \in Names
         /\ R[x].refs \in SUBSET Ids /\ R[x].default \in BOOLEAN /\ R[x].owner \in SUBSET Ids
<1>1. R[x] \in Row
  BY DEF RowsOf, In
<1> QED BY <1>1 DEF Row

LEMMA RowsInside ==
  ASSUME NEW v \in Row
  PROVE  v \notin {None, Gone}
BY AdminInputAssumption

LEMMA Written ==
  ASSUME NEW R \in RowsOf, Linked(R), NEW x \in Ids, NEW v \in Row,
         R[x] = None \/ (In(R, x) /\ R[x].table = v.table /\ R[x].tenant = v.tenant),
         \A y \in v.refs : In(R, y) /\ KeyTo(v.table, R[y].table),
         v.table \in Unique =>
           \A y \in Ids : (In(R, y) /\ R[y].table = v.table /\ R[y].tenant = v.tenant /\ R[y].name = v.name)
                            => y = x,
         v.table = "alarm_comment" => \A y \in v.refs : R[y].tenant = v.tenant
  PROVE  /\ [R EXCEPT ![x] = v] \in RowsOf /\ Linked([R EXCEPT ![x] = v])
         /\ Steady(R, [R EXCEPT ![x] = v])
<1> DEFINE S == [R EXCEPT ![x] = v]
<1>1. S \in RowsOf /\ S[x] = v /\ \A y \in Ids : y # x => S[y] = R[y]
  BY DEF RowsOf
<1>2. v \notin {None, Gone} /\ v.refs \in SUBSET Ids
  BY RowsInside DEF Row
<1> HIDE DEF S
<1>3. In(S, x) /\ \A y \in Ids : y # x => (In(S, y) <=> In(R, y))
  BY <1>1, <1>2 DEF In
<1>4. \A y \in Ids : In(R, y) => In(S, y) /\ S[y].table = R[y].table /\ S[y].tenant = R[y].tenant
  BY <1>1, <1>3 DEF In
<1>5. KeysGood(S)
  <2>1. ASSUME NEW y \in Ids, NEW z \in Ids, In(S, y), z \in S[y].refs
        PROVE  In(S, z) /\ KeyTo(S[y].table, S[z].table)
    <3>1. CASE y = x
      <4>1. In(R, z) /\ KeyTo(v.table, R[z].table)
        BY <1>1, <2>1, <3>1
      <4> QED BY <1>1, <1>4, <3>1, <4>1
    <3>2. CASE y # x
      <4>1. In(R, y) /\ z \in R[y].refs /\ S[y].table = R[y].table
        BY <1>1, <1>3, <2>1, <3>2
      <4>2. In(R, z) /\ KeyTo(R[y].table, R[z].table)
        BY <4>1 DEF Linked, KeysGood
      <4> QED BY <1>4, <4>1, <4>2
    <3> QED BY <3>1, <3>2
  <2> QED BY <2>1 DEF KeysGood
<1>6. NamesOnce(S)
  <2>1. ASSUME NEW y \in Ids, NEW z \in Ids, In(S, y), In(S, z), S[y].table \in Unique,
               S[y].table = S[z].table, S[y].tenant = S[z].tenant, S[y].name = S[z].name
        PROVE  y = z
    <3>1. CASE y = x /\ z # x
      BY <1>1, <1>3, <2>1, <3>1
    <3>2. CASE y # x /\ z = x
      BY <1>1, <1>3, <2>1, <3>2
    <3>3. CASE y # x /\ z # x
      BY <1>1, <1>3, <2>1, <3>3 DEF Linked, NamesOnce
    <3> QED BY <3>1, <3>2, <3>3
  <2> QED BY <2>1 DEF NamesOnce
<1>7. CommentsGood(S)
  <2>1. ASSUME NEW y \in Ids, NEW z \in Ids, In(S, y), S[y].table = "alarm_comment", z \in S[y].refs
        PROVE  S[z].tenant = S[y].tenant
    <3>1. CASE y = x
      <4>1. In(R, z) /\ R[z].tenant = v.tenant
        BY <1>1, <2>1, <3>1
      <4> QED BY <1>1, <1>4, <3>1, <4>1
    <3>2. CASE y # x
      <4>1. In(R, y) /\ z \in R[y].refs /\ S[y] = R[y]
        BY <1>1, <1>3, <2>1, <3>2
      <4>2. In(R, z) /\ R[z].tenant = R[y].tenant
        BY <2>1, <4>1 DEF Linked, KeysGood, CommentsGood
      <4> QED BY <1>4, <4>1, <4>2
    <3> QED BY <3>1, <3>2
  <2> QED BY <2>1 DEF CommentsGood
<1>8. Steady(R, S)
  <2>1. ASSUME NEW y \in Ids
        PROVE  /\ R[y] # None => S[y] # None
               /\ R[y] # None /\ In(S, y) => In(R, y) /\ S[y].table = R[y].table /\ S[y].tenant = R[y].tenant
    BY <1>1, <1>2, <1>3, <1>4 DEF In
  <2> QED BY <2>1 DEF Steady
<1>9. Linked(S)
  BY <1>5, <1>6, <1>7 DEF Linked
<1> QED BY <1>1, <1>8, <1>9 DEF S

LEMMA Removed ==
  ASSUME NEW R \in RowsOf, Linked(R), NEW x \in Ids, \A y \in Ids : In(R, y) => x \notin R[y].refs
  PROVE  /\ [R EXCEPT ![x] = Gone] \in RowsOf /\ Linked([R EXCEPT ![x] = Gone])
         /\ Steady(R, [R EXCEPT ![x] = Gone])
<1> DEFINE S == [R EXCEPT ![x] = Gone]
<1>1. S \in RowsOf /\ S[x] = Gone /\ \A y \in Ids : y # x => S[y] = R[y]
  BY DEF RowsOf
<1>2. None # Gone
  BY DeviceAdminAssumption
<1> HIDE DEF S
<1>3. ~In(S, x) /\ \A y \in Ids : y # x => (In(S, y) <=> In(R, y))
  BY <1>1 DEF In
<1>4. KeysGood(S)
  BY <1>1, <1>3 DEF KeysGood, Linked
<1>5. NamesOnce(S)
  BY <1>1, <1>3 DEF NamesOnce, Linked
<1>6. CommentsGood(S)
  BY <1>1, <1>3 DEF CommentsGood, Linked
<1>7. Steady(R, S)
  BY <1>1, <1>2, <1>3 DEF Steady
<1> QED BY <1>1, <1>4, <1>5, <1>6, <1>7 DEF S, Linked

LEMMA SteadySame ==
  ASSUME NEW R \in RowsOf
  PROVE  Steady(R, R)
BY DEF Steady

(* A tenant's rows are dropped table by table, but for the tables where a  *)
(* row is referred to by a row of another tenant or by a rule.             *)
KeptOf(R, t) ==
  {x \in Ids : In(R, x) /\ R[x].tenant = t /\
     \E y \in Ids : In(R, y) /\ R[y].table = R[x].table /\ R[y].tenant = t /\
       \E z \in Ids : In(R, z) /\ y \in R[z].refs
                      /\ (R[z].tenant # R[y].tenant \/ R[z].table = "notification_rule")}
Without(R, t) == [x \in Ids |-> IF In(R, x) /\ R[x].tenant = t /\ x \notin KeptOf(R, t) THEN Gone ELSE R[x]]

LEMMA Swept ==
  ASSUME NEW R \in RowsOf, Linked(R), NEW t
  PROVE  Without(R, t) \in RowsOf /\ Linked(Without(R, t)) /\ Steady(R, Without(R, t))
<1> DEFINE K == KeptOf(R, t)
           S == Without(R, t)
<1>0. K = {x \in Ids : In(R, x) /\ R[x].tenant = t /\
             \E y \in Ids : In(R, y) /\ R[y].table = R[x].table /\ R[y].tenant = t /\
               \E z \in Ids : In(R, z) /\ y \in R[z].refs
                              /\ (R[z].tenant # R[y].tenant \/ R[z].table = "notification_rule")}
  BY DEF KeptOf
<1>1. S \in RowsOf /\ \A x \in Ids : S[x] = IF In(R, x) /\ R[x].tenant = t /\ x \notin K THEN Gone ELSE R[x]
  BY DEF RowsOf, Without
<1> HIDE DEF K, S
<1>2. None # Gone
  BY DeviceAdminAssumption
<1>3. \A x \in Ids : In(S, x) <=> In(R, x) /\ (R[x].tenant # t \/ x \in K)
  BY <1>1 DEF In
<1>4. \A x \in Ids : In(S, x) => S[x] = R[x]
  BY <1>1 DEF In
<1>5. ASSUME NEW x \in Ids, NEW y \in Ids, In(S, x), y \in R[x].refs
      PROVE  In(S, y)
  <2>1. In(R, x) /\ In(R, y) /\ KeyTo(R[x].table, R[y].table)
    BY <1>3, <1>5 DEF Linked, KeysGood
  <2>2. CASE R[y].tenant # t
    BY <1>3, <2>1, <2>2
  <2>3. CASE R[y].tenant = t /\ (R[x].tenant # t \/ R[x].table = "notification_rule")
    <3>1. y \in K
      BY <1>0, <1>5, <2>1, <2>3
    <3> QED BY <1>3, <2>1, <3>1
  <2>4. CASE R[x].tenant = t
    <3>1. x \in K
      BY <1>3, <1>5, <2>4
    <3>2. PICK u \in Ids, z \in Ids : In(R, u) /\ R[u].table = R[x].table /\ In(R, z) /\ u \in R[z].refs
      BY <1>0, <3>1
    <3>3. KeyTo(R[z].table, R[x].table)
      BY <3>2 DEF Linked, KeysGood
    <3> QED BY <2>1, <3>3 DEF KeyTo
  <2> QED BY <2>2, <2>3, <2>4
<1>6. KeysGood(S)
  <2>1. ASSUME NEW x \in Ids, NEW y \in Ids, In(S, x), y \in S[x].refs
        PROVE  In(S, y) /\ KeyTo(S[x].table, S[y].table)
    <3>1. In(R, x) /\ y \in R[x].refs /\ In(S, y)
      BY <1>3, <1>4, <1>5, <2>1
    <3>2. KeyTo(R[x].table, R[y].table)
      BY <3>1 DEF Linked, KeysGood
    <3> QED BY <1>4, <2>1, <3>1, <3>2
  <2> QED BY <2>1 DEF KeysGood
<1>7. NamesOnce(S)
  BY <1>3, <1>4 DEF NamesOnce, Linked
<1>8. CommentsGood(S)
  <2>1. ASSUME NEW x \in Ids, NEW y \in Ids, In(S, x), S[x].table = "alarm_comment", y \in S[x].refs
        PROVE  S[y].tenant = S[x].tenant
    <3>1. In(R, x) /\ y \in R[x].refs /\ In(S, y) /\ S[x] = R[x] /\ S[y] = R[y]
      BY <1>3, <1>4, <1>5, <2>1
    <3> QED BY <2>1, <3>1 DEF Linked, CommentsGood
  <2> QED BY <2>1 DEF CommentsGood
<1>9. Steady(R, S)
  BY <1>1, <1>2, <1>3, <1>4 DEF Steady
<1> QED BY <1>1, <1>6, <1>7, <1>8, <1>9 DEF Linked, S

-----------------------------------------------------------------------------
(* The requests on them, and what each knows where it is.                  *)

AtRow == {"assetProfile", "reference", "insertRow", "updateScoped", "checkRow", "updateRow", "deleteRow",
          "deleteScoped", "deleteComment", "assigned", "belongs", "assign"}
AtId == AtRow \ {"assetProfile", "reference", "insertRow"}
AtTenantProfile == {"saveTenant", "preflight", "dropTenantProfile", "clear", "setDefault", "invalidate"}
AtTenant == {"saveTenant", "tenantDefault", "dropDevices", "dropTenant"}

WorkPCs == AtRow \cup AtTenantProfile \cup AtTenant \cup {"idle", "isMine", "swap"}

Work ==
  [op : {"none", "saveRow", "dropRow", "assign", "share", "default", "tenant", "dropTenant", "tenantProfile"},
   pc : WorkPCs,
   table : RowTables \cup {"none"}, tenant : Tenants \cup {None}, id : Ids \cup {None},
   name : Names \cup {None}, refs : SUBSET Ids, default : BOOLEAN, owner : SUBSET Ids,
   prof : Profiles \cup TenantProfiles \cup {None}, target : Tenants \cup {None},
   seen : SUBSET (Ids \cup Devices \cup TenantProfiles)]

Fit(w) ==
  /\ w.pc \in AtRow => w.tenant \in Tenants /\ w.table \in RowTables
  /\ w.pc \in AtId \/ w.op = "dropRow" => w.id \in Ids
  /\ w.pc \in {"assetProfile", "insertRow", "updateScoped", "updateRow"} => w.op = "saveRow"
  /\ w.pc \in {"reference", "checkRow"} => w.op \in {"saveRow", "dropRow"}
  /\ w.op = "saveRow" => w.name \in Names
  /\ w.pc = "assetProfile" => w.table = "asset"
  /\ w.op = "dropRow" /\ w.pc \in {"reference", "deleteComment"} => w.table = "alarm_comment" /\ w.refs # {}
  /\ w.pc = "deleteComment" => w.op = "dropRow"
  /\ w.pc \in {"updateScoped", "deleteScoped"} => w.table # "alarm_comment"
  /\ w.pc \in {"belongs", "assign"} => w.seen \subseteq Ids
  /\ w.pc \in AtTenantProfile => w.prof \in TenantProfiles
  /\ w.pc \in AtTenant => w.target \in Tenants

(* What a check has found out stays true, for rows R and devices D: the    *)
(* row was there, and where it still is it is the request's; the alarm of  *)
(* a comment likewise; the devices a transaction deletes were inserted.    *)
Knows(w, R, D) ==
  /\ w.pc \in {"updateRow", "deleteRow", "belongs", "assign"} =>
       R[w.id] # None /\ (In(R, w.id) => R[w.id].table = w.table /\ R[w.id].tenant = w.tenant)
  /\ w.table = "alarm_comment" /\ w.pc \in {"insertRow", "checkRow", "updateRow", "deleteComment"} =>
       \A y \in w.refs : R[y] # None /\ (In(R, y) => R[y].tenant = w.tenant)
  /\ w.pc = "dropTenant" => \A d \in w.seen : d \in Devices /\ D[d] # None

TenantsOf == [Tenants -> TenantProfiles \cup {Gone}]
TenantProfilesOf == [TenantProfiles -> BOOLEAN \cup {None}]
HasProfile(T, P) == \A t \in Tenants : T[t] # Gone => P[T[t]] # None

Settled ==
  /\ row \in RowsOf /\ Linked(row)
  /\ tenant \in TenantsOf /\ tprofile \in TenantProfilesOf /\ HasProfile(tenant, tprofile)
  /\ work \in [Requests -> Work]
  /\ \A r \in Requests : Fit(work[r]) /\ Knows(work[r], row, device)

LEMMA ConstrainedIsLinked ==
  ASSUME row \in RowsOf
  PROVE  Constrained <=> Linked(row)
<1>1. \A x \in Ids : x \in Stored <=> In(row, x)
  BY DEF Stored, In
<1>2. \A k, y : RefersTo(k, y) <=> KeyTo(k, row[y].table)
  BY DEF RefersTo, KeyTo
<1>3. \A x \in Ids : In(row, x) => row[x].refs \in SUBSET Ids
  BY RowFields
<1>4. (\A x \in Stored : \A y \in row[x].refs : y \in Stored /\ RefersTo(row[x].table, y)) <=> KeysGood(row)
  BY <1>1, <1>2, <1>3 DEF KeysGood, Stored
<1>5. (\A x, y \in Stored :
         (row[x].table \in Unique /\ row[x].table = row[y].table /\ row[x].tenant = row[y].tenant
          /\ row[x].name = row[y].name) => x = y) <=> NamesOnce(row)
  BY <1>1 DEF NamesOnce, Stored
<1>6. (\A x \in Stored : row[x].table = "alarm_comment" =>
         \A y \in row[x].refs : row[y].tenant = row[x].tenant) <=> CommentsGood(row)
  BY <1>1, <1>3 DEF CommentsGood, Stored
<1> QED BY <1>4, <1>5, <1>6 DEF Constrained, Linked

LEMMA NoWorkFits ==
  ASSUME NEW R, NEW D
  PROVE  NoWork \in Work /\ Fit(NoWork) /\ Knows(NoWork, R, D) /\ NoWork.pc = "idle"
<1>1. NoWork \in Work /\ NoWork.pc = "idle" /\ NoWork.op = "none"
  BY DEF NoWork, Work, WorkPCs
<1> QED BY <1>1 DEF Fit, Knows, AtRow, AtId, AtTenantProfile, AtTenant

LEMMA KnowsStays ==
  ASSUME NEW w \in Work, Fit(w), NEW R \in RowsOf, NEW S \in RowsOf, NEW D, NEW F, Knows(w, R, D),
         Steady(R, S), \A d \in Devices : D[d] # None => F[d] # None
  PROVE  Knows(w, S, F)
<1>1. w.refs \in SUBSET Ids
  BY DEF Work
<1>2. w.pc \in {"updateRow", "deleteRow", "belongs", "assign"} => w.id \in Ids
  BY DEF Fit, AtId, AtRow
<1>3. ASSUME w.pc \in {"updateRow", "deleteRow", "belongs", "assign"}
      PROVE  S[w.id] # None /\ (In(S, w.id) => S[w.id].table = w.table /\ S[w.id].tenant = w.tenant)
  BY <1>2, <1>3 DEF Knows, Steady
<1>4. ASSUME w.table = "alarm_comment", w.pc \in {"insertRow", "checkRow", "updateRow", "deleteComment"},
             NEW y \in w.refs
      PROVE  S[y] # None /\ (In(S, y) => S[y].tenant = w.tenant)
  BY <1>1, <1>4 DEF Knows, Steady
<1>5. ASSUME w.pc = "dropTenant", NEW d \in w.seen
      PROVE  d \in Devices /\ F[d] # None
  BY <1>5 DEF Knows
<1> QED BY <1>3, <1>4, <1>5 DEF Knows

(* What a step of request r may leave behind.                              *)
Proper(r) ==
  /\ work' \in [Requests -> Work] /\ Fit(work'[r]) /\ Knows(work'[r], row', device')
  /\ \A x \in Requests \ {r} : work'[x] = work[x]
  /\ row' \in RowsOf /\ Linked(row') /\ Steady(row, row')
  /\ tenant' \in TenantsOf /\ tprofile' \in TenantProfilesOf /\ HasProfile(tenant', tprofile')
  /\ \A d \in Devices : device[d] # None => device'[d] # None

LEMMA ProperSettles ==
  ASSUME Settled, NEW r \in Requests, Proper(r)
  PROVE  Settled'
<1>1. \A x \in Requests : Fit(work'[x])
  BY DEF Settled, Proper
<1>2. ASSUME NEW x \in Requests
      PROVE  Knows(work'[x], row', device')
  <2>1. CASE x = r
    BY <2>1 DEF Proper
  <2>2. CASE x # r
    <3>1. work'[x] = work[x] /\ work[x] \in Work /\ Fit(work[x]) /\ Knows(work[x], row, device)
      BY <2>2 DEF Settled, Proper
    <3>2. Knows(work[x], row', device')
      BY <3>1, KnowsStays DEF Settled, Proper
    <3> QED BY <3>1, <3>2
  <2> QED BY <2>1, <2>2
<1>3. row' \in RowsOf /\ Linked(row') /\ work' \in [Requests -> Work]
  BY DEF Proper
<1>4. tenant' \in TenantsOf /\ tprofile' \in TenantProfilesOf /\ HasProfile(tenant', tprofile')
  BY DEF Proper
<1>5. \A x \in Requests : Fit(work'[x]) /\ Knows(work'[x], row', device')
  BY <1>1, <1>2
<1> QED BY <1>3, <1>4, <1>5 DEF Settled, Fit, Knows, Linked, KeysGood, NamesOnce, CommentsGood, In, HasProfile

(* All but the place where a request is.                                   *)
Same(w, v) ==
  /\ w.op = v.op /\ w.table = v.table /\ w.tenant = v.tenant /\ w.id = v.id /\ w.name = v.name
  /\ w.refs = v.refs /\ w.default = v.default /\ w.owner = v.owner /\ w.prof = v.prof
  /\ w.target = v.target /\ w.seen = v.seen

LEMMA WorkGoes ==
  ASSUME NEW v \in Work, NEW p \in WorkPCs
  PROVE  [v EXCEPT !.pc = p] \in Work /\ [v EXCEPT !.pc = p].pc = p /\ Same([v EXCEPT !.pc = p], v)
BY DEF Work, Same

(* A step that touches no table.                                           *)
Still == UNCHANGED <<tables, quota, req, clock, adminTables>>

LEMMA LooksOn ==
  ASSUME Settled, NEW r \in Requests, NEW w \in Work, Fit(w), Knows(w, row, device),
         work' = [work EXCEPT ![r] = w], Still
  PROVE  Proper(r) /\ Still
<1>1. work' \in [Requests -> Work] /\ work'[r] = w /\ \A x \in Requests \ {r} : work'[x] = work[x]
  BY DEF Settled
<1>2. UNCHANGED <<row, tenant, tprofile, device>>
  BY DEF Still, tables, adminTables
<1>3. Steady(row, row)
  BY SteadySame DEF Settled
<1> QED BY <1>1, <1>2, <1>3 DEF Proper, Settled

LEMMA LooksUpRow ==
  ASSUME Settled, NEW r \in Requests, NEW ok, NEW w, Look(r, ok, w),
         ok => w \in Work /\ Fit(w) /\ Knows(w, row, device)
  PROVE  Proper(r) /\ Still
<1>1. Still /\ work' = [work EXCEPT ![r] = IF ok THEN w ELSE NoWork]
  BY DEF Look, Still
<1>2. CASE ok
  BY <1>1, <1>2, LooksOn
<1>3. CASE ~ok
  BY <1>1, <1>3, LooksOn, NoWorkFits
<1> QED BY <1>2, <1>3

LEMMA Takes ==
  ASSUME Settled, NEW r \in Requests, NEW w \in Work, Fit(w), Knows(w, row, device), Take(r, w)
  PROVE  Proper(r) /\ Still
<1>1. Still /\ work' = [work EXCEPT ![r] = w]
  BY DEF Take, Still
<1> QED BY <1>1, LooksOn

(* Where the facts of a request begin: none at the places of this lemma.   *)
LEMMA KnowsNothing ==
  ASSUME NEW w, NEW R, NEW D,
         w.pc \notin {"updateRow", "deleteRow", "belongs", "assign", "insertRow", "checkRow", "deleteComment",
                      "dropTenant"}
  PROVE  Knows(w, R, D)
BY DEF Knows

LEMMA SavesRow ==
  ASSUME Settled, NEW r \in Requests, NEW i \in RowSaves, NEW k, SaveRow(r, i, k)
  PROVE  Proper(r) /\ Still
<1> DEFINE w == [NoWork EXCEPT !.op = "saveRow", !.pc = FirstStep(i), !.table = k, !.tenant = i.tenant,
                               !.id = i.id, !.name = i.name, !.refs = i.refs, !.default = i.default,
                               !.owner = i.owner]
<1>1. /\ k = i.table /\ k \in RowTables /\ i.tenant \in Tenants /\ i.id \in Ids \cup {None} /\ i.name \in Names
      /\ i.refs \in SUBSET Ids /\ i.default \in BOOLEAN /\ i.owner \in SUBSET Ids
  BY AdminInputAssumption DEF SaveRow
<1>2. FirstStep(i) \in {"assetProfile", "reference", "insertRow", "updateScoped", "checkRow"}
  BY DEF FirstStep
<1>3. w \in Work
  BY <1>1, <1>2 DEF NoWork, Work, WorkPCs, AtRow
<1>4. /\ w.op = "saveRow" /\ w.pc = FirstStep(i) /\ w.table = k /\ w.tenant = i.tenant /\ w.id = i.id
      /\ w.name = i.name /\ w.refs = i.refs
  BY DEF NoWork
<1>5. Take(r, w)
  BY DEF SaveRow
<1> HIDE DEF w
<1>6. Fit(w)
  BY <1>1, <1>2, <1>4 DEF Fit, AtRow, AtId, AtTenantProfile, AtTenant, FirstStep
<1>7. w.pc \in {"insertRow", "checkRow"} => w.table # "alarm_comment"
  BY <1>1, <1>4 DEF FirstStep
<1>8. Knows(w, row, device)
  BY <1>2, <1>4, <1>7 DEF Knows
<1> QED BY <1>3, <1>5, <1>6, <1>8, Takes

LEMMA DropsRow ==
  ASSUME Settled, NEW r \in Requests, NEW i \in RowDeletes, NEW k, DropRow(r, i, k)
  PROVE  Proper(r) /\ Still
<1> DEFINE pc == IF k \in {"ota_package", "resource"} THEN "deleteScoped"
                 ELSE IF k = "alarm_comment" THEN "reference" ELSE "checkRow"
           w == [NoWork EXCEPT !.op = "dropRow", !.table = k, !.tenant = i.tenant, !.id = i.id,
                               !.refs = i.refs, !.pc = pc]
<1>1. /\ k = i.table /\ k \in RowTables /\ i.tenant \in Tenants /\ i.id \in Ids /\ i.refs \in SUBSET Ids
      /\ k = "alarm_comment" => i.refs # {}
  BY AdminInputAssumption DEF DropRow
<1>2. /\ pc \in {"deleteScoped", "reference", "checkRow"} /\ (pc = "reference" => k = "alarm_comment")
      /\ pc \in {"deleteScoped", "checkRow"} => k # "alarm_comment"
  OBVIOUS
<1>3. Take(r, w)
  BY DEF DropRow
<1> HIDE DEF pc
<1>4. w \in Work
  BY <1>1, <1>2 DEF NoWork, Work, WorkPCs, AtRow
<1>5. /\ w.op = "dropRow" /\ w.pc = pc /\ w.table = k /\ w.tenant = i.tenant /\ w.id = i.id /\ w.refs = i.refs
  BY DEF NoWork
<1> HIDE DEF w
<1>6. Fit(w)
  BY <1>1, <1>2, <1>5 DEF Fit, AtRow, AtId, AtTenantProfile, AtTenant
<1>7. Knows(w, row, device)
  BY <1>2, <1>5 DEF Knows
<1> QED BY <1>3, <1>4, <1>6, <1>7, Takes

LEMMA Assigns ==
  ASSUME Settled, NEW r \in Requests,
         \/ \E i \in Assignments : HandleAssignToCustomer(r, i)
         \/ \E i \in Shares : HandleAssignDashboardToCustomer(r, i)
  PROVE  Proper(r) /\ Still
<1>1. ASSUME NEW w \in Work, w.op \in {"assign", "share"}, w.pc = "assigned", w.table \in RowTables,
             w.tenant \in Tenants, w.id \in Ids, Take(r, w)
      PROVE  Proper(r) /\ Still
  <2>1. Fit(w)
    BY <1>1 DEF Fit, AtRow, AtId, AtTenantProfile, AtTenant
  <2>2. Knows(w, row, device)
    BY <1>1, KnowsNothing
  <2> QED BY <1>1, <2>1, <2>2, Takes
<1>2. ASSUME NEW i \in Assignments, HandleAssignToCustomer(r, i)
      PROVE  Proper(r) /\ Still
  <2> DEFINE w == [NoWork EXCEPT !.op = "assign", !.pc = "assigned", !.table = i.table, !.tenant = i.tenant,
                                 !.id = i.id, !.owner = i.owner]
  <2>1. i.table \in RowTables /\ i.tenant \in Tenants /\ i.id \in Ids /\ i.owner \in SUBSET Ids
    BY AdminInputAssumption
  <2>2. w \in Work
    BY <2>1 DEF NoWork, Work, WorkPCs, AtRow
  <2>3. w.op = "assign" /\ w.pc = "assigned" /\ w.table = i.table /\ w.tenant = i.tenant /\ w.id = i.id
    BY DEF NoWork
  <2>4. Take(r, w)
    BY <1>2 DEF HandleAssignToCustomer
  <2> HIDE DEF w
  <2> QED BY <1>1, <2>1, <2>2, <2>3, <2>4
<1>3. ASSUME NEW i \in Shares, HandleAssignDashboardToCustomer(r, i)
      PROVE  Proper(r) /\ Still
  <2> DEFINE w == [NoWork EXCEPT !.op = "share", !.pc = "assigned", !.table = "dashboard", !.tenant = i.tenant,
                                 !.id = i.id, !.owner = {i.customer}, !.default = i.assign]
  <2>1. /\ i.tenant \in Tenants /\ i.id \in Ids /\ i.assign \in BOOLEAN /\ "dashboard" \in RowTables
        /\ {i.customer} \in SUBSET Ids
    BY AdminInputAssumption DEF RowTables
  <2>2. w \in Work
    BY <2>1 DEF NoWork, Work, WorkPCs, AtRow
  <2>3. w.op = "share" /\ w.pc = "assigned" /\ w.table = "dashboard" /\ w.tenant = i.tenant /\ w.id = i.id
    BY DEF NoWork
  <2>4. Take(r, w)
    BY <1>3 DEF HandleAssignDashboardToCustomer
  <2> HIDE DEF w
  <2> QED BY <1>1, <2>1, <2>2, <2>3, <2>4
<1> QED BY <1>2, <1>3, Zenon

LEMMA TenantArrives ==
  ASSUME Settled, NEW r \in Requests, TenantRequest(r)
  PROVE  Proper(r) /\ Still
<1>1. ASSUME NEW w \in Work, w.op \in {"default", "tenant", "dropTenant", "tenantProfile"},
             w.pc \in {"isMine", "tenantDefault", "saveTenant", "dropDevices", "preflight", "clear"},
             w.pc \in AtTenantProfile => w.prof \in TenantProfiles,
             w.pc \in AtTenant => w.target \in Tenants, Take(r, w)
      PROVE  Proper(r) /\ Still
  <2>1. Fit(w)
    BY <1>1 DEF Fit, AtRow, AtId
  <2>2. Knows(w, row, device)
    BY <1>1, KnowsNothing
  <2> QED BY <1>1, <2>1, <2>2, Takes
<1>2. ASSUME NEW t \in Tenants, NEW p \in Profiles, HandleSetDefaultProfile(r, t, p)
      PROVE  Proper(r) /\ Still
  <2> DEFINE w == [NoWork EXCEPT !.op = "default", !.pc = "isMine", !.tenant = t, !.prof = p]
  <2>1. w \in Work
    BY DEF NoWork, Work, WorkPCs
  <2>2. w.op = "default" /\ w.pc = "isMine"
    BY DEF NoWork
  <2>3. Take(r, w)
    BY <1>2 DEF HandleSetDefaultProfile
  <2> HIDE DEF w
  <2> QED BY <1>1, <2>1, <2>2, <2>3 DEF AtTenantProfile, AtTenant
<1>3. ASSUME NEW i \in TenantSaves, HandleTenantSave(r, i)
      PROVE  Proper(r) /\ Still
  <2> DEFINE pc == IF i.profile = None THEN "tenantDefault" ELSE "saveTenant"
             w == [NoWork EXCEPT !.op = "tenant", !.target = i.target, !.prof = i.profile, !.pc = pc]
  <2>1. i.target \in Tenants /\ i.profile \in TenantProfiles \cup {None}
    BY AdminInputAssumption
  <2>2. pc \in {"tenantDefault", "saveTenant"} /\ (pc = "saveTenant" => i.profile \in TenantProfiles)
    BY <2>1
  <2>3. Take(r, w)
    BY <1>3 DEF HandleTenantSave
  <2> HIDE DEF pc
  <2>4. w \in Work
    BY <2>1, <2>2 DEF NoWork, Work, WorkPCs, AtTenant
  <2>5. w.op = "tenant" /\ w.pc = pc /\ w.prof = i.profile /\ w.target = i.target
    BY DEF NoWork
  <2> HIDE DEF w
  <2> QED BY <1>1, <2>1, <2>2, <2>3, <2>4, <2>5 DEF AtTenantProfile
<1>4. ASSUME NEW t \in Tenants, HandleTenantDelete(r, t)
      PROVE  Proper(r) /\ Still
  <2> DEFINE w == [NoWork EXCEPT !.op = "dropTenant", !.target = t, !.pc = "dropDevices"]
  <2>1. w \in Work
    BY DEF NoWork, Work, WorkPCs, AtTenant
  <2>2. w.op = "dropTenant" /\ w.pc = "dropDevices" /\ w.target = t
    BY DEF NoWork
  <2>3. Take(r, w)
    BY <1>4 DEF HandleTenantDelete
  <2> HIDE DEF w
  <2> QED BY <1>1, <2>1, <2>2, <2>3 DEF AtTenantProfile
<1>5. ASSUME NEW p \in TenantProfiles, NEW pc \in {"preflight", "clear"},
             Take(r, [NoWork EXCEPT !.op = "tenantProfile", !.prof = p, !.pc = pc])
      PROVE  Proper(r) /\ Still
  <2> DEFINE w == [NoWork EXCEPT !.op = "tenantProfile", !.prof = p, !.pc = pc]
  <2>1. w \in Work
    BY DEF NoWork, Work, WorkPCs, AtTenantProfile
  <2>2. w.op = "tenantProfile" /\ w.pc = pc /\ w.prof = p
    BY DEF NoWork
  <2>3. Take(r, w)
    BY <1>5
  <2> HIDE DEF w
  <2> QED BY <1>1, <2>1, <2>2, <2>3 DEF AtTenant
<1>6. ASSUME NEW p \in TenantProfiles, TenantProfileDelete(r, p) \/ SetDefault(r, p)
      PROVE  Proper(r) /\ Still
  BY <1>5, <1>6 DEF TenantProfileDelete, SetDefault
<1> QED BY <1>2, <1>3, <1>4, <1>6, Zenon DEF TenantRequest

LEMMA RowArrives ==
  ASSUME Settled, NEW r \in Requests, RowRequest(r)
  PROVE  Proper(r) /\ Still
<1>1. ASSUME NEW i \in RowSaves, NEW k, SaveRow(r, i, k)
      PROVE  Proper(r) /\ Still
  BY <1>1, SavesRow
<1>2. ASSUME NEW i \in RowDeletes, NEW k, DropRow(r, i, k)
      PROVE  Proper(r) /\ Still
  BY <1>2, DropsRow
<1>3. ASSUME NEW i \in RowSaves,
             \/ CustomerSave(r, i) \/ AssetSave(r, i) \/ AssetSaveProfile(r, i) \/ DashboardSave(r, i)
             \/ EntityViewSave(r, i) \/ SaveWidgetType(r, i) \/ ResourceUpload(r, i) \/ ImageUpdate(r, i)
             \/ OtaSaveInfo(r, i) \/ SaveNotificationTemplate(r, i)
             \/ SaveNotificationRule(r, i) \/ AlarmCommentSave(r, i)
      PROVE  Proper(r) /\ Still
  BY <1>1, <1>3, Zenon
  DEF CustomerSave, AssetSave, AssetSaveProfile, DashboardSave, EntityViewSave, SaveWidgetType, ResourceUpload,
      ImageUpdate, OtaSaveInfo, SaveNotificationTemplate, SaveNotificationRule, AlarmCommentSave
<1>4. ASSUME NEW i \in RowDeletes,
             \/ CustomerDelete(r, i) \/ AssetDelete(r, i) \/ AssetDeleteProfile(r, i) \/ DashboardDelete(r, i)
             \/ EntityViewDelete(r, i) \/ ResourceDelete(r, i) \/ OtaDelete(r, i) \/ AlarmCommentDelete(r, i)
      PROVE  Proper(r) /\ Still
  BY <1>2, <1>4, Zenon
  DEF CustomerDelete, AssetDelete, AssetDeleteProfile, DashboardDelete, EntityViewDelete, ResourceDelete,
      OtaDelete, AlarmCommentDelete
<1> QED BY <1>3, <1>4, Assigns, Zenon DEF RowRequest

-----------------------------------------------------------------------------
(* The steps that only look.                                               *)

LEMMA AtWork ==
  ASSUME Settled, NEW r \in Requests
  PROVE  work[r] \in Work /\ Fit(work[r]) /\ Knows(work[r], row, device) /\ row \in RowsOf /\ Linked(row)
BY DEF Settled

LEMMA OwnsIn ==
  ASSUME NEW t, NEW k, NEW x
  PROVE  Owns(t, k, x) <=> x \in Ids /\ In(row, x) /\ row[x].table = k /\ row[x].tenant = t
BY DEF Owns, Stored, In

LEMMA ResolvesAssetProfile ==
  ASSUME Settled, NEW r \in Requests, ResolveAssetProfile(r)
  PROVE  Proper(r) /\ Still
<1>1. /\ work[r] \in Work /\ Fit(work[r]) /\ work[r].pc = "assetProfile"
      /\ work[r].tenant \in Tenants /\ work[r].table = "asset" /\ work[r].op = "saveRow"
      /\ work[r].name \in Names
  BY AtWork DEF ResolveAssetProfile, Fit, AtRow
<1>2. CASE Look(r, FALSE, NoWork)
  BY <1>2, LooksUpRow
<1>3. ASSUME NEW p \in Ids, NEW pc \in {"insertRow", "checkRow"}, pc = "checkRow" => work[r].id # None,
             Look(r, TRUE, [work[r] EXCEPT !.refs = {p}, !.pc = pc])
      PROVE  Proper(r) /\ Still
  <2> DEFINE w == [work[r] EXCEPT !.refs = {p}, !.pc = pc]
  <2>1. /\ w \in Work /\ w.pc = pc /\ w.op = work[r].op /\ w.table = work[r].table /\ w.id = work[r].id
        /\ w.tenant = work[r].tenant /\ w.name = work[r].name
    BY <1>1 DEF Work, WorkPCs, AtRow
  <2>2. w.id \in Ids \cup {None}
    BY <2>1 DEF Work
  <2> HIDE DEF w
  <2>3. Fit(w)
    BY <1>1, <1>3, <2>1, <2>2 DEF Fit, AtRow, AtId, AtTenantProfile, AtTenant, RowTables
  <2>4. Knows(w, row, device)
    BY <1>1, <1>3, <2>1 DEF Knows
  <2>5. Look(r, TRUE, w)
    BY <1>3 DEF w
  <2> QED BY <2>1, <2>3, <2>4, <2>5, LooksUpRow
<1>4. CASE ~Look(r, FALSE, NoWork)
  <2> DEFINE pc == IF work[r].id = None THEN "insertRow" ELSE "checkRow"
  <2>1. PICK p \in Stored : Look(r, TRUE, [work[r] EXCEPT !.refs = {p}, !.pc = pc])
    BY <1>4 DEF ResolveAssetProfile
  <2>2. p \in Ids /\ pc \in {"insertRow", "checkRow"} /\ (pc = "checkRow" => work[r].id # None)
    BY DEF Stored
  <2> HIDE DEF pc
  <2> QED BY <1>3, <2>1, <2>2
<1> QED BY <1>2, <1>4

(* A step of a request that goes on to another place, unchanged.           *)
LEMMA GoesToPlace ==
  ASSUME Settled, NEW r \in Requests, NEW ok, NEW pc \in WorkPCs,
         Look(r, ok, [work[r] EXCEPT !.pc = pc]),
         \A w \in Work : ok /\ w.pc = pc /\ Same(w, work[r]) => Fit(w) /\ Knows(w, row, device)
  PROVE  Proper(r) /\ Still
<1> DEFINE w == [work[r] EXCEPT !.pc = pc]
<1>1. w \in Work /\ w.pc = pc /\ Same(w, work[r])
  BY AtWork, WorkGoes
<1>2. Look(r, ok, w)
  OBVIOUS
<1> HIDE DEF w
<1>3. ok => Fit(w) /\ Knows(w, row, device)
  BY <1>1
<1> QED BY <1>1, <1>2, <1>3, LooksUpRow

LEMMA ChecksReference ==
  ASSUME Settled, NEW r \in Requests, CheckReference(r)
  PROVE  Proper(r) /\ Still
<1> DEFINE ok == RefsFit(work[r]) /\ \A x \in work[r].refs : row[x].tenant = work[r].tenant
           pc == IF work[r].op = "dropRow" THEN "deleteComment"
                 ELSE IF work[r].id = None THEN "insertRow" ELSE "checkRow"
<1>1. /\ work[r] \in Work /\ Fit(work[r]) /\ work[r].pc = "reference"
      /\ work[r].tenant \in Tenants /\ work[r].table \in RowTables /\ work[r].op \in {"saveRow", "dropRow"}
  BY AtWork DEF CheckReference, Fit, AtRow
<1>2. Look(r, ok, [work[r] EXCEPT !.pc = pc])
  BY DEF CheckReference
<1>3. ok => \A y \in work[r].refs : In(row, y) /\ row[y].tenant = work[r].tenant
  BY DEF RefsFit, Stored, In
<1>4. /\ pc \in {"deleteComment", "insertRow", "checkRow"}
      /\ pc = "deleteComment" <=> work[r].op = "dropRow"
      /\ pc = "checkRow" => work[r].id # None
  OBVIOUS
<1> HIDE DEF ok, pc
<1>5. ASSUME NEW w \in Work, ok, w.pc = pc, Same(w, work[r])
      PROVE  Fit(w) /\ Knows(w, row, device)
  <2>1. w.id \in Ids \cup {None}
    BY DEF Work
  <2>2. Fit(w)
    BY <1>1, <1>4, <1>5, <2>1 DEF Fit, Same, AtRow, AtId, AtTenantProfile, AtTenant
  <2>3. Knows(w, row, device)
    BY <1>3, <1>4, <1>5 DEF Knows, Same, In
  <2> QED BY <2>2, <2>3
<1>6. pc \in WorkPCs
  BY <1>4 DEF WorkPCs, AtRow
<1> QED BY <1>2, <1>5, <1>6, GoesToPlace

LEMMA ChecksRow ==
  ASSUME Settled, NEW r \in Requests, CheckRow(r)
  PROVE  Proper(r) /\ Still
<1> DEFINE x == work[r].id
           ok == /\ Mine(r)
                 /\ work[r].table = "alarm_comment" => row[x].refs = work[r].refs
                 /\ work[r].op = "dropRow" /\ work[r].table = "asset_profile" => ~row[x].default
           pc == IF work[r].op = "saveRow" THEN "updateRow" ELSE "deleteRow"
<1>1. /\ work[r] \in Work /\ Fit(work[r]) /\ Knows(work[r], row, device) /\ work[r].pc = "checkRow"
      /\ work[r].tenant \in Tenants /\ work[r].table \in RowTables /\ x \in Ids
  BY AtWork DEF CheckRow, Fit, AtRow, AtId
<1>2. Look(r, ok, [work[r] EXCEPT !.pc = pc])
  BY DEF CheckRow
<1>3. ok => In(row, x) /\ row[x].table = work[r].table /\ row[x].tenant = work[r].tenant
  BY OwnsIn DEF Mine
<1>4. pc \in {"updateRow", "deleteRow"} /\ (pc = "updateRow" => work[r].op = "saveRow")
  OBVIOUS
<1> HIDE DEF ok, pc
<1>5. ASSUME NEW w \in Work, ok, w.pc = pc, Same(w, work[r])
      PROVE  Fit(w) /\ Knows(w, row, device)
  <2>1. Fit(w)
    BY <1>1, <1>4, <1>5 DEF Fit, Same, AtRow, AtId, AtTenantProfile, AtTenant
  <2>2. Knows(w, row, device)
    BY <1>1, <1>3, <1>4, <1>5 DEF Knows, Same, In
  <2> QED BY <2>1, <2>2
<1>6. pc \in WorkPCs
  BY <1>4 DEF WorkPCs, AtRow
<1> QED BY <1>2, <1>5, <1>6, GoesToPlace

LEMMA ChecksAssigned ==
  ASSUME Settled, NEW r \in Requests, CheckAssigned(r)
  PROVE  Proper(r) /\ Still
<1> DEFINE s == IF work[r].id \in Stored THEN row[work[r].id].owner ELSE {}
           w == [work[r] EXCEPT !.pc = "belongs", !.seen = s]
<1>1. /\ work[r] \in Work /\ Fit(work[r]) /\ work[r].pc = "assigned"
      /\ work[r].tenant \in Tenants /\ work[r].table \in RowTables /\ work[r].id \in Ids
  BY AtWork DEF CheckAssigned, Fit, AtRow, AtId
<1>2. Look(r, Mine(r), w)
  BY DEF CheckAssigned
<1>3. s \in SUBSET Ids
  BY AtWork, RowFields DEF Stored, In
<1> HIDE DEF s
<1>4. w \in Work /\ w.pc = "belongs" /\ w.op = work[r].op /\ w.table = work[r].table /\ w.tenant = work[r].tenant
      /\ w.id = work[r].id /\ w.name = work[r].name /\ w.seen = s
  BY <1>1, <1>3 DEF Work, WorkPCs, AtRow
<1> HIDE DEF w
<1>5. Fit(w)
  BY <1>1, <1>3, <1>4 DEF Fit, AtRow, AtId, AtTenantProfile, AtTenant
<1>6. Mine(r) => Knows(w, row, device)
  BY <1>1, <1>4, OwnsIn DEF Knows, Mine, In
<1> QED BY <1>2, <1>4, <1>5, <1>6, LooksUpRow

LEMMA ChecksCustomers ==
  ASSUME Settled, NEW r \in Requests, CustomerBelongsToTenant(r)
  PROVE  Proper(r) /\ Still
<1> DEFINE ok == \A c \in work[r].owner : Owns(work[r].tenant, "customer", c)
<1>1. /\ work[r] \in Work /\ Fit(work[r]) /\ Knows(work[r], row, device) /\ work[r].pc = "belongs"
      /\ work[r].tenant \in Tenants /\ work[r].table \in RowTables /\ work[r].id \in Ids
  BY AtWork DEF CustomerBelongsToTenant, Fit, AtRow, AtId
<1>2. Look(r, ok, [work[r] EXCEPT !.pc = "assign"])
  BY DEF CustomerBelongsToTenant
<1> HIDE DEF ok
<1>3. ASSUME NEW w \in Work, ok, w.pc = "assign", Same(w, work[r])
      PROVE  Fit(w) /\ Knows(w, row, device)
  <2>1. Fit(w)
    BY <1>1, <1>3 DEF Fit, Same, AtRow, AtId, AtTenantProfile, AtTenant
  <2>2. Knows(w, row, device)
    BY <1>1, <1>3 DEF Knows, Same
  <2> QED BY <2>1, <2>2
<1>4. "assign" \in WorkPCs
  BY DEF WorkPCs, AtRow
<1> QED BY <1>2, <1>3, <1>4, GoesToPlace

LEMMA ChecksDefaults ==
  ASSUME Settled, NEW r \in Requests, CheckDefaultProfile(r) \/ Preflight(r)
  PROVE  Proper(r) /\ Still
<1>1. work[r] \in Work /\ Fit(work[r]) /\ (work[r].pc = "preflight" => work[r].prof \in TenantProfiles)
  BY AtWork DEF Fit, AtTenantProfile
<1>2. CASE CheckDefaultProfile(r)
  <2> DEFINE ok == profile[work[r].prof] # None /\ profile[work[r].prof].tenant = work[r].tenant
  <2>1. Look(r, ok, [work[r] EXCEPT !.pc = "swap"]) /\ work[r].pc = "isMine"
    BY <1>2 DEF CheckDefaultProfile
  <2> HIDE DEF ok
  <2>2. ASSUME NEW w \in Work, w.pc = "swap", Same(w, work[r])
        PROVE  Fit(w) /\ Knows(w, row, device)
    <3>1. Fit(w)
      BY <1>1, <2>1, <2>2 DEF Fit, Same, AtRow, AtId, AtTenantProfile, AtTenant
    <3> QED BY <2>2, <3>1, KnowsNothing
  <2>3. "swap" \in WorkPCs
    BY DEF WorkPCs
  <2> QED BY <2>1, <2>2, <2>3, GoesToPlace
<1>3. CASE Preflight(r)
  <2> DEFINE ok == tprofile[work[r].prof] = FALSE /\ work[r].prof \notin ReferencedProfiles
  <2>1. Look(r, ok, [work[r] EXCEPT !.pc = "dropTenantProfile"]) /\ work[r].pc = "preflight"
    BY <1>3 DEF Preflight
  <2> HIDE DEF ok
  <2>2. ASSUME NEW w \in Work, w.pc = "dropTenantProfile", Same(w, work[r])
        PROVE  Fit(w) /\ Knows(w, row, device)
    <3>1. Fit(w)
      BY <1>1, <2>1, <2>2 DEF Fit, Same, AtRow, AtId, AtTenantProfile, AtTenant
    <3> QED BY <2>2, <3>1, KnowsNothing
  <2>3. "dropTenantProfile" \in WorkPCs
    BY DEF WorkPCs, AtTenantProfile
  <2> QED BY <2>1, <2>2, <2>3, GoesToPlace
<1> QED BY <1>2, <1>3

LEMMA ResolvesTenantProfile ==
  ASSUME Settled, NEW r \in Requests, ResolveTenantProfile(r)
  PROVE  Proper(r) /\ Still
<1>1. work[r] \in Work /\ Fit(work[r]) /\ work[r].pc = "tenantDefault" /\ work[r].target \in Tenants
  BY AtWork DEF ResolveTenantProfile, Fit, AtTenant
<1>2. CASE Look(r, FALSE, NoWork)
  BY <1>2, LooksUpRow
<1>3. CASE ~Look(r, FALSE, NoWork)
  <2>1. PICK p \in DefaultTenantProfiles : Look(r, TRUE, [work[r] EXCEPT !.prof = p, !.pc = "saveTenant"])
    BY <1>3 DEF ResolveTenantProfile
  <2> DEFINE w == [work[r] EXCEPT !.prof = p, !.pc = "saveTenant"]
  <2>2. p \in TenantProfiles
    BY DEF DefaultTenantProfiles
  <2>3. /\ w \in Work /\ w.pc = "saveTenant" /\ w.prof = p /\ w.target = work[r].target /\ w.op = work[r].op
        /\ w.id = work[r].id /\ w.name = work[r].name
    BY <1>1, <2>2 DEF Work, WorkPCs, AtTenant
  <2>4. Look(r, TRUE, w)
    BY <2>1
  <2> HIDE DEF w
  <2>5. Fit(w)
    BY <1>1, <2>2, <2>3 DEF Fit, AtRow, AtId, AtTenantProfile, AtTenant
  <2>6. Knows(w, row, device)
    BY <2>3, KnowsNothing
  <2> QED BY <2>3, <2>4, <2>5, <2>6, LooksUpRow
<1> QED BY <1>2, <1>3

LEMMA Snapshots ==
  ASSUME Settled, NEW r \in Requests, DropTenantDevices(r) \/ ClearDefaults(r)
  PROVE  Proper(r) /\ Still
<1>1. work[r] \in Work /\ Fit(work[r])
  BY AtWork
<1>2. CASE DropTenantDevices(r)
  <2> DEFINE s == DevicesOf(work[r].target)
             w == [work[r] EXCEPT !.seen = s, !.pc = "dropTenant"]
  <2>1. Look(r, TRUE, w) /\ work[r].pc = "dropDevices" /\ work[r].target \in Tenants
    BY <1>1, <1>2 DEF DropTenantDevices, Fit, AtTenant
  <2>2. s \in SUBSET Devices /\ \A d \in s : device[d] # None
    BY DEF DevicesOf, Live
  <2> HIDE DEF s
  <2>3. /\ w \in Work /\ w.pc = "dropTenant" /\ w.seen = s /\ w.target = work[r].target /\ w.op = work[r].op
        /\ w.id = work[r].id /\ w.name = work[r].name
    BY <1>1, <2>2 DEF Work, WorkPCs, AtTenant
  <2> HIDE DEF w
  <2>4. Fit(w)
    BY <1>1, <2>1, <2>3 DEF Fit, AtRow, AtId, AtTenantProfile, AtTenant
  <2>5. Knows(w, row, device)
    BY <2>2, <2>3 DEF Knows
  <2> QED BY <2>1, <2>3, <2>4, <2>5, LooksUpRow
<1>3. CASE ClearDefaults(r)
  <2> DEFINE s == DefaultTenantProfiles
             w == [work[r] EXCEPT !.seen = s, !.pc = "setDefault"]
  <2>1. Look(r, TRUE, w) /\ work[r].pc = "clear" /\ work[r].prof \in TenantProfiles
    BY <1>1, <1>3 DEF ClearDefaults, Fit, AtTenantProfile
  <2>2. s \in SUBSET TenantProfiles
    BY DEF DefaultTenantProfiles
  <2> HIDE DEF s
  <2>3. /\ w \in Work /\ w.pc = "setDefault" /\ w.prof = work[r].prof /\ w.op = work[r].op
        /\ w.id = work[r].id /\ w.name = work[r].name
    BY <1>1, <2>2 DEF Work, WorkPCs, AtTenantProfile
  <2> HIDE DEF w
  <2>4. Fit(w)
    BY <1>1, <2>1, <2>3 DEF Fit, AtRow, AtId, AtTenantProfile, AtTenant
  <2>5. Knows(w, row, device)
    BY <2>3, KnowsNothing
  <2> QED BY <2>1, <2>3, <2>4, <2>5, LooksUpRow
<1> QED BY <1>2, <1>3

-----------------------------------------------------------------------------
(* The steps that write rows.                                              *)

(* A stored row is changed by a request of its tenant, or with its tenant, *)
(* and stays its tenant's.                                                 *)
Apart(r) ==
  \A x \in Ids : In(row, x) /\ row'[x] # row[x] =>
    /\ row[x].tenant \in {work[r].tenant, work[r].target} /\ work'[r] # work[r]
    /\ row'[x] # Gone => row'[x].tenant = row[x].tenant

StillDevices == UNCHANGED <<tables, quota, req, clock>>

LEMMA WritesRow ==
  ASSUME Settled, NEW r \in Requests, NEW S \in RowsOf, Linked(S), Steady(row, S), WriteTable(r, S),
         work[r].pc # "idle",
         \A x \in Ids : In(row, x) /\ S[x] # row[x] => row[x].tenant = work[r].tenant
  PROVE  Proper(r) /\ Apart(r) /\ StillDevices
<1>1. /\ work' \in [Requests -> Work] /\ work'[r] = NoWork /\ \A x \in Requests \ {r} : work'[x] = work[x]
      /\ row' = S /\ UNCHANGED <<tenant, tprofile, device>>
  BY NoWorkFits DEF Settled, WriteTable, tables
<1>2. NoWork # work[r]
  BY NoWorkFits
<1>3. Fit(work'[r]) /\ Knows(work'[r], row', device')
  BY <1>1, NoWorkFits
<1>4. Proper(r)
  BY <1>1, <1>3 DEF Proper, Settled
<1>5. Apart(r)
  <2>1. ASSUME NEW x \in Ids, In(row, x), row'[x] # row[x]
        PROVE  /\ row[x].tenant \in {work[r].tenant, work[r].target} /\ work'[r] # work[r]
               /\ row'[x] # Gone => row'[x].tenant = row[x].tenant
    <3>1. row[x] # None
      BY <2>1 DEF In
    <3>2. S[x] # None
      BY <3>1 DEF Steady
    <3>3. S[x] # Gone => S[x].tenant = row[x].tenant
      BY <3>1, <3>2 DEF Steady, In
    <3> QED BY <1>1, <1>2, <2>1, <3>3
  <2> QED BY <2>1 DEF Apart
<1> QED BY <1>4, <1>5 DEF WriteTable, StillDevices

LEMMA WritesNothing ==
  ASSUME Settled, NEW r \in Requests, WriteTable(r, row), work[r].pc # "idle"
  PROVE  Proper(r) /\ Apart(r) /\ StillDevices
<1>1. row \in RowsOf /\ Linked(row) /\ Steady(row, row)
  BY SteadySame DEF Settled
<1> QED BY <1>1, WritesRow

LEMMA FitsIn ==
  ASSUME NEW w \in Work, NEW x, FitsTable(w, x)
  PROVE  /\ \A y \in w.refs : In(row, y) /\ KeyTo(w.table, row[y].table)
         /\ w.table \in Unique =>
              \A y \in Ids : (In(row, y) /\ row[y].table = w.table /\ row[y].tenant = w.tenant
                              /\ row[y].name = w.name) => y = x
<1>1. \A y \in w.refs : In(row, y) /\ KeyTo(w.table, row[y].table)
  BY DEF FitsTable, RefsFit, Stored, In, RefersTo, KeyTo
<1>2. ASSUME w.table \in Unique, NEW y \in Ids, In(row, y), row[y].table = w.table,
             row[y].tenant = w.tenant, row[y].name = w.name
      PROVE  y = x
  <2>1. y \in RowsNamed(w.table, w.tenant, w.name)
    BY <1>2 DEF RowsNamed, Stored, In
  <2> QED BY <1>2, <2>1 DEF FitsTable
<1> QED BY <1>1, <1>2

LEMMA RowOfFields ==
  ASSUME NEW w \in Work, w.tenant \in Tenants, w.table \in RowTables, w.name \in Names
  PROVE  /\ RowOf(w) \in Row /\ RowOf(w).table = w.table /\ RowOf(w).tenant = w.tenant
         /\ RowOf(w).name = w.name /\ RowOf(w).refs = w.refs
BY DEF RowOf, Row, Work

(* One row is written, with what the request brings.                       *)
LEMMA PutsRow ==
  ASSUME Settled, NEW r \in Requests, NEW x \in Ids, work[r].op = "saveRow",
         work[r].pc \in {"updateRow", "updateScoped", "insertRow"},
         row[x] = None \/ (In(row, x) /\ row[x].table = work[r].table /\ row[x].tenant = work[r].tenant),
         FitsTable(work[r], x), WriteTable(r, [row EXCEPT ![x] = RowOf(work[r])])
  PROVE  Proper(r) /\ Apart(r) /\ StillDevices
<1> DEFINE v == RowOf(work[r])
           S == [row EXCEPT ![x] = v]
<1>1. /\ work[r] \in Work /\ Fit(work[r]) /\ Knows(work[r], row, device) /\ row \in RowsOf /\ Linked(row)
      /\ work[r].tenant \in Tenants /\ work[r].table \in RowTables /\ work[r].name \in Names
  BY AtWork DEF Fit, AtRow
<1>2. /\ v \in Row /\ v.table = work[r].table /\ v.tenant = work[r].tenant /\ v.name = work[r].name
      /\ v.refs = work[r].refs
  BY <1>1, RowOfFields
<1> HIDE DEF v
<1>3. /\ \A y \in v.refs : In(row, y) /\ KeyTo(v.table, row[y].table)
      /\ v.table \in Unique =>
           \A y \in Ids : (In(row, y) /\ row[y].table = v.table /\ row[y].tenant = v.tenant
                           /\ row[y].name = v.name) => y = x
  BY <1>1, <1>2, FitsIn
<1>4. v.table = "alarm_comment" => \A y \in v.refs : row[y].tenant = v.tenant
  <2>1. work[r].table = "alarm_comment" => work[r].pc \in {"insertRow", "updateRow"}
    BY <1>1 DEF Fit
  <2>2. work[r].table = "alarm_comment" =>
          \A y \in work[r].refs : row[y] # None /\ (In(row, y) => row[y].tenant = work[r].tenant)
    BY <1>1, <2>1 DEF Knows
  <2> QED BY <1>2, <1>3, <2>2
<1>5. S \in RowsOf /\ Linked(S) /\ Steady(row, S)
  BY <1>1, <1>2, <1>3, <1>4, Written
<1>6. \A y \in Ids : In(row, y) /\ S[y] # row[y] => row[y].tenant = work[r].tenant
  BY <1>1 DEF RowsOf, In
<1>7. WriteTable(r, S)
  BY DEF v
<1> HIDE DEF S
<1> QED BY <1>5, <1>6, <1>7, WritesRow

LEMMA UpdatesRow ==
  ASSUME Settled, NEW r \in Requests, UpdateRow(r)
  PROVE  Proper(r) /\ Apart(r) /\ StillDevices
<1> DEFINE x == work[r].id
<1>1. /\ work[r] \in Work /\ Fit(work[r]) /\ Knows(work[r], row, device) /\ work[r].pc = "updateRow"
      /\ work[r].op = "saveRow" /\ x \in Ids /\ row[x] # None
      /\ In(row, x) => row[x].table = work[r].table /\ row[x].tenant = work[r].tenant
  BY AtWork DEF UpdateRow, Fit, AtRow, AtId, Knows
<1>2. CASE ~(x \in Stored /\ FitsTable(work[r], x))
  BY <1>1, <1>2, WritesNothing DEF UpdateRow
<1>3. CASE x \in Stored /\ FitsTable(work[r], x)
  <2>1. In(row, x)
    BY <1>3 DEF Stored, In
  <2>2. [RowOf(work[r]) EXCEPT !.tenant = row[x].tenant] = RowOf(work[r])
    BY <1>1, <2>1 DEF RowOf
  <2>3. WriteTable(r, [row EXCEPT ![x] = RowOf(work[r])])
    BY <1>3, <2>2 DEF UpdateRow
  <2> QED BY <1>1, <1>3, <2>1, <2>3, PutsRow
<1> QED BY <1>2, <1>3

LEMMA UpdatesScoped ==
  ASSUME Settled, NEW r \in Requests, UpdateScoped(r)
  PROVE  Proper(r) /\ Apart(r) /\ StillDevices
<1> DEFINE x == work[r].id
<1>1. /\ work[r] \in Work /\ Fit(work[r]) /\ work[r].pc = "updateScoped" /\ work[r].op = "saveRow" /\ x \in Ids
  BY AtWork DEF UpdateScoped, Fit, AtRow, AtId
<1>2. CASE ~(Mine(r) /\ FitsTable(work[r], x))
  BY <1>1, <1>2, WritesNothing DEF UpdateScoped
<1>3. CASE Mine(r) /\ FitsTable(work[r], x)
  <2>1. In(row, x) /\ row[x].table = work[r].table /\ row[x].tenant = work[r].tenant
    BY <1>3, OwnsIn DEF Mine
  <2>2. WriteTable(r, [row EXCEPT ![x] = RowOf(work[r])])
    BY <1>3 DEF UpdateScoped
  <2> QED BY <1>1, <1>3, <2>1, <2>2, PutsRow
<1> QED BY <1>2, <1>3

(* A conflict by name updates the row that has it: there is one.           *)
LEMMA InsertsRow ==
  ASSUME Settled, NEW r \in Requests, InsertRow(r)
  PROVE  Proper(r) /\ Apart(r) /\ StillDevices
<1> DEFINE w == work[r]
           same == RowsNamed(w.table, w.tenant, w.name)
           x == CHOOSE y \in Ids : row[y] = None
<1>1. /\ w \in Work /\ Fit(w) /\ w.pc = "insertRow" /\ w.op = "saveRow" /\ row \in RowsOf /\ Linked(row)
      /\ w.tenant \in Tenants /\ w.table \in RowTables /\ w.name \in Names
  BY AtWork DEF InsertRow, Fit, AtRow
<1>2. x \in Ids /\ row[x] = None
  BY DEF InsertRow
<1> HIDE DEF x
<1>3. CASE WriteTable(r, row)
  BY <1>1, <1>3, WritesNothing
<1>4. CASE WriteTable(r, [row EXCEPT ![x] = RowOf(w)]) /\ FitsTable(w, x)
  BY <1>1, <1>2, <1>4, PutsRow
<1>5. CASE /\ w.table \in Upserted /\ same # {} /\ RefsFit(w)
           /\ WriteTable(r, [y \in Ids |-> IF y \in same THEN RowOf(w) ELSE row[y]])
  <2>1. PICK z \in same : TRUE
    BY <1>5
  <2>2. z \in Ids /\ In(row, z) /\ row[z].table = w.table /\ row[z].tenant = w.tenant /\ row[z].name = w.name
    BY <2>1 DEF RowsNamed, Stored, In
  <2>3. w.table \in Unique
    BY <1>5 DEF Upserted, Unique
  <2>4. same = {z}
    <3>1. \A y \in same : y = z
      BY <1>1, <2>2, <2>3 DEF Linked, NamesOnce, RowsNamed, Stored, In
    <3> QED BY <2>1, <3>1
  <2>5. FitsTable(w, z)
    BY <1>5, <2>4 DEF FitsTable
  <2>6. [y \in Ids |-> IF y \in same THEN RowOf(w) ELSE row[y]] = [row EXCEPT ![z] = RowOf(w)]
    <3> HIDE DEF same
    <3> QED BY <1>1, <2>2, <2>4 DEF RowsOf
  <2>7. WriteTable(r, [row EXCEPT ![z] = RowOf(w)])
    BY <1>5, <2>6
  <2> QED BY <1>1, <2>2, <2>5, <2>7, PutsRow
<1>6. \/ WriteTable(r, row)
      \/ w.table \in Upserted /\ same # {} /\ RefsFit(w)
         /\ WriteTable(r, [y \in Ids |-> IF y \in same THEN RowOf(w) ELSE row[y]])
      \/ WriteTable(r, IF FitsTable(w, x) THEN [row EXCEPT ![x] = RowOf(w)] ELSE row)
  BY Zenon DEF InsertRow, x
<1>7. CASE WriteTable(r, IF FitsTable(w, x) THEN [row EXCEPT ![x] = RowOf(w)] ELSE row)
  <2>1. CASE FitsTable(w, x)
    BY <1>4, <1>7, <2>1
  <2>2. CASE ~FitsTable(w, x)
    BY <1>3, <1>7, <2>2
  <2> QED BY <2>1, <2>2
<1> QED BY <1>3, <1>5, <1>6, <1>7

(* A row to which no other refers is deleted.                              *)
LEMMA TakesRow ==
  ASSUME Settled, NEW r \in Requests, NEW x \in Ids, work[r].pc # "idle",
         \A y \in Ids : In(row, y) => x \notin row[y].refs,
         In(row, x) => row[x].tenant = work[r].tenant,
         WriteTable(r, [row EXCEPT ![x] = Gone])
  PROVE  Proper(r) /\ Apart(r) /\ StillDevices
<1> DEFINE S == [row EXCEPT ![x] = Gone]
<1>1. S \in RowsOf /\ Linked(S) /\ Steady(row, S)
  BY Removed DEF Settled
<1>2. \A y \in Ids : In(row, y) /\ S[y] # row[y] => row[y].tenant = work[r].tenant
  BY DEF Settled, RowsOf, In
<1>3. WriteTable(r, S)
  OBVIOUS
<1> HIDE DEF S
<1> QED BY <1>1, <1>2, <1>3, WritesRow

LEMMA ReferringIn ==
  ASSUME NEW x \in Ids, Referring(x) = {}
  PROVE  \A y \in Ids : In(row, y) => x \notin row[y].refs
BY DEF Referring, Stored, In

LEMMA DeletesRow ==
  ASSUME Settled, NEW r \in Requests, DeleteRow(r) \/ DeleteScoped(r)
  PROVE  Proper(r) /\ Apart(r) /\ StillDevices
<1> DEFINE x == work[r].id
<1>1. /\ Fit(work[r]) /\ Knows(work[r], row, device) /\ work[r].pc \in {"deleteRow", "deleteScoped"}
      /\ x \in Ids
  BY AtWork DEF DeleteRow, DeleteScoped, Fit, AtRow, AtId
<1>2. CASE WriteTable(r, row)
  BY <1>1, <1>2, WritesNothing
<1>3. CASE Referring(x) = {} /\ (In(row, x) => row[x].tenant = work[r].tenant)
           /\ WriteTable(r, [row EXCEPT ![x] = Gone])
  BY <1>1, <1>3, ReferringIn, TakesRow
<1>4. CASE DeleteRow(r)
  <2>1. In(row, x) => row[x].tenant = work[r].tenant
    BY <1>1, <1>4 DEF DeleteRow, Knows
  <2> QED BY <1>2, <1>3, <1>4, <2>1 DEF DeleteRow
<1>5. CASE DeleteScoped(r)
  <2>1. Mine(r) => row[x].tenant = work[r].tenant
    BY OwnsIn DEF Mine
  <2> QED BY <1>2, <1>3, <1>5, <2>1 DEF DeleteScoped
<1> QED BY <1>4, <1>5

(* Nothing refers to a comment, and its alarm is of its tenant.            *)
LEMMA DeletesComment ==
  ASSUME Settled, NEW r \in Requests, DeleteComment(r)
  PROVE  Proper(r) /\ Apart(r) /\ StillDevices
<1> DEFINE x == work[r].id
           ok == x \in Stored /\ row[x].table = "alarm_comment" /\ row[x].refs = work[r].refs
<1>1. /\ work[r] \in Work /\ Fit(work[r]) /\ Knows(work[r], row, device) /\ work[r].pc = "deleteComment"
      /\ x \in Ids /\ work[r].table = "alarm_comment" /\ work[r].refs # {} /\ Linked(row) /\ row \in RowsOf
  BY AtWork DEF DeleteComment, Fit, AtRow, AtId
<1>2. CASE ~ok
  BY <1>1, <1>2, WritesNothing DEF DeleteComment
<1>3. CASE ok
  <2>1. In(row, x) /\ row[x].table = "alarm_comment" /\ row[x].refs = work[r].refs
    BY <1>3 DEF Stored, In
  <2>2. PICK y \in work[r].refs : TRUE
    BY <1>1
  <2>3. y \in Ids /\ In(row, y) /\ row[y].tenant = row[x].tenant
    BY <1>1, <2>1, <2>2 DEF Work, Linked, KeysGood, CommentsGood
  <2>4. row[y].tenant = work[r].tenant
    BY <1>1, <2>2, <2>3 DEF Knows
  <2>5. \A z \in Ids : In(row, z) => x \notin row[z].refs
    BY <1>1, <2>1 DEF Linked, KeysGood, KeyTo
  <2>6. WriteTable(r, [row EXCEPT ![x] = Gone])
    BY <1>3 DEF DeleteComment
  <2> QED BY <1>1, <2>3, <2>4, <2>5, <2>6, TakesRow
<1> QED BY <1>2, <1>3

LEMMA WritesAssignment ==
  ASSUME Settled, NEW r \in Requests, WriteAssignment(r)
  PROVE  Proper(r) /\ Apart(r) /\ StillDevices
<1> DEFINE x == work[r].id
<1>1. /\ work[r] \in Work /\ Fit(work[r]) /\ Knows(work[r], row, device) /\ work[r].pc = "assign"
      /\ x \in Ids /\ Linked(row) /\ row \in RowsOf
  BY AtWork DEF WriteAssignment, Fit, AtRow, AtId
<1>2. CASE x \notin Stored
  BY <1>1, <1>2, WritesNothing DEF WriteAssignment
<1>3. CASE x \in Stored
  <2> DEFINE o == NewOwners(r)
             v == [row[x] EXCEPT !.owner = o]
             S == [row EXCEPT ![x] = v]
  <2>1. In(row, x)
    BY <1>3 DEF Stored, In
  <2>2. o \in SUBSET Ids
    <3>1. CASE work[r].op = "assign"
      BY <1>1, <3>1 DEF NewOwners, Work
    <3>2. CASE work[r].op # "assign"
      <4>1. work[r].seen \in SUBSET Ids /\ work[r].owner \in SUBSET Ids
        BY <1>1 DEF Fit, Work
      <4> QED BY <3>2, <4>1 DEF NewOwners
    <3> QED BY <3>1, <3>2
  <2>3. WriteTable(r, S)
    BY <1>3 DEF WriteAssignment
  <2> HIDE DEF o
  <2>4. /\ v \in Row /\ v.table = row[x].table /\ v.tenant = row[x].tenant /\ v.name = row[x].name
        /\ v.refs = row[x].refs
    BY <1>1, <2>1, <2>2, RowFields DEF Row
  <2> HIDE DEF v
  <2>5. \A y \in v.refs : In(row, y) /\ KeyTo(v.table, row[y].table)
    BY <1>1, <2>1, <2>4, RowFields DEF Linked, KeysGood
  <2>6. v.table \in Unique =>
          \A y \in Ids : (In(row, y) /\ row[y].table = v.table /\ row[y].tenant = v.tenant
                          /\ row[y].name = v.name) => y = x
    BY <1>1, <2>1, <2>4 DEF Linked, NamesOnce
  <2>7. v.table = "alarm_comment" => \A y \in v.refs : row[y].tenant = v.tenant
    BY <1>1, <2>1, <2>4, RowFields DEF Linked, CommentsGood
  <2>8. S \in RowsOf /\ Linked(S) /\ Steady(row, S)
    BY <1>1, <2>1, <2>4, <2>5, <2>6, <2>7, Written
  <2>9. \A y \in Ids : In(row, y) /\ S[y] # row[y] => row[y].tenant = work[r].tenant
    BY <1>1, <2>1 DEF RowsOf, In, Knows
  <2> HIDE DEF S
  <2> QED BY <1>1, <2>3, <2>8, <2>9, WritesRow
<1> QED BY <1>2, <1>3

-----------------------------------------------------------------------------
(* The steps of tenants and their profiles.                                *)

LEMMA WritesTenants ==
  ASSUME Settled, NEW r \in Requests, NEW T \in TenantsOf, NEW P \in TenantProfilesOf, HasProfile(T, P),
         tenant' = T, tprofile' = P, row' = row, StillDevices,
         NEW w \in Work, Fit(w), Knows(w, row, device), work' = [work EXCEPT ![r] = w]
  PROVE  Proper(r) /\ Apart(r)
<1>1. /\ work' \in [Requests -> Work] /\ work'[r] = w /\ \A x \in Requests \ {r} : work'[x] = work[x]
      /\ UNCHANGED <<row, device>>
  BY DEF Settled, StillDevices, tables
<1>2. Steady(row, row) /\ row \in RowsOf /\ Linked(row)
  BY SteadySame DEF Settled
<1>3. Proper(r)
  BY <1>1, <1>2 DEF Proper
<1>4. Apart(r)
  BY <1>1 DEF Apart
<1> QED BY <1>3, <1>4

LEMMA SavesTenant ==
  ASSUME Settled, NEW r \in Requests, SaveTenant(r)
  PROVE  Proper(r) /\ Apart(r) /\ StillDevices
<1> DEFINE p == work[r].prof
           t == work[r].target
           T == IF tprofile[p] # None /\ tenant[t] # Gone THEN [tenant EXCEPT ![t] = p] ELSE tenant
<1>1. p \in TenantProfiles /\ t \in Tenants
  BY AtWork DEF SaveTenant, Fit, AtTenantProfile, AtTenant
<1>2. T \in TenantsOf /\ HasProfile(T, tprofile)
  BY <1>1 DEF Settled, TenantsOf, HasProfile
<1>3. /\ tenant' = T /\ tprofile' = tprofile /\ row' = row /\ StillDevices
      /\ work' = [work EXCEPT ![r] = NoWork]
  BY DEF SaveTenant, WriteTenants, StillDevices
<1> HIDE DEF T
<1>4. tprofile \in TenantProfilesOf
  BY DEF Settled
<1> QED BY <1>2, <1>3, <1>4, NoWorkFits, WritesTenants

LEMMA DropsTenantProfile ==
  ASSUME Settled, NEW r \in Requests, DropTenantProfile(r)
  PROVE  Proper(r) /\ Apart(r) /\ StillDevices
<1> DEFINE p == work[r].prof
           P == IF Unreferenced(p) THEN [tprofile EXCEPT ![p] = None] ELSE tprofile
<1>1. tprofile \in TenantProfilesOf /\ HasProfile(tenant, tprofile) /\ tenant \in TenantsOf
  BY DEF Settled
<1>2. P \in TenantProfilesOf
  BY <1>1 DEF TenantProfilesOf
<1>3. HasProfile(tenant, P)
  BY <1>1 DEF HasProfile, Unreferenced, ReferencedProfiles, TenantProfilesOf, TenantsOf
<1>4. /\ tenant' = tenant /\ tprofile' = P /\ row' = row /\ StillDevices
      /\ work' = [work EXCEPT ![r] = NoWork]
  BY DEF DropTenantProfile, WriteTenants, StillDevices
<1> HIDE DEF P
<1> QED BY <1>1, <1>2, <1>3, <1>4, NoWorkFits, WritesTenants

LEMMA CommitsDefault ==
  ASSUME Settled, NEW r \in Requests, CommitDefault(r)
  PROVE  Proper(r) /\ Apart(r) /\ StillDevices
<1> DEFINE p == work[r].prof
           s == work[r].seen
           Q == [q \in TenantProfiles |-> IF tprofile[q] = None THEN None
                                          ELSE q = p \/ (tprofile[q] /\ q \notin s)]
           P == IF tprofile[p] = None THEN tprofile ELSE Q
           w == [work[r] EXCEPT !.pc = "invalidate"]
<1>1. /\ tprofile \in TenantProfilesOf /\ HasProfile(tenant, tprofile) /\ tenant \in TenantsOf
      /\ work[r] \in Work /\ Fit(work[r]) /\ work[r].pc = "setDefault" /\ p \in TenantProfiles
  BY AtWork DEF Settled, CommitDefault, Fit, AtTenantProfile
<1>2. /\ tenant' = tenant /\ tprofile' = P /\ row' = row /\ StillDevices
      /\ work' = [work EXCEPT ![r] = w]
  BY <1>1 DEF CommitDefault, StillDevices, Settled
<1>3. w \in Work /\ w.pc = "invalidate" /\ Same(w, work[r])
  BY <1>1, WorkGoes DEF WorkPCs, AtTenantProfile
<1> HIDE DEF p, s, w
<1>4. None \notin BOOLEAN
  BY AdminInputAssumption
<1>5. ASSUME NEW q \in TenantProfiles
      PROVE  Q[q] \in BOOLEAN \cup {None} /\ (Q[q] = None <=> tprofile[q] = None)
  <2>1. (q = p \/ (tprofile[q] /\ q \notin s)) \in BOOLEAN
    OBVIOUS
  <2> QED BY <1>4, <2>1
<1>6. Q \in TenantProfilesOf
  BY <1>5 DEF TenantProfilesOf
<1>7. HasProfile(tenant, Q)
  BY <1>1, <1>5 DEF HasProfile, TenantsOf
<1> HIDE DEF Q
<1>8. P \in TenantProfilesOf /\ HasProfile(tenant, P)
  BY <1>1, <1>6, <1>7
<1> HIDE DEF P
<1>9. Fit(w)
  BY <1>1, <1>3 DEF p, Fit, Same, AtRow, AtId, AtTenantProfile, AtTenant
<1>10. Knows(w, row, device)
  BY <1>3, KnowsNothing
<1> QED BY <1>1, <1>2, <1>3, <1>8, <1>9, <1>10, WritesTenants

LEMMA StillAside ==
  ASSUME Types, Tables, StillDevices
  PROVE  Aside
<1>1. UNCHANGED <<profile, device, cred, rotated, limit, edited, cache, req, clock>>
  BY DEF StillDevices, tables, quota
<1>2. Profiled'
  BY <1>1 DEF Tables, Profiled, Live
<1> QED BY <1>1, <1>2 DEF Aside, Types

LEMMA SwapsDefault ==
  ASSUME Types, Tables, Settled, NEW r \in Requests, SwapDefaultProfile(r)
  PROVE  Proper(r) /\ Apart(r) /\ Aside
<1> DEFINE t == work[r].tenant
           p == work[r].prof
           S == [q \in Profiles |-> IF profile[q] = None \/ profile[q].tenant # t THEN profile[q]
                                    ELSE [profile[q] EXCEPT !.default = (q = p)]]
<1>1. /\ profile' = S /\ work' = [work EXCEPT ![r] = NoWork] /\ UNCHANGED <<row, tenant, tprofile>>
      /\ UNCHANGED <<device, cred, rotated, limit, edited, cache, req, clock>>
  BY DEF SwapDefaultProfile, adminTables, quota
<1> HIDE DEF t, p
<1>2. ASSUME NEW q \in Profiles
      PROVE  S[q] \in ProfileRow \cup {None} /\ (profile[q] # None => S[q] # None)
  <2>1. profile[q] \in ProfileRow \cup {None} /\ None \notin ProfileRow
    BY DeviceAdminAssumption DEF Types
  <2>2. CASE profile[q] = None \/ profile[q].tenant # t
    BY <2>1, <2>2
  <2>3. CASE ~(profile[q] = None \/ profile[q].tenant # t)
    <3>1. [profile[q] EXCEPT !.default = (q = p)] \in ProfileRow
      <4> DEFINE b == (q = p)
      <4>1. b \in BOOLEAN
        OBVIOUS
      <4> HIDE DEF b
      <4>2. [profile[q] EXCEPT !.default = b] \in ProfileRow
        BY <2>1, <2>3, <4>1 DEF ProfileRow
      <4> QED BY <4>2 DEF b
    <3> QED BY <2>1, <2>3, <3>1
  <2> QED BY <2>2, <2>3
<1>3. S \in [Profiles -> ProfileRow \cup {None}]
  BY <1>2
<1> HIDE DEF S
<1>4. Aside
  <2>1. Profiled'
    <3>1. \A d \in Live : device[d].profile \in Profiles
      BY DEF Live, Types, DeviceRow
    <3> QED BY <1>1, <1>2, <3>1 DEF Tables, Profiled, Live
  <2>2. \A x \in Requests : Pending(x) => (profile[req[x].prof] # None => profile'[req[x].prof] # None)
    <3>1. \A x \in Requests : Pending(x) => req[x].prof \in Profiles
      BY Here DEF Pending, Handles
    <3> QED BY <1>1, <1>2, <3>1
  <2> QED BY <1>1, <1>3, <2>1, <2>2 DEF Aside, Types
<1>5. Proper(r) /\ Apart(r)
  <2>1. /\ work' \in [Requests -> Work] /\ work'[r] = NoWork /\ \A x \in Requests \ {r} : work'[x] = work[x]
    BY <1>1, NoWorkFits DEF Settled
  <2>2. Fit(work'[r]) /\ Knows(work'[r], row', device')
    BY <2>1, NoWorkFits
  <2>3. Steady(row, row)
    BY SteadySame DEF Settled
  <2> QED BY <1>1, <2>1, <2>2, <2>3 DEF Proper, Apart, Settled
<1> QED BY <1>4, <1>5

LEMMA EmptiesCache ==
  ASSUME Types, Tables, Settled, NEW r \in Requests, InvalidateDefaults(r)
  PROVE  Proper(r) /\ Apart(r) /\ Aside
<1>1. /\ work' = [work EXCEPT ![r] = NoWork] /\ UNCHANGED <<row, tenant, tprofile>>
      /\ cache' = [t \in Tenants |-> None]
      /\ UNCHANGED <<profile, device, cred, rotated, limit, edited, req, clock>>
  BY DEF InvalidateDefaults, adminTables, tables
<1>2. Aside
  <2>1. Profiled'
    BY <1>1 DEF Tables, Profiled, Live
  <2> QED BY <1>1, <2>1 DEF Aside, Types
<1>3. /\ work' \in [Requests -> Work] /\ work'[r] = NoWork /\ \A x \in Requests \ {r} : work'[x] = work[x]
  BY <1>1, NoWorkFits DEF Settled
<1>4. Fit(work'[r]) /\ Knows(work'[r], row', device')
  BY <1>3, NoWorkFits
<1>5. Steady(row, row)
  BY SteadySame DEF Settled
<1> QED BY <1>1, <1>2, <1>3, <1>4, <1>5 DEF Proper, Apart, Settled

(* A tenant goes: its devices that were committed when the transaction     *)
(* began, its profiles unless a device that came later uses one, and its   *)
(* rows but for the tables another tenant or a rule refers to.             *)
LEMMA DropsTenant ==
  ASSUME Types, Tables, Settled, NEW r \in Requests, DropTenant(r)
  PROVE  Proper(r) /\ Apart(r) /\ Aside
<1> DEFINE t == work[r].target
           s == work[r].seen
<1>1. /\ work[r] \in Work /\ t \in Tenants /\ s \subseteq Devices /\ (\A d \in s : device[d] # None)
      /\ work[r].pc = "dropTenant" /\ row \in RowsOf /\ Linked(row) /\ None # Gone
  BY AtWork, DeviceAdminAssumption DEF DropTenant, Fit, AtTenant, Knows
<1>2. /\ UNCHANGED <<cred, limit, edited, cache, req, clock, tprofile>> /\ rotated' = rotated \cup s
      /\ work' = [work EXCEPT ![r] = NoWork]
      /\ \A x \in Requests : Pending(x) => profile[req[x].prof].tenant # t
  BY DEF DropTenant, quota
<1>3. /\ work' \in [Requests -> Work] /\ work'[r] = NoWork /\ (\A x \in Requests \ {r} : work'[x] = work[x])
      /\ Fit(work'[r]) /\ Knows(work'[r], row', device') /\ work'[r] # work[r]
  BY <1>1, <1>2, NoWorkFits DEF Settled
<1>4. tprofile \in TenantProfilesOf /\ tenant \in TenantsOf /\ HasProfile(tenant, tprofile)
  BY DEF Settled
<1>5. CASE tenant[t] \in {None, Gone}
  <2>1. UNCHANGED <<device, profile, row, tenant>>
    BY <1>5 DEF DropTenant
  <2>2. Steady(row, row)
    BY <1>1, SteadySame
  <2>3. Proper(r) /\ Apart(r)
    BY <1>1, <1>2, <1>3, <1>4, <2>1, <2>2 DEF Proper, Apart
  <2>4. Profiled'
    BY <2>1 DEF Tables, Profiled, Live
  <2>5. Aside
    BY <1>1, <1>2, <2>1, <2>4 DEF Aside, Types
  <2> QED BY <2>3, <2>5
<1>6. CASE tenant[t] \notin {None, Gone}
  <2> DEFINE kept == \E d \in Live \ s : profile[device[d].profile] # None
                                         /\ profile[device[d].profile].tenant = t
             S == Without(row, t)
  <2>1. /\ device' = [d \in Devices |-> IF d \in s THEN Gone ELSE device[d]]
        /\ profile' = [p \in Profiles |-> IF profile[p] # None /\ profile[p].tenant = t /\ ~kept THEN None
                                          ELSE profile[p]]
        /\ row' = [x \in Ids |-> IF x \in Stored /\ row[x].tenant = t /\ x \notin Kept(t) THEN Gone ELSE row[x]]
        /\ tenant' = [tenant EXCEPT ![t] = Gone]
    BY <1>6 DEF DropTenant
  <2>2. row' = S
    <3>1. Kept(t) = KeptOf(row, t)
      BY DEF Kept, KeptOf, Refused, Referring, Stored, In
    <3>2. \A x \in Ids : x \in Stored <=> In(row, x)
      BY DEF Stored, In
    <3> QED BY <2>1, <3>1, <3>2 DEF Without
  <2>3. \A x \in Ids : In(row, x) /\ S[x] # row[x] => row[x].tenant = t /\ S[x] = Gone
    BY DEF Without
  <2> HIDE DEF kept
  <2>4. S \in RowsOf /\ Linked(S) /\ Steady(row, S)
    BY <1>1, Swept
  <2>5. tenant' \in TenantsOf /\ HasProfile(tenant', tprofile)
    <3> DEFINE T == [tenant EXCEPT ![t] = Gone]
    <3>1. T \in TenantsOf
      BY <1>4 DEF TenantsOf
    <3>2. HasProfile(T, tprofile)
      BY <1>4 DEF TenantsOf, HasProfile
    <3> HIDE DEF T
    <3>3. tenant' = T
      BY <2>1 DEF T
    <3> QED BY <3>1, <3>2, <3>3
  <2>6. \A d \in Devices : device'[d] = device[d] \/ (device[d] # None /\ device'[d] = Gone)
    BY <1>1, <2>1
  <2> HIDE DEF S
  <2>7. Proper(r)
    <3>1. row' \in RowsOf /\ Linked(row') /\ Steady(row, row')
      BY <2>2, <2>4
    <3>2. tprofile' \in TenantProfilesOf /\ HasProfile(tenant', tprofile')
      BY <1>2, <1>4, <2>5
    <3>3. \A d \in Devices : device[d] # None => device'[d] # None
      BY <1>1, <2>6
    <3> QED BY <1>3, <2>5, <3>1, <3>2, <3>3 DEF Proper
  <2>8. Apart(r)
    BY <1>3, <2>2, <2>3 DEF Apart
  <2>9. Profiled'
    <3>1. ASSUME NEW d \in Devices, device'[d] \notin {None, Gone}
          PROVE  profile'[device'[d].profile] # None
      <4>1. d \in Live \ s /\ device'[d] = device[d]
        BY <2>1, <3>1 DEF Live
      <4>2. device[d].profile \in Profiles /\ profile[device[d].profile] # None
        BY <4>1 DEF Live, Types, DeviceRow, Tables, Profiled
      <4>3. profile[device[d].profile].tenant = t => kept
        BY <4>1, <4>2 DEF kept
      <4> QED BY <2>1, <4>1, <4>2, <4>3
    <3> QED BY <3>1 DEF Profiled, Live
  <2>10. \A x \in Requests : Pending(x) => (profile[req[x].prof] # None => profile'[req[x].prof] # None)
    <3>1. \A x \in Requests : Pending(x) => req[x].prof \in Profiles
      BY Here DEF Pending, Handles
    <3> QED BY <1>2, <2>1, <3>1
  <2>11. profile' \in [Profiles -> ProfileRow \cup {None}] /\ device' \in [Devices -> DeviceRow \cup {None, Gone}]
    BY <2>1 DEF Types
  <2>12. Aside
    BY <1>1, <1>2, <2>6, <2>9, <2>10, <2>11 DEF Aside, Types
  <2> QED BY <2>7, <2>8, <2>12
<1> QED BY <1>5, <1>6

-----------------------------------------------------------------------------
(* Every step of the control plane.                                        *)

LEMMA SettledInit ==
  ASSUME AdminInit
  PROVE  Settled
<1>1. row \in RowsOf
  BY AdminInputAssumption DEF AdminInit, RowsOf
<1>2. Linked(row)
  BY <1>1, ConstrainedIsLinked DEF AdminInit
<1> DEFINE p == CHOOSE q \in TenantProfiles : TRUE
<1>3. p \in TenantProfiles
  BY AdminInputAssumption
<1>4. tenant = [t \in Tenants |-> p] /\ tprofile = [q \in TenantProfiles |-> q = p]
  BY DEF AdminInit
<1> HIDE DEF p
<1>5. None \notin BOOLEAN
  BY AdminInputAssumption
<1>6. tenant \in TenantsOf /\ tprofile \in TenantProfilesOf
  BY <1>3, <1>4 DEF TenantsOf, TenantProfilesOf
<1>7. HasProfile(tenant, tprofile)
  BY <1>3, <1>4, <1>5 DEF HasProfile
<1>8. work \in [Requests -> Work] /\ \A r \in Requests : Fit(work[r]) /\ Knows(work[r], row, device)
  <2>1. work = [r \in Requests |-> NoWork]
    BY DEF AdminInit
  <2> QED BY <2>1, NoWorkFits
<1> QED BY <1>1, <1>2, <1>6, <1>7, <1>8 DEF Settled

(* The step of one request on these tables.                                *)
OwnStep(r) == Proper(r) /\ Apart(r) /\ Aside

LEMMA StillOwn ==
  ASSUME Types, Tables, NEW r \in Requests, Proper(r) /\ Still
  PROVE  OwnStep(r)
<1>1. StillDevices /\ row' = row
  BY DEF Still, StillDevices, adminTables
<1>2. Apart(r)
  BY <1>1 DEF Apart
<1> QED BY <1>1, <1>2, StillAside DEF OwnStep

LEMMA WrittenOwn ==
  ASSUME Types, Tables, NEW r \in Requests, Proper(r) /\ Apart(r) /\ StillDevices
  PROVE  OwnStep(r)
BY StillAside DEF OwnStep

LEMMA OwnSteps ==
  ASSUME Types, Tables, Settled, NEW r \in Requests, RowRequest(r) \/ TenantRequest(r) \/ AdminStep(r)
  PROVE  OwnStep(r)
<1>1. CASE RowRequest(r) \/ TenantRequest(r)
  BY <1>1, RowArrives, TenantArrives, StillOwn
<1>2. CASE ResolveAssetProfile(r) \/ CheckReference(r) \/ CheckRow(r) \/ CheckAssigned(r)
           \/ CustomerBelongsToTenant(r)
  BY <1>2, ResolvesAssetProfile, ChecksReference, ChecksRow, ChecksAssigned, ChecksCustomers, StillOwn
<1>3. CASE CheckDefaultProfile(r) \/ Preflight(r) \/ ResolveTenantProfile(r) \/ DropTenantDevices(r)
           \/ ClearDefaults(r)
  BY <1>3, ChecksDefaults, ResolvesTenantProfile, Snapshots, StillOwn
<1>4. CASE UpdateRow(r) \/ UpdateScoped(r) \/ InsertRow(r) \/ DeleteRow(r) \/ DeleteScoped(r)
           \/ DeleteComment(r) \/ WriteAssignment(r)
  BY <1>4, UpdatesRow, UpdatesScoped, InsertsRow, DeletesRow, DeletesComment, WritesAssignment, WrittenOwn
<1>5. CASE SaveTenant(r) \/ DropTenantProfile(r) \/ CommitDefault(r)
  BY <1>5, SavesTenant, DropsTenantProfile, CommitsDefault, WrittenOwn
<1>6. CASE SwapDefaultProfile(r) \/ DropTenant(r) \/ InvalidateDefaults(r)
  BY <1>6, SwapsDefault, DropsTenant, EmptiesCache DEF OwnStep
<1> QED BY <1>1, <1>2, <1>3, <1>4, <1>5, <1>6, Zenon DEF AdminStep

(* A step is a step of DeviceAdmin, beside which the other tables stay as  *)
(* they are, or it is one on the other tables.                             *)
DevicesOnly == [DeviceNext]_deviceVars /\ UNCHANGED <<adminTables, work>>

LEMMA AdminSteps ==
  ASSUME Types, Tables, Settled, [AdminNext]_adminVars
  PROVE  DevicesOnly \/ \E r \in Requests : OwnStep(r)
<1>1. CASE UNCHANGED adminVars
  BY <1>1 DEF adminVars, DevicesOnly
<1>2. CASE (Tick \/ \E r \in Requests : DeviceArrival(r) \/ DeviceStep(r)) /\ UNCHANGED <<adminTables, work, mix>>
  <2>1. ASSUME NEW r \in Requests, DeviceArrival(r)
        PROVE  Arrival(r)
    BY <2>1, Zenon DEF DeviceArrival, Arrival
  <2>2. DeviceNext
    BY <1>2, <2>1, Zenon DEF DeviceNext
  <2> QED BY <1>2, <2>2 DEF DevicesOnly
<1>3. CASE \E r \in Requests : RowRequest(r) \/ TenantRequest(r) \/ AdminStep(r)
  BY <1>3, OwnSteps, Zenon
<1> QED BY <1>1, <1>2, <1>3, Zenon DEF AdminNext

LEMMA SettledStep ==
  ASSUME Types, Tables, Settled, [AdminNext]_adminVars
  PROVE  Settled'
<1>1. CASE DevicesOnly
  <2>1. UNCHANGED <<row, tenant, tprofile, work>>
    BY <1>1 DEF DevicesOnly, adminTables
  <2>2. \A d \in Devices : device[d] # None => device'[d] # None
    BY <1>1, DevicesStay DEF DevicesOnly
  <2>3. ASSUME NEW r \in Requests
        PROVE  Knows(work[r], row, device')
    <3>1. work[r] \in Work /\ Fit(work[r]) /\ Knows(work[r], row, device) /\ row \in RowsOf
      BY AtWork
    <3>2. Steady(row, row)
      BY <3>1, SteadySame
    <3> QED BY <2>2, <3>1, <3>2, KnowsStays
  <2> QED BY <2>1, <2>3 DEF Settled, Fit, Knows, Linked, KeysGood, NamesOnce, CommentsGood, In, HasProfile
<1>2. ASSUME NEW r \in Requests, OwnStep(r)
      PROVE  Settled'
  BY <1>2, ProperSettles DEF OwnStep
<1> QED BY <1>1, <1>2, AdminSteps, Zenon

LEMMA TypesAdmin ==
  ASSUME Types, Tables, Settled, [AdminNext]_adminVars
  PROVE  Types'
BY AdminSteps, TypesStep, AsideTypes, Zenon DEF DevicesOnly, OwnStep

LEMMA TablesAdmin ==
  ASSUME Types, Tables, Settled, [AdminNext]_adminVars
  PROVE  Tables'
BY AdminSteps, TypesStep, TablesStep, AsideTables, Zenon DEF DevicesOnly, OwnStep

LEMMA TokensAdmin ==
  ASSUME Types, Tables, Settled, Tokens, [AdminNext]_adminVars
  PROVE  Tokens'
BY AdminSteps, TokensStep, AsideTokens, Zenon DEF DevicesOnly, OwnStep

LEMMA EditsAdmin ==
  ASSUME Types, Tables, Settled, Edits, [AdminNext]_adminVars
  PROVE  Edits'
BY AdminSteps, TypesStep, EditsStep, AsideEdits, Zenon DEF DevicesOnly, OwnStep

LEMMA OvershootAdmin ==
  ASSUME Types, Tables, Settled, Overshoot, 0 \notin LimitValues, [AdminNext]_adminVars
  PROVE  Overshoot'
BY AdminSteps, OvershootStep, AsideOvershoot, Zenon DEF DevicesOnly, OwnStep

LEMMA TablesInit ==
  ASSUME DeviceInit
  PROVE  Tables
<1>1. Found /\ Creating
  BY DEF DeviceInit, Found, Creating, Inserted, NoRequest
<1>2. Profiled
  BY DeviceInputAssumption DEF DeviceInit, Profiled, Live
<1>3. OneIdEach
  <2>1. \A d \in Devices : cred[d] # None => cred[d].id \in CredentialIds
    BY DeviceInputAssumption DEF DeviceInit, Given
  <2>2. \A d \in Devices : cred[d] # None => cred[d].id \notin Drawn
    BY <2>1, DeviceAdminAssumption
  <2> QED BY <2>2, DeviceInputAssumption DEF DeviceInit, OneIdEach
<1> QED BY <1>1, <1>2, <1>3 DEF Tables

LEMMA AdminHolds == AdminSpec => [](Types /\ Tables /\ Settled)
<1>1. AdminInit => Types /\ Tables /\ Settled
  BY TypesInit, TablesInit, SettledInit DEF AdminInit
<1>2. Types /\ Tables /\ Settled /\ [AdminNext]_adminVars => (Types /\ Tables /\ Settled)'
  BY TypesAdmin, TablesAdmin, SettledStep
<1> QED BY <1>1, <1>2, PTL DEF AdminSpec

-----------------------------------------------------------------------------
(* Whatever requests overlap, every reference between the tables of        *)
(* Postgres leads to a row of the right table: a device to its profile, an *)
(* asset to its profile, a rule to its template, a comment to an alarm of  *)
(* its own tenant, a tenant to its profile.  No two devices share a        *)
(* credential id and no two rows of a table with UNIQUE share a name in a  *)
(* tenant (the handlers of crud and tenant check with a SELECT and write   *)
(* in a later statement, and a tenant's delete goes table by table and     *)
(* skips the tables that refuse).                                          *)
THEOREM ReferencesKept == AdminSpec => []ReferencesHold
<1>1. ASSUME Types, Tables, Settled
      PROVE  ReferencesHold
  <2>1. DeviceTypeOK
    BY <1>1 DEF Types, Tables, DeviceTypeOK, Profiled, OneIdEach, Live, DeviceRow
  <2>2. Constrained
    BY <1>1, ConstrainedIsLinked DEF Settled
  <2>3. \A t \in Tenants : tenant[t] \notin {None, Gone} => tprofile[tenant[t]] # None
    BY <1>1 DEF Settled, HasProfile
  <2> QED BY <2>1, <2>2, <2>3 DEF ReferencesHold
<1> QED BY <1>1, AdminHolds, PTL

(* A row is changed or deleted only by a request of its own tenant, or with *)
(* its tenant, and never moves to another one, although most handlers      *)
(* write by id alone what an earlier SELECT found to be the caller's: the  *)
(* id a check saw is never given to another row (uuids).                   *)
THEOREM RowsStayWithTheirTenant == AdminSpec => TenantsKeptApart
<1>1. ASSUME Types, Tables, Settled, [AdminNext]_adminVars, NEW x \in Ids,
             row[x] \notin {None, Gone}, row'[x] # row[x]
      PROVE  /\ \E r \in Requests :
                  /\ work'[r] # work[r]
                  /\ row[x].tenant \in {work[r].tenant, work[r].target}
             /\ row'[x] # Gone => row'[x].tenant = row[x].tenant
  <2>1. ~DevicesOnly
    BY <1>1 DEF DevicesOnly, adminTables
  <2>2. PICK r \in Requests : OwnStep(r)
    BY <1>1, <2>1, AdminSteps
  <2>3. Apart(r)
    BY <2>2 DEF OwnStep
  <2> QED BY <1>1, <2>3 DEF Apart, In
<1>2. Types /\ Tables /\ Settled /\ [AdminNext]_adminVars =>
        [\A x \in Ids :
           (row[x] \notin {None, Gone} /\ row'[x] # row[x]) =>
             /\ \E r \in Requests :
                  /\ work'[r] # work[r]
                  /\ row[x].tenant \in {work[r].tenant, work[r].target}
             /\ row'[x] # Gone => row'[x].tenant = row[x].tenant]_adminVars
  BY <1>1
<1> QED BY <1>2, AdminHolds, PTL DEF AdminSpec, TenantsKeptApart

(* A device that provisions again, because its answer was lost or two of   *)
(* its attempts overlap, is given the token of the attempt that created it *)
(* (provisioning.go: the device is found by name, its credential read, and *)
(* a token of its own is issued only where none was), also while tenants   *)
(* and profiles are deleted beside it.                                     *)
THEOREM TokensAgree == AdminSpec => []RetryGetsSameToken
<1>1. AdminInit => Tokens
  BY DEF AdminInit, DeviceInit, Tokens, Owner, NoRequest
<1>2. Types /\ Tables /\ Settled /\ Tokens /\ [AdminNext]_adminVars => Tokens'
  BY TokensAdmin
<1>3. Types /\ Tables /\ Tokens => RetryGetsSameToken
  BY DEF RetryGetsSameToken, Tokens, Tables, Creating, Owner
<1> QED BY <1>1, <1>2, <1>3, AdminHolds, PTL DEF AdminSpec

(* quotas.go, "TenantProfile edits propagate within 30s": once the cache's *)
(* time to live has passed since the last edit, no request counts its      *)
(* devices against an older limit, whatever saves, reads and invalidations *)
(* overlap.                                                                *)
THEOREM EditsReach == AdminSpec => []EditsPropagate
<1>1. AdminInit => Edits
  BY DEF AdminInit, DeviceInit, Edits, CacheFresh, HeldFresh, NoRequest
<1>2. Types /\ Tables /\ Settled /\ Edits /\ [AdminNext]_adminVars => Edits'
  BY EditsAdmin
<1>3. Types /\ Edits => EditsPropagate
  <2>1. ASSUME Types, Edits, NEW r \in Requests, req[r].pc = "count",
               clock >= edited[req[r].tenant] + TTL
        PROVE  req[r].lim = limit[req[r].tenant]
    <3>1. req[r].tenant \in Tenants
      BY <2>1, AtQuota DEF Create
    <3>2. edited[req[r].tenant] \in Nat /\ clock \in Nat /\ TTL \in Nat
      BY <2>1, <3>1, DeviceAdminAssumption DEF Types
    <3> QED BY <2>1, <3>2 DEF Edits, HeldFresh
  <2> QED BY <2>1 DEF EditsPropagate
<1> QED BY <1>1, <1>2, <1>3, AdminHolds, PTL DEF AdminSpec

(* The tables at the start hold no more devices than their tenants' limits *)
(* allow.                                                                  *)
WithinLimitsAtStart ==
  \A t \in Tenants :
    Cardinality({d \in Devices : DeviceAtStart[d] # None /\ DeviceAtStart[d].tenant = t}) <= LimitAtStart[t]

(* quotas.go counts and inserts in two steps without a lock: a tenant may  *)
(* exceed the largest limit it ever had by the number of the other         *)
(* requests under way, and by no more, although limits are read through a  *)
(* cache, provisioning inserts in an open transaction and an import runs   *)
(* the check once for each of its rows.                                    *)
THEOREM OvershootIsBounded ==
  ASSUME WithinLimitsAtStart, Requests # {}
  PROVE  AdminSpec => []OvershootBounded
<1>1. CASE 0 \in LimitValues
  <2>1. OvershootBounded
    BY <1>1 DEF OvershootBounded
  <2> QED BY <2>1, PTL
<1>2. CASE 0 \notin LimitValues
  <2>1. ASSUME AdminInit
        PROVE  Overshoot
    <3>1. ASSUME NEW t \in Tenants
          PROVE  Cardinality(DevicesOf(t)) + Cardinality(Admitted(t)) + 1 <= Most + Cardinality(Requests)
      <4>1. Admitted(t) = {}
        BY <2>1 DEF AdminInit, DeviceInit, Admitted, Pending, NoRequest
      <4>2. DevicesOf(t) = {d \in Devices : DeviceAtStart[d] # None /\ DeviceAtStart[d].tenant = t}
        BY <2>1, DeviceInputAssumption, DeviceAdminAssumption DEF AdminInit, DeviceInit, DevicesOf, Live
      <4>3. Cardinality(DevicesOf(t)) <= LimitAtStart[t]
        BY <4>2 DEF WithinLimitsAtStart
      <4>4. LimitAtStart[t] \in Nat /\ LimitAtStart[t] <= Most /\ Most \in Nat
        BY MostIsMost, DeviceInputAssumption DEF LimitValues
      <4>5. Cardinality(Requests) # 0 /\ Cardinality(Requests) \in Nat
        BY Finite, FS_EmptySet, DeviceAdminAssumption
      <4> QED BY <4>1, <4>3, <4>4, <4>5, Finite, FS_EmptySet
    <3> QED BY <3>1 DEF Overshoot
  <2>2. Types /\ Tables /\ Settled /\ Overshoot /\ [AdminNext]_adminVars => Overshoot'
    BY <1>2, OvershootAdmin
  <2>3. Overshoot => OvershootBounded
    <3>1. ASSUME Overshoot, NEW t \in Tenants
          PROVE  Cardinality(DevicesOf(t)) <= Most + Cardinality(Requests) - 1
      BY <3>1, Finite, MostIsMost DEF Overshoot
    <3> QED BY <3>1 DEF OvershootBounded, Most
  <2> QED BY <2>1, <2>2, <2>3, AdminHolds, PTL DEF AdminSpec
<1> QED BY <1>1, <1>2
=============================================================================
