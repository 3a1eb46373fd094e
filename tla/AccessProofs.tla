---------------------------- MODULE AccessProofs ----------------------------
(***************************************************************************)
(* Theorems about what admits a request: the policies of a twin, and the   *)
(* accounts, tokens and counters of those who log in.                      *)
(***************************************************************************)
EXTENDS Policies, Accounts, FiniteSetTheorems, TLAPS

(* Authorize speaks of the depth of the deepest entry that matches, and     *)
(* Resolve of the newest version: both are maxima of finite sets.           *)

LEMMA FiniteMax ==
  ASSUME NEW S \in SUBSET Int, IsFiniteSet(S), S # {}
  PROVE  \E m \in S : \A y \in S : m >= y
<1> DEFINE HasMax(X) == \E m \in X : \A y \in X : m >= y
           T == {X \in SUBSET S : X # {} /\ ~HasMax(X)}
           R == StrictSubsetOrdering(S)
<1>1. IsWellFoundedOn(R, SUBSET S)
  BY FS_StrictSubsetOrderingWellFounded, FS_FiniteSubsetsOfFinite
<1>2. ASSUME T # {} PROVE FALSE
  <2>1. PICK X \in T : \A Y \in T : <<Y, X>> \notin R
    <3>1. T \subseteq SUBSET S
      OBVIOUS
    <3> HIDE DEF R, T
    <3> QED BY <1>1, <1>2, <3>1, WFMin
  <2>2. PICK e \in X : TRUE
    BY <2>1
  <2> DEFINE Y == X \ {e}
  <2>3. <<Y, X>> \in R
    BY <2>1, <2>2 DEF StrictSubsetOrdering
  <2>4. CASE Y = {}
    <3>1. \A y \in X : y = e
      BY <2>4
    <3>2. HasMax(X)
      BY <2>1, <2>2, <3>1
    <3> QED BY <2>1, <3>2
  <2>5. CASE Y # {}
    <3>1. HasMax(Y)
      BY <2>1, <2>3, <2>5
    <3>2. PICK m \in Y : \A y \in Y : m >= y
      BY <3>1
    <3>3. e \in Int /\ m \in Int
      BY <2>1
    <3>4. CASE m >= e
      BY <2>1, <3>2, <3>4
    <3>5. CASE e > m
      <4>1. \A y \in X : e >= y
        BY <2>1, <3>2, <3>3, <3>5
      <4> QED BY <2>1, <4>1
    <3> QED BY <3>3, <3>4, <3>5
  <2> QED BY <2>4, <2>5
<1>3. S \notin T
  BY <1>2
<1> QED BY <1>3

LEMMA MaxIsMax ==
  ASSUME NEW S \in SUBSET Int, IsFiniteSet(S), S # {}
  PROVE  Max(S) \in S /\ \A y \in S : y <= Max(S)
<1>1. \E m \in S : \A y \in S : m >= y
  BY FiniteMax
<1>2. Max(S) \in S /\ \A y \in S : Max(S) >= y
  BY <1>1 DEF Max
<1> QED BY <1>2

LEMMA FiniteMin ==
  ASSUME NEW S \in SUBSET Int, IsFiniteSet(S), S # {}
  PROVE  \E m \in S : \A y \in S : m <= y
<1> DEFINE N == {0 - x : x \in S}
<1>1. IsFiniteSet(N)
  <2>1. [x \in S |-> 0 - x] \in Surjection(S, N)
    BY DEF Surjection
  <2> QED BY <2>1, FS_Surjection
<1>2. N \in SUBSET Int /\ N # {}
  <2>1. \A x \in S : 0 - x \in Int
    OBVIOUS
  <2>2. PICK x \in S : 0 - x \in N
    OBVIOUS
  <2> QED BY <2>1, <2>2
<1>3. PICK m \in N : \A y \in N : m >= y
  BY <1>1, <1>2, FiniteMax
<1>4. \A x \in S : 0 - x \in N /\ m >= 0 - x /\ x \in Int
  BY <1>3
<1>5. 0 - m \in S /\ m \in Int
  BY <1>3
<1> QED BY <1>4, <1>5

-----------------------------------------------------------------------------
(* Documents.                                                              *)

Patterns == Seq(STRING)

FiniteDocument(d) ==
  /\ IsFiniteSet(DOMAIN d.grants) /\ DOMAIN d.grants \subseteq Patterns
  /\ IsFiniteSet(DOMAIN d.revokes) /\ DOMAIN d.revokes \subseteq Patterns

InCatalogue == Documents \cup {BuiltinOwnerPolicy(t) : t \in PolicyTenants}

LEMMA CatalogueIsFinite == ASSUME NEW d \in InCatalogue PROVE FiniteDocument(d)
<1>1. CASE d \in Documents
  BY <1>1, PolicyAssumption DEF FiniteDocument, Patterns
<1>2. CASE d \in {BuiltinOwnerPolicy(t) : t \in PolicyTenants}
  <2>1. PICK t \in PolicyTenants : d = BuiltinOwnerPolicy(t)
    BY <1>2
  <2>2. DOMAIN d.grants = {<<t>>} /\ DOMAIN d.revokes = {}
    BY <2>1 DEF BuiltinOwnerPolicy
  <2>3. <<t>> \in Patterns
    BY PolicyAssumption DEF Patterns
  <2>4. IsFiniteSet({<<t>>}) /\ IsFiniteSet({})
    BY FS_Singleton, FS_EmptySet
  <2>5. IsFiniteSet(DOMAIN d.grants) /\ IsFiniteSet(DOMAIN d.revokes)
    BY <2>2, <2>4
  <2>6. DOMAIN d.grants \subseteq Patterns /\ DOMAIN d.revokes \subseteq Patterns
    BY <2>2, <2>3
  <2> QED BY <2>5, <2>6 DEF FiniteDocument
<1> QED BY <1>1, <1>2 DEF InCatalogue

LEMMA DepthType == ASSUME NEW p \in Patterns PROVE Depth(p) \in Nat
<1>1. CASE Recursive(p)
  <2> DEFINE S == {i \in DOMAIN p : p[i] = "#"}
  <2>1. S \in SUBSET Int /\ S # {} /\ S \subseteq 1..Len(p) /\ Len(p) \in Nat
    BY <1>1 DEF Recursive, Patterns
  <2>2. IsFiniteSet(S)
    <3>1. IsFiniteSet(1..Len(p))
      BY <2>1, FS_Interval
    <3> QED BY <2>1, <3>1, FS_Subset
  <2>3. PICK m \in S : \A y \in S : m <= y
    BY <2>1, <2>2, FiniteMin
  <2>4. m \in DOMAIN p /\ p[m] = "#" /\ \A j \in 1..(m - 1) : p[j] # "#"
    <3>1. \A j \in 1..(m - 1) : j \in 1..Len(p) /\ j < m
      BY <2>1
    <3>2. DOMAIN p = 1..Len(p)
      BY DEF Patterns
    <3> QED BY <2>1, <2>3, <3>1, <3>2
  <2>5. Wild(p) \in DOMAIN p
    BY <2>4 DEF Wild
  <2>6. DOMAIN p \subseteq Nat
    BY DEF Patterns
  <2> QED BY <1>1, <2>5, <2>6 DEF Depth
<1>2. CASE ~Recursive(p)
  BY <1>2 DEF Depth, Patterns
<1> QED BY <1>1, <1>2

\* No entry that matches is deeper than Deepest says.
LEMMA DeepestIsDeepest ==
  ASSUME NEW d, FiniteDocument(d), NEW resource,
         NEW p \in Matching(d.grants, resource) \cup Matching(d.revokes, resource)
  PROVE  Depth(p) <= Deepest(d, resource)
<1> DEFINE M == Matching(d.grants, resource) \cup Matching(d.revokes, resource)
           S == {Depth(q) : q \in M}
<1>1. M \subseteq Patterns /\ IsFiniteSet(M)
  <2>1. /\ Matching(d.grants, resource) \subseteq DOMAIN d.grants
        /\ Matching(d.revokes, resource) \subseteq DOMAIN d.revokes
    BY DEF Matching
  <2>2. IsFiniteSet(Matching(d.grants, resource)) /\ IsFiniteSet(Matching(d.revokes, resource))
    BY <2>1, FS_Subset DEF FiniteDocument
  <2> QED BY <2>1, <2>2, FS_Union DEF FiniteDocument
<1>2. S \in SUBSET Int /\ S # {} /\ Depth(p) \in S
  BY <1>1, DepthType
<1>3. IsFiniteSet(S)
  <2>1. [q \in M |-> Depth(q)] \in Surjection(M, S)
    BY DEF Surjection
  <2> QED BY <1>1, <2>1, FS_Surjection
<1>4. Deepest(d, resource) = Max(S)
  BY <1>2 DEF Deepest, Max0
<1> HIDE DEF S
<1> QED BY <1>2, <1>3, <1>4, MaxIsMax

\* Authorize permits no more than the package's comment promises.
LEMMA AuthorizedIsPermitted ==
  ASSUME NEW d, FiniteDocument(d), NEW subject, NEW resource, NEW action,
         Authorize(subject, d, resource, action)
  PROVE  Permitted(subject, d, resource, action)
<1> DEFINE deepest == Deepest(d, resource)
<1>1. /\ subject # Absent /\ d.subjects \cap {"*", subject} # {}
      /\ ~CoveredAt(d.revokes, resource, action, deepest)
      /\ CoveredAt(d.grants, resource, action, deepest)
  BY DEF Authorize, SubjectMatches
<1>2. \E bound \in d.subjects : bound \in {"*", subject}
  BY <1>1
<1>3. PICK g \in Matching(d.grants, resource) :
        Depth(g) = deepest /\ ActionCovered(d.grants[g], action)
  BY <1>1 DEF CoveredAt
<1>4. "*" \in d.grants[g] \/ action \in d.grants[g]
  BY <1>3 DEF ActionCovered
<1>5. \A e \in Matching(d.grants, resource) \cup Matching(d.revokes, resource) : Depth(e) <= Depth(g)
  BY <1>3, DeepestIsDeepest
<1>6. \A e \in Matching(d.revokes, resource) :
        Depth(e) = Depth(g) => {"*", action} \cap d.revokes[e] = {}
  BY <1>1, <1>3 DEF CoveredAt, ActionCovered
<1> QED BY <1>2, <1>4, <1>5, <1>6 DEF Permitted

-----------------------------------------------------------------------------
(* The catalogue: what is resolved is one of its documents.                *)

Tables == [Rows -> {Absent} \cup [deprecated : BOOLEAN, document : Documents]]
CatalogueOK == catalogue \in Tables

LEMMA LatestIsOne ==
  ASSUME NEW S \in SUBSET Rows, S # {} PROVE Latest(S) \in S
<1> DEFINE V == {x.version : x \in S}
<1>1. V \in SUBSET Int /\ V # {} /\ V \subseteq PolicyVersions
  <2>1. \A x \in S : x.version \in PolicyVersions
    BY DEF Rows
  <2>2. V \subseteq PolicyVersions /\ V # {}
    BY <2>1
  <2>3. PolicyVersions \subseteq Int
    BY PolicyAssumption
  <2> HIDE DEF V
  <2> QED BY <2>2, <2>3
<1>2. IsFiniteSet(V)
  BY <1>1, PolicyAssumption, FS_Subset
<1>3. PICK m \in V : \A y \in V : m >= y
  <2> HIDE DEF V
  <2> QED BY <1>1, <1>2, FiniteMax
<1>4. PICK x \in S : x.version = m
  BY <1>3
<1>5. \A other \in S : other.version <= x.version
  <2>1. \A other \in S : other.version \in V /\ other.version \in Nat
    BY PolicyAssumption DEF Rows
  <2> QED BY <2>1, <1>1, <1>3, <1>4
<1> QED BY <1>4, <1>5 DEF Latest

LEMMA ResolvedIsFinite ==
  ASSUME NEW table \in Tables, NEW t \in PolicyTenants, NEW pin
  PROVE  Resolve(table, t, pin) \in InCatalogue \cup {Absent}
<1> DEFINE S == InForce(table, t, pin.id)
<1>1. S \in SUBSET Rows /\ \A x \in S : table[x] # Absent
  BY DEF InForce
<1>2. S # {} => table[Latest(S)].document \in Documents
  <2>1. S # {} => Latest(S) \in S
    BY <1>1, LatestIsOne
  <2> QED BY <1>1, <2>1 DEF Tables
<1>3. BuiltinOwnerPolicy(t) \in InCatalogue
  BY DEF InCatalogue
<1> QED BY <1>2, <1>3 DEF Resolve, InCatalogue

(* A request has seen what is in force, and what it is served by was seen   *)
(* and permits all it names.                                               *)
Requests == [pc : {"idle", "policy", "serve"}, asked : Asked \cup {Absent},
             document : InCatalogue \cup {Absent}, seen : SUBSET (InCatalogue \cup {Absent})]

AskOK(a) ==
  /\ a.pc # "idle" => a.asked \in Asked /\ Resolve(catalogue, a.asked.tenant, a.asked.pin) \in a.seen
  /\ a.pc = "serve" /\ a.asked.subject # SysAdmin =>
       a.document \in a.seen \ {Absent} /\ Permits(a.asked, a.document)

PolicyInv ==
  /\ CatalogueOK
  /\ asking \in [Callers -> Requests]
  /\ \A c \in Callers : AskOK(asking[c])

LEMMA PolicyInvInit == PolicyInit => PolicyInv
<1> SUFFICES ASSUME PolicyInit PROVE PolicyInv
  OBVIOUS
<1>1. CatalogueOK
  BY DEF PolicyInit, CatalogueOK, Tables
<1>2. Quiet \in Requests
  BY DEF Quiet, Requests
<1>3. asking \in [Callers -> Requests]
  BY <1>2 DEF PolicyInit
<1>4. \A c \in Callers : asking[c].pc = "idle"
  BY DEF PolicyInit, Quiet
<1>5. \A c \in Callers : AskOK(asking[c])
  BY <1>4 DEF AskOK
<1> QED BY <1>1, <1>3, <1>5 DEF PolicyInv

\* A new catalogue is seen by every request under way.
LEMMA WitnessedKeeps ==
  ASSUME PolicyInv, CatalogueOK', Witnessed(catalogue') PROVE PolicyInv'
<1>1. ASSUME NEW c \in Callers PROVE asking'[c] \in Requests /\ AskOK(asking[c])'
  <2>1. asking[c] \in Requests /\ AskOK(asking[c])
    BY DEF PolicyInv
  <2>2. CASE asking[c].pc = "idle"
    <3>1. asking'[c] = asking[c]
      BY <2>2 DEF Witnessed
    <3> QED BY <2>1, <2>2, <3>1 DEF AskOK
  <2>3. CASE asking[c].pc # "idle"
    <3> DEFINE found == Resolve(catalogue', asking[c].asked.tenant, asking[c].asked.pin)
    <3>1. asking[c].asked \in Asked /\ asking[c].asked.tenant \in PolicyTenants
      BY <2>1, <2>3, PolicyAssumption DEF AskOK
    <3>2. found \in InCatalogue \cup {Absent}
      BY <3>1, ResolvedIsFinite DEF CatalogueOK
    <3>3. asking'[c] = [asking[c] EXCEPT !.seen = asking[c].seen \cup {found}]
      BY <2>3 DEF Witnessed
    <3> HIDE DEF found
    <3>4. /\ asking'[c] \in Requests
          /\ asking'[c].pc = asking[c].pc /\ asking'[c].asked = asking[c].asked
          /\ asking'[c].document = asking[c].document
          /\ asking'[c].seen = asking[c].seen \cup {found}
      BY <2>1, <3>2, <3>3 DEF Requests
    <3>5. Resolve(catalogue', asking'[c].asked.tenant, asking'[c].asked.pin) \in asking'[c].seen
      BY <3>4 DEF found
    <3>6. asking'[c].pc = "serve" /\ asking'[c].asked.subject # SysAdmin =>
            asking'[c].document \in asking'[c].seen \ {Absent} /\ Permits(asking'[c].asked, asking'[c].document)
      BY <2>1, <3>4 DEF AskOK
    <3> QED BY <3>1, <3>4, <3>5, <3>6 DEF AskOK
  <2> QED BY <2>2, <2>3
<1>2. asking' \in [Callers -> Requests]
  BY <1>1 DEF Witnessed
<1> QED BY <1>1, <1>2 DEF PolicyInv

LEMMA PolicyInvNext == PolicyInv /\ [PolicyNext]_policyVars => PolicyInv'
<1> SUFFICES ASSUME PolicyInv, [PolicyNext]_policyVars PROVE PolicyInv'
  OBVIOUS
<1>1. ASSUME NEW row \in Rows, DeprecatePolicy(row) PROVE PolicyInv'
  <2>1. catalogue[row] \in [deprecated : BOOLEAN, document : Documents]
    BY <1>1 DEF DeprecatePolicy, PolicyInv, CatalogueOK, Tables
  <2>2. CatalogueOK'
    BY <1>1, <2>1 DEF DeprecatePolicy, PolicyInv, CatalogueOK, Tables
  <2> QED BY <1>1, <2>2, WitnessedKeeps DEF DeprecatePolicy
<1>2. ASSUME NEW row \in Rows, NEW document \in Documents, Create(row, document) PROVE PolicyInv'
  <2>1. CatalogueOK'
    BY <1>2 DEF Create, PolicyInv, CatalogueOK, Tables
  <2> QED BY <1>2, <2>1, WitnessedKeeps DEF Create
\* The other steps are of one request, and leave the catalogue.
<1>3. ASSUME NEW c \in Callers, NEW a \in Requests, AskOK(a), catalogue' = catalogue,
             asking' = [asking EXCEPT ![c] = a]
      PROVE  PolicyInv'
  <2>1. CatalogueOK'
    BY <1>3 DEF PolicyInv, CatalogueOK
  <2>2. asking' \in [Callers -> Requests]
    BY <1>3 DEF PolicyInv
  <2>3. ASSUME NEW o \in Callers PROVE AskOK(asking[o])'
    <3>1. AskOK(asking[o]) /\ (asking'[o] = asking[o] \/ asking'[o] = a)
      BY <1>3 DEF PolicyInv
    <3> QED BY <1>3, <3>1 DEF AskOK
  <2> QED BY <2>1, <2>2, <2>3 DEF PolicyInv
<1>4. Quiet \in Requests /\ AskOK(Quiet)
  BY DEF Quiet, Requests, AskOK
<1>5. ASSUME NEW c \in Callers, ResolveAndAuthorize(c) PROVE PolicyInv'
  <2> DEFINE x == asking[c].asked
             document == Resolve(catalogue, x.tenant, x.pin)
             a == [pc |-> "serve", asked |-> x, document |-> document, seen |-> asking[c].seen]
  <2>1. asking[c] \in Requests /\ AskOK(asking[c]) /\ asking[c].pc = "policy" /\ catalogue' = catalogue
    BY <1>5 DEF ResolveAndAuthorize, PolicyInv
  <2>2. x \in Asked /\ x.tenant \in PolicyTenants /\ document \in asking[c].seen
    BY <2>1, PolicyAssumption DEF AskOK
  <2>3. CASE document # Absent /\ Permits(x, document)
    <3>1. asking' = [asking EXCEPT ![c] = a]
      BY <1>5, <2>3 DEF ResolveAndAuthorize
    <3>2. asking[c].seen \in SUBSET (InCatalogue \cup {Absent}) /\ document \in InCatalogue \cup {Absent}
      BY <2>1, <2>2 DEF Requests
    <3>3. a \in Requests
      BY <2>2, <3>2 DEF Requests
    <3>4. AskOK(a)
      BY <2>2, <2>3 DEF AskOK
    <3> QED BY <1>3, <2>1, <3>1, <3>3, <3>4
  <2>4. CASE ~(document # Absent /\ Permits(x, document))
    <3>1. asking' = [asking EXCEPT ![c] = Quiet]
      BY <1>5, <2>4 DEF ResolveAndAuthorize
    <3> QED BY <1>3, <1>4, <2>1, <3>1
  <2> QED BY <2>3, <2>4
<1>6. ASSUME NEW c \in Callers, Served(c) PROVE PolicyInv'
  BY <1>3, <1>4, <1>6 DEF Served
<1>7. ASSUME NEW c \in Callers, NEW x \in Asked, Enforce(c, x) PROVE PolicyInv'
  <2> DEFINE a == [pc |-> IF x.subject = SysAdmin THEN "serve" ELSE "policy", asked |-> x,
                   document |-> Absent, seen |-> {Resolve(catalogue, x.tenant, x.pin)}]
  <2>1. Resolve(catalogue, x.tenant, x.pin) \in InCatalogue \cup {Absent}
    BY ResolvedIsFinite, PolicyAssumption DEF PolicyInv, CatalogueOK
  <2>2. a \in Requests
    BY <2>1 DEF Requests
  <2>3. AskOK(a)
    BY DEF AskOK
  <2>4. asking' = [asking EXCEPT ![c] = a] /\ catalogue' = catalogue
    BY <1>7 DEF Enforce
  <2> QED BY <1>3, <2>2, <2>3, <2>4
<1>8. CASE UNCHANGED policyVars
  BY <1>8 DEF policyVars, PolicyInv, CatalogueOK, AskOK
<1> QED BY <1>1, <1>2, <1>5, <1>6, <1>7, <1>8 DEF PolicyNext

\* However the catalogue changes between a request's steps, what it is served by
\* is a document of its tenant that was in force at some time since it began, and
\* the comment's reading of it permits every resource the request names.
THEOREM ServedIsPermitted == PolicySpec => []ServedAsPermitted
<1>1. PolicyInv => ServedAsPermitted
  <2> SUFFICES ASSUME PolicyInv, NEW c \in Callers,
                      asking[c].pc = "serve", asking[c].asked.subject # SysAdmin
               PROVE  \E document \in asking[c].seen \ {Absent} :
                        \A path \in asking[c].asked.paths :
                          Permitted(asking[c].asked.subject, document, path, asking[c].asked.action)
    BY DEF ServedAsPermitted
  <2> DEFINE d == asking[c].document
  <2>1. asking[c] \in Requests /\ d \in asking[c].seen \ {Absent} /\ Permits(asking[c].asked, d)
    BY DEF PolicyInv, AskOK
  <2>2. FiniteDocument(d)
    <3>1. d \in InCatalogue
      BY <2>1 DEF Requests
    <3> QED BY <3>1, CatalogueIsFinite
  <2>3. \A path \in asking[c].asked.paths :
          Permitted(asking[c].asked.subject, d, path, asking[c].asked.action)
    BY <2>1, <2>2, AuthorizedIsPermitted DEF Permits
  <2> QED BY <2>1, <2>3
<1> QED BY <1>1, PolicyInvInit, PolicyInvNext, PTL DEF PolicySpec

-----------------------------------------------------------------------------
(* Accounts.  What a request remembers between two of its statements, and   *)
(* what its handler has made sure of by then.                               *)

TokenKinds == {"reset", "activate"}
Operations ==
  TokenKinds \cup {"none", "login", "refresh", "forgot", "change", "user", "delete", "oidc"}
Places ==
  {"idle", "lookup", "fail", "success", "session", "findForgetful", "writeReset", "token", "setPassword",
   "hash", "changePassword", "insertUser", "mayEdit", "updateUser", "insertCredential", "mayDelete",
   "deleteUser", "identity", "byEmail", "findCreated", "link"}
Task == [op : Operations, pc : Places, user : Users \cup {Null}, email : Emails \cup {Null},
         old : Passwords \cup {Null}, password : Passwords \cup {Null}, ip : Addresses \cup {Null},
         identity : Identities \cup {Null}, caller : Claims \cup {Null}, authority : Roles \cup {Null},
         token : Nat, found : Claims \cup {Null}, late : BOOLEAN]

\* Whose request has come how far.
TaskOK(t) ==
  /\ t.pc \in {"lookup", "fail", "success"} =>
       t.op = "login" /\ t.ip \in Addresses /\ t.email \in Emails /\ t.password \in Passwords
  /\ t.pc \in {"success", "link"} => t.found \in Claims
  /\ t.pc \in {"session", "writeReset", "setPassword", "hash", "changePassword", "mayEdit", "updateUser",
               "insertCredential", "mayDelete", "deleteUser", "findCreated", "link"} => t.user \in Users
  /\ t.pc \in {"token", "setPassword"} => t.op \in TokenKinds
  /\ t.op \in TokenKinds \cup {"change"} => t.password \in Passwords
  /\ t.pc \in {"hash", "changePassword"} => t.op = "change"
  /\ t.pc \in {"mayEdit", "updateUser"} => t.op = "user"
  /\ t.pc \in {"insertUser", "insertCredential"} => t.op \in {"user", "oidc"}
  /\ t.pc \in {"identity", "byEmail", "findCreated", "link"} => t.op = "oidc"
  /\ t.op = "user" => t.caller \in Claims
  /\ t.op \in {"user", "oidc"} => t.email \in Emails /\ t.authority \in Roles
  /\ t.op = "oidc" => t.identity \in Identities
  /\ t.pc = "insertUser" /\ t.op = "user" /\ t.authority = "SYS_ADMIN" => t.caller.authority = "SYS_ADMIN"

AccountTypes ==
  /\ user \in [Users -> UserRow \cup {Null}]
  /\ credential \in [Users -> UserCredential \cup {Null}]
  /\ identity \in [Identities -> Users \cup {Null}]
  /\ session \subseteq Claims
  /\ counter \in [Addresses -> Counter \cup {Null}]
  /\ guessed \in [Addresses -> [distinct : SUBSET (Emails \X Passwords), attempts : Nat]]
  /\ issued \in Nat /\ now \in Nat /\ used \subseteq 1..issued
  /\ work \in [AccountRequests -> Task]
  /\ \A r \in AccountRequests : TaskOK(work[r])
  /\ \A r \in AccountRequests : work[r].pc \in {"token", "setPassword"} => work[r].token \in 1..issued

\* A request goes on to task t.
Moves(r, t) == t \in Task /\ TaskOK(t) /\ Step(r, t)

\* Where it may go from what it and the tables are.
Legal(r, t) ==
  /\ t.pc = "lookup" => work[r].pc = "idle" /\ Allow(t.ip)
  /\ t.pc = "fail" => work[r].pc = "lookup" /\ t.ip = work[r].ip
  /\ t.pc = "token" => t.token \in 1..issued
  /\ t.pc = "setPassword" =>
       /\ work[r].pc = "token" /\ t.op = work[r].op /\ t.token = work[r].token
       /\ t.user \in Holders(r) /\ t.late = (work[r].token \in used)
  /\ t.pc # "setPassword" => t.late \in {FALSE, work[r].late}
  /\ t.pc = "updateUser" /\ t.authority = "SYS_ADMIN" /\ t.caller.authority # "SYS_ADMIN" =>
       t.user \in Existing /\ user[t.user].authority = "SYS_ADMIN"

LEMMA NoTaskType == NoTask \in Task /\ TaskOK(NoTask) /\ NoTask.pc = "idle" /\ NoTask.late = FALSE
<1>1. NoTask \in Task
  BY DEF NoTask, Task, Operations, Places
<1>2. NoTask.op = "none" /\ NoTask.pc = "idle" /\ NoTask.late = FALSE
  BY DEF NoTask
<1>3. TaskOK(NoTask)
  BY <1>2, SMT DEF TaskOK, TokenKinds
<1> QED BY <1>1, <1>2, <1>3

LEMMA AsksType ==
  ASSUME NEW op \in Operations, NEW pc \in Places
  PROVE  /\ Asks(op, pc) \in Task
         /\ Asks(op, pc).op = op /\ Asks(op, pc).pc = pc /\ Asks(op, pc).late = FALSE
BY DEF Asks, NoTask, Task

LEMMA GoesType ==
  ASSUME AccountTypes, NEW r \in AccountRequests, NEW pc \in Places
  PROVE  LET g == Goes(r, pc) w == work[r]
         IN /\ w \in Task /\ TaskOK(w) /\ g \in Task /\ g.pc = pc
            /\ g.op = w.op /\ g.user = w.user /\ g.email = w.email /\ g.old = w.old /\ g.password = w.password
            /\ g.ip = w.ip /\ g.identity = w.identity /\ g.caller = w.caller /\ g.authority = w.authority
            /\ g.token = w.token /\ g.found = w.found /\ g.late = w.late
<1> DEFINE w == work[r]
           g == Goes(r, pc)
<1>1. w \in Task /\ TaskOK(w)
  BY DEF AccountTypes
<1>2. g = [w EXCEPT !.pc = pc]
  BY DEF Goes
<1> HIDE DEF w, g
<1>3. g \in Task /\ g.pc = pc
  BY <1>1, <1>2 DEF Task
<1>4. /\ g.op = w.op /\ g.user = w.user /\ g.email = w.email /\ g.old = w.old /\ g.password = w.password
      /\ g.ip = w.ip /\ g.identity = w.identity /\ g.caller = w.caller /\ g.authority = w.authority
      /\ g.token = w.token /\ g.found = w.found /\ g.late = w.late
  BY <1>1, <1>2 DEF Task
<1> QED BY <1>1, <1>3, <1>4 DEF w, g

(* Every request begins with what was parsed from it.                      *)
LEMMA RequestMoves ==
  ASSUME AccountTypes, NEW r \in AccountRequests, AccountRequest(r)
  PROVE  /\ \E t : Moves(r, t) /\ Legal(r, t)
         /\ work[r].pc = "idle" /\ UNCHANGED <<accounts, throttle, now>>
<1>1. CASE \E i \in Logins : HandleLogin(r, i)
  <2>1. PICK i \in Logins : HandleLogin(r, i)
    BY <1>1
  <2>2. i.ip \in Addresses /\ i.email \in Emails /\ i.password \in Passwords
    BY AccountsInputAssumption
  <2> DEFINE a == Asks("login", "lookup")
             t == [a EXCEPT !.ip = i.ip, !.email = i.email, !.password = i.password]
  <2>3. a \in Task /\ a.op = "login" /\ a.pc = "lookup" /\ a.late = FALSE
    <3>1. "login" \in Operations /\ "lookup" \in Places
      BY DEF Operations, Places, TokenKinds
    <3> QED BY <3>1, AsksType
  <2>4. Step(r, t) /\ work[r].pc = "idle" /\ UNCHANGED <<accounts, throttle, now>>
    BY <2>1 DEF HandleLogin, Begin
  <2> HIDE DEF a
  <2>5. t \in Task
    BY <2>2, <2>3 DEF Task
  <2>6. t.op = "login" /\ t.pc = "lookup" /\ t.late = FALSE /\ t.ip = i.ip /\ t.email = i.email /\ t.password = i.password
    BY <2>3 DEF Task
  <2> HIDE DEF t
  <2>7. TaskOK(t)
    BY <2>2, <2>6 DEF TaskOK, TokenKinds
  <2>8. Legal(r, t)
    BY <2>1, <2>2, <2>4, <2>6 DEF HandleLogin, Legal
  <2> QED BY <2>4, <2>5, <2>7, <2>8 DEF Moves
<1>2. CASE \E s \in session : HandleTokenRefresh(r, s)
  <2>1. PICK s \in session : HandleTokenRefresh(r, s)
    BY <1>2
  <2>2. s.user \in Users
    BY DEF AccountTypes, Claims
  <2> DEFINE a == Asks("refresh", "session")
             t == [a EXCEPT !.user = s.user]
  <2>3. a \in Task /\ a.op = "refresh" /\ a.pc = "session" /\ a.late = FALSE
    <3>1. "refresh" \in Operations /\ "session" \in Places
      BY DEF Operations, Places, TokenKinds
    <3> QED BY <3>1, AsksType
  <2>4. Step(r, t) /\ work[r].pc = "idle" /\ UNCHANGED <<accounts, throttle, now>>
    BY <2>1 DEF HandleTokenRefresh, Begin
  <2> HIDE DEF a
  <2>5. t \in Task
    BY <2>2, <2>3 DEF Task
  <2>6. t.op = "refresh" /\ t.pc = "session" /\ t.late = FALSE /\ t.user = s.user
    BY <2>3 DEF Task
  <2> HIDE DEF t
  <2>7. TaskOK(t)
    BY <2>2, <2>6 DEF TaskOK, TokenKinds
  <2>8. Legal(r, t)
    BY <2>2, <2>6 DEF Legal
  <2> QED BY <2>4, <2>5, <2>7, <2>8 DEF Moves
<1>3. CASE \E e \in Forgotten : HandleResetPasswordByEmail(r, e)
  <2>1. PICK e \in Forgotten : HandleResetPasswordByEmail(r, e)
    BY <1>3
  <2>2. e \in Emails
    BY AccountsInputAssumption
  <2> DEFINE a == Asks("forgot", "findForgetful")
             t == [a EXCEPT !.email = e]
  <2>3. a \in Task /\ a.op = "forgot" /\ a.pc = "findForgetful" /\ a.late = FALSE
    <3>1. "forgot" \in Operations /\ "findForgetful" \in Places
      BY DEF Operations, Places, TokenKinds
    <3> QED BY <3>1, AsksType
  <2>4. Step(r, t) /\ work[r].pc = "idle" /\ UNCHANGED <<accounts, throttle, now>>
    BY <2>1 DEF HandleResetPasswordByEmail, Begin
  <2> HIDE DEF a
  <2>5. t \in Task
    BY <2>2, <2>3 DEF Task
  <2>6. t.op = "forgot" /\ t.pc = "findForgetful" /\ t.late = FALSE /\ t.email = e
    BY <2>3 DEF Task
  <2> HIDE DEF t
  <2>7. TaskOK(t)
    BY <2>2, <2>6 DEF TaskOK, TokenKinds
  <2>8. Legal(r, t)
    BY <2>2, <2>6 DEF Legal
  <2> QED BY <2>4, <2>5, <2>7, <2>8 DEF Moves
<1>4. CASE \E n \in 1..issued, p \in NewPasswords : HandleResetPassword(r, n, p)
  <2>1. PICK n \in 1..issued, p \in NewPasswords : HandleResetPassword(r, n, p)
    BY <1>4
  <2>2. n \in 1..issued /\ n \in Nat /\ p \in Passwords
    BY AccountsInputAssumption DEF AccountTypes
  <2> DEFINE a == Asks("reset", "token")
             t == [a EXCEPT !.token = n, !.password = p]
  <2>3. a \in Task /\ a.op = "reset" /\ a.pc = "token" /\ a.late = FALSE
    <3>1. "reset" \in Operations /\ "token" \in Places
      BY DEF Operations, Places, TokenKinds
    <3> QED BY <3>1, AsksType
  <2>4. Step(r, t) /\ work[r].pc = "idle" /\ UNCHANGED <<accounts, throttle, now>>
    BY <2>1 DEF HandleResetPassword, Begin
  <2> HIDE DEF a
  <2>5. t \in Task
    BY <2>2, <2>3 DEF Task
  <2>6. t.op = "reset" /\ t.pc = "token" /\ t.late = FALSE /\ t.token = n /\ t.password = p
    BY <2>3 DEF Task
  <2> HIDE DEF t
  <2>7. TaskOK(t)
    BY <2>2, <2>6 DEF TaskOK, TokenKinds
  <2>8. Legal(r, t)
    BY <2>2, <2>6 DEF Legal
  <2> QED BY <2>4, <2>5, <2>7, <2>8 DEF Moves
<1>5. CASE \E n \in 1..issued, p \in NewPasswords : HandleActivate(r, n, p)
  <2>1. PICK n \in 1..issued, p \in NewPasswords : HandleActivate(r, n, p)
    BY <1>5
  <2>2. n \in 1..issued /\ n \in Nat /\ p \in Passwords
    BY AccountsInputAssumption DEF AccountTypes
  <2> DEFINE a == Asks("activate", "token")
             t == [a EXCEPT !.token = n, !.password = p]
  <2>3. a \in Task /\ a.op = "activate" /\ a.pc = "token" /\ a.late = FALSE
    <3>1. "activate" \in Operations /\ "token" \in Places
      BY DEF Operations, Places, TokenKinds
    <3> QED BY <3>1, AsksType
  <2>4. Step(r, t) /\ work[r].pc = "idle" /\ UNCHANGED <<accounts, throttle, now>>
    BY <2>1 DEF HandleActivate, Begin
  <2> HIDE DEF a
  <2>5. t \in Task
    BY <2>2, <2>3 DEF Task
  <2>6. t.op = "activate" /\ t.pc = "token" /\ t.late = FALSE /\ t.token = n /\ t.password = p
    BY <2>3 DEF Task
  <2> HIDE DEF t
  <2>7. TaskOK(t)
    BY <2>2, <2>6 DEF TaskOK, TokenKinds
  <2>8. Legal(r, t)
    BY <2>2, <2>6 DEF Legal
  <2> QED BY <2>4, <2>5, <2>7, <2>8 DEF Moves
<1>6. CASE \E i \in PasswordChanges : HandleChangePassword(r, i)
  <2>1. PICK i \in PasswordChanges : HandleChangePassword(r, i)
    BY <1>6
  <2>2. i.user \in Users /\ i.old \in Passwords /\ i.new \in Passwords
    BY AccountsInputAssumption
  <2> DEFINE a == Asks("change", "hash")
             t == [a EXCEPT !.user = i.user, !.old = i.old, !.password = i.new]
  <2>3. a \in Task /\ a.op = "change" /\ a.pc = "hash" /\ a.late = FALSE
    <3>1. "change" \in Operations /\ "hash" \in Places
      BY DEF Operations, Places, TokenKinds
    <3> QED BY <3>1, AsksType
  <2>4. Step(r, t) /\ work[r].pc = "idle" /\ UNCHANGED <<accounts, throttle, now>>
    BY <2>1 DEF HandleChangePassword, Begin
  <2> HIDE DEF a
  <2>5. t \in Task
    BY <2>2, <2>3 DEF Task
  <2>6. t.op = "change" /\ t.pc = "hash" /\ t.late = FALSE /\ t.user = i.user /\ t.old = i.old /\ t.password = i.new
    BY <2>3 DEF Task
  <2> HIDE DEF t
  <2>7. TaskOK(t)
    BY <2>2, <2>6 DEF TaskOK, TokenKinds
  <2>8. Legal(r, t)
    BY <2>2, <2>6 DEF Legal
  <2> QED BY <2>4, <2>5, <2>7, <2>8 DEF Moves
<1>7. CASE \E s \in session, i \in UserSaves : HandleUserCreateOrUpdate(r, s, i)
  <2>1. PICK s \in session, i \in UserSaves : HandleUserCreateOrUpdate(r, s, i)
    BY <1>7
  <2>2. s \in Claims /\ i.target \in Users \cup {Null} /\ i.email \in Emails /\ i.authority \in Roles
    BY AccountsInputAssumption DEF AccountTypes
  <2> DEFINE q == IF i.target = Null THEN "insertUser" ELSE "mayEdit"
  <2>9. q \in {"insertUser", "mayEdit"} /\ (q = "mayEdit" => i.target \in Users)
    BY <2>2
  <2>10. q = "insertUser" /\ i.authority = "SYS_ADMIN" => s.authority = "SYS_ADMIN"
    BY <2>1, <2>2 DEF HandleUserCreateOrUpdate, AuthorizeAuthority
  <2> DEFINE a == Asks("user", q)
             t == [a EXCEPT !.caller = s, !.user = i.target, !.email = i.email, !.authority = i.authority]
  <2>3. a \in Task /\ a.op = "user" /\ a.pc = q /\ a.late = FALSE
    <3>1. "user" \in Operations /\ q \in Places
      BY <2>9 DEF Operations, Places, TokenKinds
    <3> HIDE DEF q
    <3> QED BY <3>1, AsksType
  <2>4. Step(r, t) /\ work[r].pc = "idle" /\ UNCHANGED <<accounts, throttle, now>>
    BY <2>1 DEF HandleUserCreateOrUpdate, Begin
  <2> HIDE DEF a, q
  <2>5. t \in Task
    BY <2>2, <2>3 DEF Task
  <2>6. t.op = "user" /\ t.pc = q /\ t.late = FALSE /\ t.caller = s /\ t.user = i.target /\ t.email = i.email /\ t.authority = i.authority
    BY <2>3 DEF Task
  <2> HIDE DEF t
  <2>7. TaskOK(t)
    BY <2>2, <2>6, <2>9, <2>10 DEF TaskOK, TokenKinds
  <2>8. Legal(r, t)
    BY <2>2, <2>6, <2>9 DEF Legal
  <2> QED BY <2>4, <2>5, <2>7, <2>8 DEF Moves
<1>8. CASE \E s \in session, u \in Users : HandleUserDelete(r, s, u)
  <2>1. PICK s \in session, u \in Users : HandleUserDelete(r, s, u)
    BY <1>8
  <2>2. s \in Claims /\ u \in Users
    BY DEF AccountTypes
  <2> DEFINE a == Asks("delete", "mayDelete")
             t == [a EXCEPT !.caller = s, !.user = u]
  <2>3. a \in Task /\ a.op = "delete" /\ a.pc = "mayDelete" /\ a.late = FALSE
    <3>1. "delete" \in Operations /\ "mayDelete" \in Places
      BY DEF Operations, Places, TokenKinds
    <3> QED BY <3>1, AsksType
  <2>4. Step(r, t) /\ work[r].pc = "idle" /\ UNCHANGED <<accounts, throttle, now>>
    BY <2>1 DEF HandleUserDelete, Begin
  <2> HIDE DEF a
  <2>5. t \in Task
    BY <2>2, <2>3 DEF Task
  <2>6. t.op = "delete" /\ t.pc = "mayDelete" /\ t.late = FALSE /\ t.caller = s /\ t.user = u
    BY <2>3 DEF Task
  <2> HIDE DEF t
  <2>7. TaskOK(t)
    BY <2>2, <2>6 DEF TaskOK, TokenKinds
  <2>8. Legal(r, t)
    BY <2>2, <2>6 DEF Legal
  <2> QED BY <2>4, <2>5, <2>7, <2>8 DEF Moves
<1>9. CASE \E i \in Callbacks : HandleCallback(r, i)
  <2>1. PICK i \in Callbacks : HandleCallback(r, i)
    BY <1>9
  <2>2. i.identity \in Identities /\ i.email \in Emails /\ DefaultAuthority \in Roles
    BY AccountsInputAssumption
  <2> DEFINE a == Asks("oidc", "identity")
             t == [a EXCEPT !.identity = i.identity, !.email = i.email, !.authority = DefaultAuthority]
  <2>3. a \in Task /\ a.op = "oidc" /\ a.pc = "identity" /\ a.late = FALSE
    <3>1. "oidc" \in Operations /\ "identity" \in Places
      BY DEF Operations, Places, TokenKinds
    <3> QED BY <3>1, AsksType
  <2>4. Step(r, t) /\ work[r].pc = "idle" /\ UNCHANGED <<accounts, throttle, now>>
    BY <2>1 DEF HandleCallback, Begin
  <2> HIDE DEF a
  <2>5. t \in Task
    BY <2>2, <2>3 DEF Task
  <2>6. t.op = "oidc" /\ t.pc = "identity" /\ t.late = FALSE /\ t.identity = i.identity /\ t.email = i.email /\ t.authority = DefaultAuthority
    BY <2>3 DEF Task
  <2> HIDE DEF t
  <2>7. TaskOK(t)
    BY <2>2, <2>6 DEF TaskOK, TokenKinds
  <2>8. Legal(r, t)
    BY <2>2, <2>6 DEF Legal
  <2> QED BY <2>4, <2>5, <2>7, <2>8 DEF Moves
<1> QED BY <1>1, <1>2, <1>3, <1>4, <1>5, <1>6, <1>7, <1>8, <1>9 DEF AccountRequest

LEMMA FinishMoves ==
  ASSUME NEW r \in AccountRequests, Finish(r)
  PROVE  \E t : Moves(r, t) /\ Legal(r, t)
<1>1. Moves(r, NoTask)
  BY NoTaskType DEF Moves, Finish
<1>2. Legal(r, NoTask)
  BY NoTaskType DEF Legal
<1> QED BY <1>1, <1>2

LEMMA WithUser ==
  ASSUME NEW g \in Task, NEW u \in Users, NEW t, t = [g EXCEPT !.user = u]
  PROVE  /\ t \in Task /\ t.pc = g.pc /\ t.user = u
         /\ t.op = g.op /\ t.email = g.email /\ t.old = g.old /\ t.password = g.password /\ t.ip = g.ip
         /\ t.identity = g.identity /\ t.caller = g.caller /\ t.authority = g.authority /\ t.token = g.token /\ t.found = g.found
         /\ t.late = g.late
BY DEF Task

LEMMA WithFound ==
  ASSUME NEW g \in Task, NEW f \in Claims, NEW t, t = [g EXCEPT !.found = f]
  PROVE  /\ t \in Task /\ t.pc = g.pc /\ t.found = f
         /\ t.op = g.op /\ t.email = g.email /\ t.old = g.old /\ t.password = g.password /\ t.ip = g.ip
         /\ t.identity = g.identity /\ t.caller = g.caller /\ t.authority = g.authority /\ t.token = g.token /\ t.user = g.user
         /\ t.late = g.late
BY DEF Task

LEMMA SessionType == ASSUME AccountTypes, NEW u \in Existing PROVE SessionOf(u) \in Claims
<1>1. user[u] \in UserRow /\ u \in Users
  BY DEF Existing, AccountTypes
<1> QED BY <1>1 DEF SessionOf, Claims, UserRow

LEMMA PlacesAre == \A pc \in {"fail", "success", "session", "writeReset", "setPassword", "changePassword", "insertUser",
                              "updateUser", "insertCredential", "deleteUser", "byEmail", "findCreated", "link"} : pc \in Places
BY DEF Places

(* Every statement of a request takes it from one task to another.         *)
LEMMA StepMoves ==
  ASSUME AccountTypes, NEW r \in AccountRequests, AccountStep(r)
  PROVE  \E t : Moves(r, t) /\ Legal(r, t)
<1>1. CASE RecordFail(r)
  BY <1>1, FinishMoves DEF RecordFail
<1>2. CASE RecordSuccess(r)
  BY <1>2, FinishMoves DEF RecordSuccess
<1>3. CASE IssueTokens(r)
  BY <1>3, FinishMoves DEF IssueTokens
<1>4. CASE WriteResetToken(r)
  BY <1>4, FinishMoves DEF WriteResetToken
<1>5. CASE UpdateUser(r)
  BY <1>5, FinishMoves DEF UpdateUser
<1>6. CASE DeleteUser(r)
  BY <1>6, FinishMoves DEF DeleteUser
<1>7. CASE CredentialFails(r)
  BY <1>7, FinishMoves DEF CredentialFails
<1>8. CASE LinkIdentity(r)
  BY <1>8, FinishMoves DEF LinkIdentity
<1>9. CASE FindUserByEmail(r)
  <2>1. work[r].pc = "lookup"
    BY <1>9 DEF FindUserByEmail
  <2>2. CASE \E u \in {u \in Known : user[u].email = work[r].email /\ credential[u].password # Null} : Step(r, [Goes(r, "success") EXCEPT !.found = SessionOf(u)])
    <3>1. PICK u \in {u \in Known : user[u].email = work[r].email /\ credential[u].password # Null} : Step(r, [Goes(r, "success") EXCEPT !.found = SessionOf(u)])
      BY <2>2
    <3>11. u \in Existing /\ u \in Users /\ SessionOf(u) \in Claims
      BY <3>1, SessionType DEF Known, Existing
    <3> DEFINE g == Goes(r, "success")
               t == [g EXCEPT !.found = SessionOf(u)]
    <3>12. Step(r, t)
      BY <3>1
    <3>13. /\ g \in Task /\ g.pc = "success" /\ TaskOK(work[r])
           /\ g.op = work[r].op /\ g.user = work[r].user /\ g.email = work[r].email /\ g.password = work[r].password
           /\ g.ip = work[r].ip /\ g.identity = work[r].identity /\ g.caller = work[r].caller /\ g.authority = work[r].authority
           /\ g.token = work[r].token /\ g.late = work[r].late /\ g.found = work[r].found
      BY GoesType, PlacesAre
    <3> HIDE DEF g
    <3>14. /\ t \in Task /\ t.pc = "success" /\ t.found = SessionOf(u)
           /\ t.op = work[r].op /\ t.user = work[r].user /\ t.email = work[r].email /\ t.password = work[r].password
           /\ t.ip = work[r].ip /\ t.identity = work[r].identity /\ t.caller = work[r].caller /\ t.authority = work[r].authority
           /\ t.token = work[r].token /\ t.late = work[r].late
      BY <3>11, <3>13, WithFound
    <3> HIDE DEF t
    <3>15. TaskOK(t)
      BY <3>11, <3>13, <3>14, <2>1 DEF TaskOK, TokenKinds
    <3>16. Legal(r, t)
      BY <3>11, <3>13, <3>14, <2>1 DEF Legal
    <3> QED BY <3>12, <3>14, <3>15, <3>16 DEF Moves
  <2>3. CASE Step(r, Goes(r, "fail"))
    <3>11. Step(r, Goes(r, "fail"))
      BY <2>3
    <3> DEFINE t == Goes(r, "fail")
    <3>12. /\ t \in Task /\ t.pc = "fail" /\ TaskOK(work[r])
           /\ t.op = work[r].op /\ t.user = work[r].user /\ t.email = work[r].email /\ t.password = work[r].password
           /\ t.ip = work[r].ip /\ t.identity = work[r].identity /\ t.caller = work[r].caller /\ t.authority = work[r].authority
           /\ t.token = work[r].token /\ t.late = work[r].late /\ t.found = work[r].found
      BY GoesType, PlacesAre
    <3> HIDE DEF t
    <3>13. TaskOK(t)
      BY <3>12, <2>1 DEF TaskOK, TokenKinds
    <3>14. Legal(r, t)
      BY <3>12, <2>1 DEF Legal
    <3> QED BY <3>11, <3>12, <3>13, <3>14 DEF Moves, t
  <2> QED BY <1>9, <2>2, <2>3 DEF FindUserByEmail, Reads, Finish
<1>10. CASE FindForgetful(r)
  <2>1. work[r].pc = "findForgetful"
    BY <1>10 DEF FindForgetful
  <2>2. CASE Finish(r)
    BY <2>2, FinishMoves
  <2>3. CASE \E u \in {u \in Known : user[u].email = work[r].email /\ credential[u].password # Null} : Step(r, [Goes(r, "writeReset") EXCEPT !.user = u])
    <3>1. PICK u \in {u \in Known : user[u].email = work[r].email /\ credential[u].password # Null} : Step(r, [Goes(r, "writeReset") EXCEPT !.user = u])
      BY <2>3
    <3>11. u \in Users
      BY <3>1 DEF Known, Existing
    <3> DEFINE g == Goes(r, "writeReset")
               t == [g EXCEPT !.user = u]
    <3>12. Step(r, t)
      BY <3>1
    <3>13. /\ g \in Task /\ g.pc = "writeReset" /\ TaskOK(work[r])
           /\ g.op = work[r].op /\ g.user = work[r].user /\ g.email = work[r].email /\ g.password = work[r].password
           /\ g.ip = work[r].ip /\ g.identity = work[r].identity /\ g.caller = work[r].caller /\ g.authority = work[r].authority
           /\ g.token = work[r].token /\ g.late = work[r].late /\ g.found = work[r].found
      BY GoesType, PlacesAre
    <3> HIDE DEF g
    <3>14. /\ t \in Task /\ t.pc = "writeReset" /\ t.user = u
           /\ t.op = work[r].op /\ t.email = work[r].email /\ t.password = work[r].password /\ t.ip = work[r].ip
           /\ t.identity = work[r].identity /\ t.caller = work[r].caller /\ t.authority = work[r].authority /\ t.token = work[r].token
           /\ t.late = work[r].late /\ t.found = work[r].found
      BY <3>11, <3>13, WithUser
    <3> HIDE DEF t
    <3>15. TaskOK(t)
      BY <3>11, <3>13, <3>14, <2>1 DEF TaskOK, TokenKinds
    <3>16. Legal(r, t)
      BY <3>11, <3>13, <3>14, <2>1 DEF Legal
    <3> QED BY <3>12, <3>14, <3>15, <3>16 DEF Moves
  <2> QED BY <1>10, <2>2, <2>3 DEF FindForgetful, Reads, Finish
<1>11. CASE SelectToken(r)
  <2>1. work[r].pc = "token"
    BY <1>11 DEF SelectToken
  <2>2. CASE Finish(r)
    BY <2>2, FinishMoves
  <2>3. CASE \E u \in Holders(r) : Step(r, [Goes(r, "setPassword") EXCEPT !.user = u, !.late = work[r].token \in used])
    <3>1. PICK u \in Holders(r) : Step(r, [Goes(r, "setPassword") EXCEPT !.user = u, !.late = work[r].token \in used])
      BY <2>3
    <3>11. u \in Users /\ u \in Holders(r) /\ (work[r].token \in used) \in BOOLEAN
      BY <3>1 DEF Holders
    <3> DEFINE g == Goes(r, "setPassword")
               t == [g EXCEPT !.user = u, !.late = (work[r].token \in used)]
    <3>12. Step(r, t)
      BY <3>1
    <3>13. /\ g \in Task /\ g.pc = "setPassword" /\ TaskOK(work[r])
           /\ g.op = work[r].op /\ g.user = work[r].user /\ g.email = work[r].email /\ g.password = work[r].password
           /\ g.ip = work[r].ip /\ g.identity = work[r].identity /\ g.caller = work[r].caller /\ g.authority = work[r].authority
           /\ g.token = work[r].token /\ g.late = work[r].late /\ g.found = work[r].found
      BY GoesType, PlacesAre
    <3> HIDE DEF g
    <3>14. /\ t \in Task /\ t.pc = "setPassword" /\ t.user = u /\ t.late = (work[r].token \in used)
           /\ t.op = work[r].op /\ t.email = work[r].email /\ t.password = work[r].password /\ t.ip = work[r].ip
           /\ t.identity = work[r].identity /\ t.caller = work[r].caller /\ t.authority = work[r].authority /\ t.token = work[r].token
           /\ t.found = work[r].found
      <4> DEFINE x == (work[r].token \in used)
      <4>1. u \in Users /\ x \in BOOLEAN /\ t = [g EXCEPT !.user = u, !.late = x]
        BY <3>11
      <4> HIDE DEF x, t
      <4>2. t \in Task /\ t.pc = g.pc /\ t.user = u /\ t.late = x
        BY <3>13, <4>1 DEF Task
      <4>3. t.op = g.op /\ t.email = g.email /\ t.password = g.password /\ t.ip = g.ip /\ t.identity = g.identity
           /\ t.caller = g.caller /\ t.authority = g.authority /\ t.token = g.token /\ t.found = g.found
        BY <3>13, <4>1 DEF Task
      <4> QED BY <3>13, <4>2, <4>3 DEF x
    <3> HIDE DEF t
    <3>15. TaskOK(t)
      BY <3>11, <3>13, <3>14, <2>1 DEF TaskOK, TokenKinds
    <3>16. Legal(r, t)
      BY <3>11, <3>13, <3>14, <2>1 DEF Legal
    <3> QED BY <3>12, <3>14, <3>15, <3>16 DEF Moves
  <2> QED BY <1>11, <2>2, <2>3 DEF SelectToken, Reads, Finish
<1>12. CASE UseToken(r)
  <2>1. work[r].pc = "setPassword"
    BY <1>12 DEF UseToken
  <2>2. CASE Step(r, Goes(r, "session"))
    <3>11. Step(r, Goes(r, "session"))
      BY <2>2
    <3> DEFINE t == Goes(r, "session")
    <3>12. /\ t \in Task /\ t.pc = "session" /\ TaskOK(work[r])
           /\ t.op = work[r].op /\ t.user = work[r].user /\ t.email = work[r].email /\ t.password = work[r].password
           /\ t.ip = work[r].ip /\ t.identity = work[r].identity /\ t.caller = work[r].caller /\ t.authority = work[r].authority
           /\ t.token = work[r].token /\ t.late = work[r].late /\ t.found = work[r].found
      BY GoesType, PlacesAre
    <3> HIDE DEF t
    <3>13. TaskOK(t)
      BY <3>12, <2>1 DEF TaskOK, TokenKinds
    <3>14. Legal(r, t)
      BY <3>12, <2>1 DEF Legal
    <3> QED BY <3>11, <3>12, <3>13, <3>14 DEF Moves, t
  <2> QED BY <1>12, <2>2 DEF UseToken, Reads, Finish
<1>13. CASE SelectHash(r)
  <2>1. work[r].pc = "hash"
    BY <1>13 DEF SelectHash
  <2>2. CASE Finish(r)
    BY <2>2, FinishMoves
  <2>3. CASE Step(r, Goes(r, "changePassword"))
    <3>11. Step(r, Goes(r, "changePassword"))
      BY <2>3
    <3> DEFINE t == Goes(r, "changePassword")
    <3>12. /\ t \in Task /\ t.pc = "changePassword" /\ TaskOK(work[r])
           /\ t.op = work[r].op /\ t.user = work[r].user /\ t.email = work[r].email /\ t.password = work[r].password
           /\ t.ip = work[r].ip /\ t.identity = work[r].identity /\ t.caller = work[r].caller /\ t.authority = work[r].authority
           /\ t.token = work[r].token /\ t.late = work[r].late /\ t.found = work[r].found
      BY GoesType, PlacesAre
    <3> HIDE DEF t
    <3>13. TaskOK(t)
      BY <3>12, <2>1 DEF TaskOK, TokenKinds
    <3>14. Legal(r, t)
      BY <3>12, <2>1 DEF Legal
    <3> QED BY <3>11, <3>12, <3>13, <3>14 DEF Moves, t
  <2> QED BY <1>13, <2>2, <2>3 DEF SelectHash, Reads, Finish
<1>14. CASE UpdatePassword(r)
  <2>1. work[r].pc = "changePassword"
    BY <1>14 DEF UpdatePassword
  <2>2. CASE Step(r, Goes(r, "session"))
    <3>11. Step(r, Goes(r, "session"))
      BY <2>2
    <3> DEFINE t == Goes(r, "session")
    <3>12. /\ t \in Task /\ t.pc = "session" /\ TaskOK(work[r])
           /\ t.op = work[r].op /\ t.user = work[r].user /\ t.email = work[r].email /\ t.password = work[r].password
           /\ t.ip = work[r].ip /\ t.identity = work[r].identity /\ t.caller = work[r].caller /\ t.authority = work[r].authority
           /\ t.token = work[r].token /\ t.late = work[r].late /\ t.found = work[r].found
      BY GoesType, PlacesAre
    <3> HIDE DEF t
    <3>13. TaskOK(t)
      BY <3>12, <2>1 DEF TaskOK, TokenKinds
    <3>14. Legal(r, t)
      BY <3>12, <2>1 DEF Legal
    <3> QED BY <3>11, <3>12, <3>13, <3>14 DEF Moves, t
  <2> QED BY <1>14, <2>2 DEF UpdatePassword, Reads, Finish
<1>15. CASE CheckEdit(r)
  <2>1. work[r].pc = "mayEdit"
    BY <1>15 DEF CheckEdit
  <2>2. CASE Finish(r)
    BY <2>2, FinishMoves
  <2>3. CASE Step(r, Goes(r, "updateUser")) /\ ~Finish(r)
    <3>1. /\ work[r].user \in Existing
          /\ AuthorizeAuthority(work[r].caller, work[r].authority, user[work[r].user].tenant,
               work[r].user = work[r].caller.user, work[r].authority # user[work[r].user].authority)
      BY <1>15, <2>3 DEF CheckEdit, Reads, Finish
    <3>2. work[r].authority = "SYS_ADMIN" /\ work[r].caller.authority # "SYS_ADMIN" =>
            user[work[r].user].authority = "SYS_ADMIN"
      BY <3>1 DEF AuthorizeAuthority
    <3>11. Step(r, Goes(r, "updateUser"))
      BY <2>3
    <3> DEFINE t == Goes(r, "updateUser")
    <3>12. /\ t \in Task /\ t.pc = "updateUser" /\ TaskOK(work[r])
           /\ t.op = work[r].op /\ t.user = work[r].user /\ t.email = work[r].email /\ t.password = work[r].password
           /\ t.ip = work[r].ip /\ t.identity = work[r].identity /\ t.caller = work[r].caller /\ t.authority = work[r].authority
           /\ t.token = work[r].token /\ t.late = work[r].late /\ t.found = work[r].found
      BY GoesType, PlacesAre
    <3> HIDE DEF t
    <3>13. TaskOK(t)
      BY <3>12, <2>1 DEF TaskOK, TokenKinds
    <3>14. Legal(r, t)
      BY <3>12, <2>1, <3>1, <3>2 DEF Legal
    <3> QED BY <3>11, <3>12, <3>13, <3>14 DEF Moves, t
  <2> QED BY <1>15, <2>2, <2>3 DEF CheckEdit, Reads, Finish
<1>16. CASE InsertUser(r)
  <2>1. work[r].pc = "insertUser"
    BY <1>16 DEF InsertUser
  <2>2. CASE Finish(r)
    BY <2>2, FinishMoves
  <2>3. CASE \E u \in Users : Step(r, [Goes(r, "insertCredential") EXCEPT !.user = u])
    <3>1. PICK u \in Users : Step(r, [Goes(r, "insertCredential") EXCEPT !.user = u])
      BY <2>3
    <3>11. u \in Users
      BY <3>1
    <3> DEFINE g == Goes(r, "insertCredential")
               t == [g EXCEPT !.user = u]
    <3>12. Step(r, t)
      BY <3>1
    <3>13. /\ g \in Task /\ g.pc = "insertCredential" /\ TaskOK(work[r])
           /\ g.op = work[r].op /\ g.user = work[r].user /\ g.email = work[r].email /\ g.password = work[r].password
           /\ g.ip = work[r].ip /\ g.identity = work[r].identity /\ g.caller = work[r].caller /\ g.authority = work[r].authority
           /\ g.token = work[r].token /\ g.late = work[r].late /\ g.found = work[r].found
      BY GoesType, PlacesAre
    <3> HIDE DEF g
    <3>14. /\ t \in Task /\ t.pc = "insertCredential" /\ t.user = u
           /\ t.op = work[r].op /\ t.email = work[r].email /\ t.password = work[r].password /\ t.ip = work[r].ip
           /\ t.identity = work[r].identity /\ t.caller = work[r].caller /\ t.authority = work[r].authority /\ t.token = work[r].token
           /\ t.late = work[r].late /\ t.found = work[r].found
      BY <3>11, <3>13, WithUser
    <3> HIDE DEF t
    <3>15. TaskOK(t)
      BY <3>11, <3>13, <3>14, <2>1 DEF TaskOK, TokenKinds
    <3>16. Legal(r, t)
      BY <3>11, <3>13, <3>14, <2>1 DEF Legal
    <3> QED BY <3>12, <3>14, <3>15, <3>16 DEF Moves
  <2> DEFINE free == {u \in Users : user[u] = Null /\ credential[u] = Null /\ \A x \in AccountRequests : work[x].user # u}
  <2>4. free # {} => (CHOOSE x \in free : TRUE) \in Users
    OBVIOUS
  <2> QED BY <1>16, <2>2, <2>3, <2>4 DEF InsertUser, Finish
<1>17. CASE InsertCredential(r)
  <2>1. work[r].pc = "insertCredential"
    BY <1>17 DEF InsertCredential
  <2>2. CASE Finish(r)
    BY <2>2, FinishMoves
  <2>3. CASE Step(r, Goes(r, "findCreated")) /\ work[r].op # "user"
    <3>11. Step(r, Goes(r, "findCreated"))
      BY <2>3
    <3> DEFINE t == Goes(r, "findCreated")
    <3>12. /\ t \in Task /\ t.pc = "findCreated" /\ TaskOK(work[r])
           /\ t.op = work[r].op /\ t.user = work[r].user /\ t.email = work[r].email /\ t.password = work[r].password
           /\ t.ip = work[r].ip /\ t.identity = work[r].identity /\ t.caller = work[r].caller /\ t.authority = work[r].authority
           /\ t.token = work[r].token /\ t.late = work[r].late /\ t.found = work[r].found
      BY GoesType, PlacesAre
    <3> HIDE DEF t
    <3>13. TaskOK(t)
      BY <3>12, <2>1, <2>3 DEF TaskOK, TokenKinds
    <3>14. Legal(r, t)
      BY <3>12, <2>1, <2>3 DEF Legal
    <3> QED BY <3>11, <3>12, <3>13, <3>14 DEF Moves, t
  <2> QED BY <1>17, <2>2, <2>3 DEF InsertCredential, Reads, Finish
<1>18. CASE CheckDelete(r)
  <2>1. work[r].pc = "mayDelete"
    BY <1>18 DEF CheckDelete
  <2>2. CASE Finish(r)
    BY <2>2, FinishMoves
  <2>3. CASE Step(r, Goes(r, "deleteUser"))
    <3>11. Step(r, Goes(r, "deleteUser"))
      BY <2>3
    <3> DEFINE t == Goes(r, "deleteUser")
    <3>12. /\ t \in Task /\ t.pc = "deleteUser" /\ TaskOK(work[r])
           /\ t.op = work[r].op /\ t.user = work[r].user /\ t.email = work[r].email /\ t.password = work[r].password
           /\ t.ip = work[r].ip /\ t.identity = work[r].identity /\ t.caller = work[r].caller /\ t.authority = work[r].authority
           /\ t.token = work[r].token /\ t.late = work[r].late /\ t.found = work[r].found
      BY GoesType, PlacesAre
    <3> HIDE DEF t
    <3>13. TaskOK(t)
      BY <3>12, <2>1 DEF TaskOK, TokenKinds
    <3>14. Legal(r, t)
      BY <3>12, <2>1 DEF Legal
    <3> QED BY <3>11, <3>12, <3>13, <3>14 DEF Moves, t
  <2> QED BY <1>18, <2>2, <2>3 DEF CheckDelete, Reads, Finish
<1>19. CASE FindIdentity(r)
  <2>1. work[r].pc = "identity"
    BY <1>19 DEF FindIdentity
  <2>2. CASE Step(r, [Goes(r, "session") EXCEPT !.user = identity[work[r].identity]]) /\ identity[work[r].identity] # Null
    <3>11. identity[work[r].identity] \in Users
      BY <2>1, <2>2 DEF AccountTypes, TaskOK
    <3> DEFINE g == Goes(r, "session")
               t == [g EXCEPT !.user = identity[work[r].identity]]
    <3>12. Step(r, t)
      BY <2>2
    <3>13. /\ g \in Task /\ g.pc = "session" /\ TaskOK(work[r])
           /\ g.op = work[r].op /\ g.user = work[r].user /\ g.email = work[r].email /\ g.password = work[r].password
           /\ g.ip = work[r].ip /\ g.identity = work[r].identity /\ g.caller = work[r].caller /\ g.authority = work[r].authority
           /\ g.token = work[r].token /\ g.late = work[r].late /\ g.found = work[r].found
      BY GoesType, PlacesAre
    <3> HIDE DEF g
    <3>14. /\ t \in Task /\ t.pc = "session" /\ t.user = identity[work[r].identity]
           /\ t.op = work[r].op /\ t.email = work[r].email /\ t.password = work[r].password /\ t.ip = work[r].ip
           /\ t.identity = work[r].identity /\ t.caller = work[r].caller /\ t.authority = work[r].authority /\ t.token = work[r].token
           /\ t.late = work[r].late /\ t.found = work[r].found
      BY <3>11, <3>13, WithUser
    <3> HIDE DEF t
    <3>15. TaskOK(t)
      BY <3>11, <3>13, <3>14, <2>1 DEF TaskOK, TokenKinds
    <3>16. Legal(r, t)
      BY <3>11, <3>13, <3>14, <2>1 DEF Legal
    <3> QED BY <3>12, <3>14, <3>15, <3>16 DEF Moves
  <2>3. CASE Step(r, Goes(r, "byEmail"))
    <3>11. Step(r, Goes(r, "byEmail"))
      BY <2>3
    <3> DEFINE t == Goes(r, "byEmail")
    <3>12. /\ t \in Task /\ t.pc = "byEmail" /\ TaskOK(work[r])
           /\ t.op = work[r].op /\ t.user = work[r].user /\ t.email = work[r].email /\ t.password = work[r].password
           /\ t.ip = work[r].ip /\ t.identity = work[r].identity /\ t.caller = work[r].caller /\ t.authority = work[r].authority
           /\ t.token = work[r].token /\ t.late = work[r].late /\ t.found = work[r].found
      BY GoesType, PlacesAre
    <3> HIDE DEF t
    <3>13. TaskOK(t)
      BY <3>12, <2>1 DEF TaskOK, TokenKinds
    <3>14. Legal(r, t)
      BY <3>12, <2>1 DEF Legal
    <3> QED BY <3>11, <3>12, <3>13, <3>14 DEF Moves, t
  <2> QED BY <1>19, <2>2, <2>3 DEF FindIdentity, Reads, Finish
<1>20. CASE FindByEmail(r)
  <2>1. work[r].pc = "byEmail"
    BY <1>20 DEF FindByEmail
  <2>2. CASE Step(r, Goes(r, "insertUser"))
    <3>11. Step(r, Goes(r, "insertUser"))
      BY <2>2
    <3> DEFINE t == Goes(r, "insertUser")
    <3>12. /\ t \in Task /\ t.pc = "insertUser" /\ TaskOK(work[r])
           /\ t.op = work[r].op /\ t.user = work[r].user /\ t.email = work[r].email /\ t.password = work[r].password
           /\ t.ip = work[r].ip /\ t.identity = work[r].identity /\ t.caller = work[r].caller /\ t.authority = work[r].authority
           /\ t.token = work[r].token /\ t.late = work[r].late /\ t.found = work[r].found
      BY GoesType, PlacesAre
    <3> HIDE DEF t
    <3>13. TaskOK(t)
      BY <3>12, <2>1 DEF TaskOK, TokenKinds
    <3>14. Legal(r, t)
      BY <3>12, <2>1 DEF Legal
    <3> QED BY <3>11, <3>12, <3>13, <3>14 DEF Moves, t
  <2>3. CASE \E u \in {u \in Known : user[u].email = work[r].email /\ credential[u].password # Null} : Step(r, [Goes(r, "link") EXCEPT !.user = u, !.found = SessionOf(u)])
    <3>1. PICK u \in {u \in Known : user[u].email = work[r].email /\ credential[u].password # Null} : Step(r, [Goes(r, "link") EXCEPT !.user = u, !.found = SessionOf(u)])
      BY <2>3
    <3>11. u \in Existing /\ u \in Users /\ SessionOf(u) \in Claims
      BY <3>1, SessionType DEF Known, Existing
    <3> DEFINE g == Goes(r, "link")
               t == [g EXCEPT !.user = u, !.found = SessionOf(u)]
    <3>12. Step(r, t)
      BY <3>1
    <3>13. /\ g \in Task /\ g.pc = "link" /\ TaskOK(work[r])
           /\ g.op = work[r].op /\ g.user = work[r].user /\ g.email = work[r].email /\ g.password = work[r].password
           /\ g.ip = work[r].ip /\ g.identity = work[r].identity /\ g.caller = work[r].caller /\ g.authority = work[r].authority
           /\ g.token = work[r].token /\ g.late = work[r].late /\ g.found = work[r].found
      BY GoesType, PlacesAre
    <3> HIDE DEF g
    <3>14. /\ t \in Task /\ t.pc = "link" /\ t.user = u /\ t.found = SessionOf(u)
           /\ t.op = work[r].op /\ t.email = work[r].email /\ t.password = work[r].password /\ t.ip = work[r].ip
           /\ t.identity = work[r].identity /\ t.caller = work[r].caller /\ t.authority = work[r].authority /\ t.token = work[r].token
           /\ t.late = work[r].late
      <4> DEFINE x == SessionOf(u)
      <4>1. u \in Users /\ x \in Claims /\ t = [g EXCEPT !.user = u, !.found = x]
        BY <3>11
      <4> HIDE DEF x, t
      <4>2. t \in Task /\ t.pc = g.pc /\ t.user = u /\ t.found = x
        BY <3>13, <4>1 DEF Task
      <4>3. t.op = g.op /\ t.email = g.email /\ t.password = g.password /\ t.ip = g.ip /\ t.identity = g.identity
           /\ t.caller = g.caller /\ t.authority = g.authority /\ t.token = g.token /\ t.late = g.late
        BY <3>13, <4>1 DEF Task
      <4> QED BY <3>13, <4>2, <4>3 DEF x
    <3> HIDE DEF t
    <3>15. TaskOK(t)
      BY <3>11, <3>13, <3>14, <2>1 DEF TaskOK, TokenKinds
    <3>16. Legal(r, t)
      BY <3>11, <3>13, <3>14, <2>1 DEF Legal
    <3> QED BY <3>12, <3>14, <3>15, <3>16 DEF Moves
  <2> QED BY <1>20, <2>2, <2>3 DEF FindByEmail, Reads, Finish
<1>21. CASE FindCreated(r)
  <2>1. work[r].pc = "findCreated"
    BY <1>21 DEF FindCreated
  <2>2. CASE Finish(r)
    BY <2>2, FinishMoves
  <2>3. CASE Step(r, [Goes(r, "link") EXCEPT !.found = SessionOf(work[r].user)]) /\ work[r].user \in Known
    <3>11. SessionOf(work[r].user) \in Claims
      BY <2>3, SessionType DEF Known
    <3> DEFINE g == Goes(r, "link")
               t == [g EXCEPT !.found = SessionOf(work[r].user)]
    <3>12. Step(r, t)
      BY <2>3
    <3>13. /\ g \in Task /\ g.pc = "link" /\ TaskOK(work[r])
           /\ g.op = work[r].op /\ g.user = work[r].user /\ g.email = work[r].email /\ g.password = work[r].password
           /\ g.ip = work[r].ip /\ g.identity = work[r].identity /\ g.caller = work[r].caller /\ g.authority = work[r].authority
           /\ g.token = work[r].token /\ g.late = work[r].late /\ g.found = work[r].found
      BY GoesType, PlacesAre
    <3> HIDE DEF g
    <3>14. /\ t \in Task /\ t.pc = "link" /\ t.found = SessionOf(work[r].user)
           /\ t.op = work[r].op /\ t.user = work[r].user /\ t.email = work[r].email /\ t.password = work[r].password
           /\ t.ip = work[r].ip /\ t.identity = work[r].identity /\ t.caller = work[r].caller /\ t.authority = work[r].authority
           /\ t.token = work[r].token /\ t.late = work[r].late
      BY <3>11, <3>13, WithFound
    <3> HIDE DEF t
    <3>15. TaskOK(t)
      BY <3>11, <3>13, <3>14, <2>1 DEF TaskOK, TokenKinds
    <3>16. Legal(r, t)
      BY <3>11, <3>13, <3>14, <2>1 DEF Legal
    <3> QED BY <3>12, <3>14, <3>15, <3>16 DEF Moves
  <2> QED BY <1>21, <2>2, <2>3 DEF FindCreated, Reads, Finish
<1> QED BY <1>1, <1>2, <1>3, <1>4, <1>5, <1>6, <1>7, <1>8, <1>9, <1>10, <1>11, <1>12, <1>13, <1>14, <1>15, <1>16, <1>17, <1>18, <1>19, <1>20, <1>21 DEF AccountStep

LEMMA MovesType ==
  ASSUME AccountTypes, NEW r \in AccountRequests, NEW t, Moves(r, t), Legal(r, t),
         issued' \in Nat, issued' >= issued
  PROVE  /\ work' \in [AccountRequests -> Task]
         /\ work'[r] = t /\ \A x \in AccountRequests \ {r} : work'[x] = work[x]
         /\ \A x \in AccountRequests : TaskOK(work'[x])
         /\ \A x \in AccountRequests :
              work'[x].pc \in {"token", "setPassword"} => work'[x].token \in 1..issued'
<1>1. work' = [work EXCEPT ![r] = t] /\ t \in Task /\ TaskOK(t) /\ work \in [AccountRequests -> Task]
  BY DEF Moves, Step, AccountTypes
<1>2. work' \in [AccountRequests -> Task] /\ work'[r] = t /\ \A x \in AccountRequests \ {r} : work'[x] = work[x]
  BY <1>1
<1>3. \A x \in AccountRequests : TaskOK(work[x])
  BY DEF AccountTypes
<1>4. \A x \in AccountRequests : TaskOK(work'[x])
  <2> TAKE x \in AccountRequests
  <2>1. CASE x = r
    BY <1>1, <1>2, <2>1
  <2>2. CASE x # r
    BY <1>2, <1>3, <2>2
  <2> QED BY <2>1, <2>2
<1>5. ASSUME NEW x \in AccountRequests, work'[x].pc \in {"token", "setPassword"}
      PROVE  work'[x].token \in 1..issued'
  <2>1. issued \in Nat /\ \A n \in 1..issued : n \in 1..issued'
    BY DEF AccountTypes
  <2>2. CASE x = r
    <3>1. t.token \in 1..issued
      BY <1>2, <1>5, <2>2 DEF Legal, AccountTypes
    <3> QED BY <1>2, <2>1, <2>2, <3>1
  <2>3. CASE x # r
    <3>1. work[x].token \in 1..issued
      BY <1>2, <1>5, <2>3 DEF AccountTypes
    <3> QED BY <1>2, <2>1, <2>3, <3>1
  <2> QED BY <2>2, <2>3
<1> QED BY <1>2, <1>4, <1>5

TableTypes ==
  /\ user \in [Users -> UserRow \cup {Null}]
  /\ credential \in [Users -> UserCredential \cup {Null}]
  /\ identity \in [Identities -> Users \cup {Null}]
  /\ session \subseteq Claims
  /\ counter \in [Addresses -> Counter \cup {Null}]
  /\ guessed \in [Addresses -> [distinct : SUBSET (Emails \X Passwords), attempts : Nat]]
  /\ issued \in Nat /\ now \in Nat /\ used \subseteq 1..issued

LEMMA TokenType == ASSUME AccountTypes PROVE NewToken \in UserToken /\ NewToken.n = issued + 1
BY AccountsAssumption DEF AccountTypes, NewToken, UserToken

\* An UPDATE writes a row or finds none.
LEMMA UpdatesRow ==
  ASSUME AccountTypes, NEW u \in Users, NEW row, UpdateCredential(u, row),
         credential[u] # Null => row \in UserCredential
  PROVE  /\ credential' \in [Users -> UserCredential \cup {Null}]
         /\ \A x \in Users \ {u} : credential'[x] = credential[x]
         /\ credential[u] # Null => credential'[u] = row
         /\ credential[u] = Null => credential'[u] = Null
<1>1. credential \in [Users -> UserCredential \cup {Null}]
  BY DEF AccountTypes
<1>2. CASE credential[u] = Null
  BY <1>1, <1>2 DEF UpdateCredential
<1>3. CASE credential[u] # Null
  BY <1>1, <1>3 DEF UpdateCredential
<1> QED BY <1>2, <1>3

\* The rows that statements write.
LEMMA RowsWritten ==
  ASSUME AccountTypes, NEW r \in AccountRequests, NEW u \in Users, credential[u] # Null
  PROVE  /\ LET q == [credential[u] EXCEPT !.reset = NewToken]
            IN q \in UserCredential /\ q.reset = NewToken /\ q.activate = credential[u].activate
         /\ work[r].password \in Passwords =>
              LET q == [credential[u] EXCEPT !.password = work[r].password, !.reset = Null]
              IN q \in UserCredential /\ q.reset = Null /\ q.activate = credential[u].activate
         /\ work[r].password \in Passwords =>
              /\ ResetWrites(r, credential[u]) \in UserCredential
              /\ ResetWrites(r, credential[u]).reset = Null /\ ResetWrites(r, credential[u]).activate = Null
         /\ work[r].password \in Passwords =>
              /\ ActivateWrites(r, credential[u]) \in UserCredential
              /\ ActivateWrites(r, credential[u]).reset = credential[u].reset
              /\ ActivateWrites(r, credential[u]).activate = Null
<1> DEFINE c == credential[u]
           p == work[r].password
<1>1. c \in UserCredential
  BY DEF AccountTypes
<1>2. NewToken \in UserToken
  BY TokenType
<1> HIDE DEF c, p
<1>3. LET q == [c EXCEPT !.reset = NewToken]
      IN q \in UserCredential /\ q.reset = NewToken /\ q.activate = c.activate
  BY <1>1, <1>2 DEF UserCredential
<1>4. p \in Passwords =>
        LET q == [c EXCEPT !.password = p, !.reset = Null]
        IN q \in UserCredential /\ q.reset = Null /\ q.activate = c.activate
  BY <1>1 DEF UserCredential
<1>5. p \in Passwords =>
        LET q == [c EXCEPT !.password = p, !.enabled = TRUE, !.reset = Null, !.activate = Null]
        IN q \in UserCredential /\ q.reset = Null /\ q.activate = Null
  BY <1>1 DEF UserCredential
<1>6. p \in Passwords =>
        LET q == [c EXCEPT !.password = p, !.enabled = TRUE, !.activate = Null]
        IN q \in UserCredential /\ q.reset = c.reset /\ q.activate = Null
  BY <1>1 DEF UserCredential
<1> QED BY <1>3, <1>4, <1>5, <1>6 DEF c, p, ResetWrites, ActivateWrites

LEMMA StepTables ==
  ASSUME AccountTypes, NEW r \in AccountRequests, AccountStep(r)
  PROVE  TableTypes' /\ issued' >= issued
<1>0. TableTypes /\ work[r] \in Task /\ TaskOK(work[r]) /\ issued \in Nat /\ issued >= issued
  BY DEF AccountTypes, TableTypes
<1> DEFINE w == work[r]
<1>1. CASE FindUserByEmail(r)
  <2>1. UNCHANGED <<accounts, throttle, now>>
    BY <1>1 DEF FindUserByEmail, Reads
  <2> QED BY <1>0, <2>1 DEF accounts, throttle, TableTypes
<1>2. CASE FindForgetful(r)
  <2>1. UNCHANGED <<accounts, throttle, now>>
    BY <1>2 DEF FindForgetful, Reads
  <2> QED BY <1>0, <2>1 DEF accounts, throttle, TableTypes
<1>3. CASE SelectToken(r)
  <2>1. UNCHANGED <<accounts, throttle, now>>
    BY <1>3 DEF SelectToken, Reads
  <2> QED BY <1>0, <2>1 DEF accounts, throttle, TableTypes
<1>4. CASE SelectHash(r)
  <2>1. UNCHANGED <<accounts, throttle, now>>
    BY <1>4 DEF SelectHash, Reads
  <2> QED BY <1>0, <2>1 DEF accounts, throttle, TableTypes
<1>5. CASE CheckEdit(r)
  <2>1. UNCHANGED <<accounts, throttle, now>>
    BY <1>5 DEF CheckEdit, Reads
  <2> QED BY <1>0, <2>1 DEF accounts, throttle, TableTypes
<1>6. CASE CheckDelete(r)
  <2>1. UNCHANGED <<accounts, throttle, now>>
    BY <1>6 DEF CheckDelete, Reads
  <2> QED BY <1>0, <2>1 DEF accounts, throttle, TableTypes
<1>7. CASE FindIdentity(r)
  <2>1. UNCHANGED <<accounts, throttle, now>>
    BY <1>7 DEF FindIdentity, Reads
  <2> QED BY <1>0, <2>1 DEF accounts, throttle, TableTypes
<1>8. CASE FindByEmail(r)
  <2>1. UNCHANGED <<accounts, throttle, now>>
    BY <1>8 DEF FindByEmail, Reads
  <2> QED BY <1>0, <2>1 DEF accounts, throttle, TableTypes
<1>9. CASE FindCreated(r)
  <2>1. UNCHANGED <<accounts, throttle, now>>
    BY <1>9 DEF FindCreated, Reads
  <2> QED BY <1>0, <2>1 DEF accounts, throttle, TableTypes
<1>10. CASE CredentialFails(r)
  <2>1. UNCHANGED <<accounts, throttle, now>>
    BY <1>10 DEF CredentialFails, Reads
  <2> QED BY <1>0, <2>1 DEF accounts, throttle, TableTypes
<1>11. CASE RecordFail(r)
  <2> DEFINE ip == w.ip
             pair == <<w.email, w.password>>
             c == IF Current(ip) THEN counter[ip] ELSE [distinct |-> {}, attempts |-> 0, first |-> now]
             g == IF Current(ip) THEN guessed[ip] ELSE [distinct |-> {}, attempts |-> 0]
             d == IF Cardinality(c.distinct) >= MaxFails THEN c.distinct ELSE c.distinct \cup {pair}
  <2>1. ip \in Addresses /\ pair \in Emails \X Passwords
    BY <1>0, <1>11 DEF RecordFail, TaskOK
  <2>2. c \in Counter /\ g \in [distinct : SUBSET (Emails \X Passwords), attempts : Nat]
    BY <1>0, <2>1 DEF Current, TableTypes, Counter
  <2>3. /\ counter' = [counter EXCEPT ![ip] = [c EXCEPT !.attempts = c.attempts + 1, !.distinct = d]]
        /\ guessed' = [guessed EXCEPT ![ip] = [distinct |-> g.distinct \cup {pair}, attempts |-> g.attempts + 1]]
        /\ UNCHANGED <<accounts, now>>
    BY <1>11 DEF RecordFail
  <2> HIDE DEF ip, pair, c, g
  <2>4. d \in SUBSET (Emails \X Passwords)
    BY <2>1, <2>2 DEF Counter
  <2> HIDE DEF d
  <2>5. [c EXCEPT !.attempts = c.attempts + 1, !.distinct = d] \in Counter
    <3> DEFINE m == c.attempts + 1
               X == SUBSET (Emails \X Passwords)
    <3>1. m \in Nat /\ d \in X /\ c \in [distinct : X, attempts : Nat, first : Nat]
      BY <2>2, <2>4 DEF Counter
    <3> HIDE DEF m, X
    <3>2. [c EXCEPT !.attempts = m, !.distinct = d] \in [distinct : X, attempts : Nat, first : Nat]
      BY <3>1
    <3> QED BY <3>2 DEF m, X, Counter
  <2>6. [distinct |-> g.distinct \cup {pair}, attempts |-> g.attempts + 1]
          \in [distinct : SUBSET (Emails \X Passwords), attempts : Nat]
    BY <2>1, <2>2
  <2>7. counter' \in [Addresses -> Counter \cup {Null}]
    BY <1>0, <2>3, <2>5 DEF TableTypes
  <2>8. guessed' \in [Addresses -> [distinct : SUBSET (Emails \X Passwords), attempts : Nat]]
    BY <1>0, <2>3, <2>6 DEF TableTypes
  <2> QED BY <1>0, <2>3, <2>7, <2>8 DEF TableTypes, accounts
<1>12. CASE RecordSuccess(r)
  <2>1. w.found \in Claims
    BY <1>0, <1>12 DEF RecordSuccess, TaskOK
  <2> QED BY <1>0, <1>12, <2>1 DEF RecordSuccess, TableTypes
<1>13. CASE IssueTokens(r)
  <2>1. w.user \in Known => SessionOf(w.user) \in Claims
    BY SessionType DEF Known
  <2> QED BY <1>0, <1>13, <2>1 DEF IssueTokens, TableTypes, throttle
<1>14. CASE WriteResetToken(r)
  <2>1. w.user \in Users
    BY <1>0, <1>14 DEF WriteResetToken, TaskOK
  <2>2. credential' \in [Users -> UserCredential \cup {Null}]
    BY <1>14, <2>1, UpdatesRow, RowsWritten DEF WriteResetToken
  <2>3. issued' = issued + 1 /\ used' = used /\ UNCHANGED <<user, identity, session, throttle, now>>
    BY <1>14 DEF WriteResetToken
  <2>4. used' \subseteq 1..issued' /\ issued' \in Nat /\ issued' >= issued
    BY <1>0, <2>3 DEF TableTypes
  <2> QED BY <1>0, <2>2, <2>3, <2>4 DEF TableTypes, throttle
<1>15. CASE UseToken(r)
  <2>1. w.user \in Users /\ w.op \in TokenKinds /\ w.password \in Passwords /\ w.token \in 1..issued
    BY <1>0, <1>15 DEF UseToken, TaskOK, AccountTypes
  <2> DEFINE row == IF w.op = "reset" THEN ResetWrites(r, credential[w.user]) ELSE ActivateWrites(r, credential[w.user])
  <2>2. UpdateCredential(w.user, row) /\ used' = used \cup {w.token} /\ UNCHANGED <<user, identity, session, issued, throttle, now>>
    BY <1>15 DEF UseToken
  <2>3. credential[w.user] # Null => row \in UserCredential
    BY <2>1, RowsWritten
  <2>4. credential' \in [Users -> UserCredential \cup {Null}]
    <3> HIDE DEF row
    <3> QED BY <2>1, <2>2, <2>3, UpdatesRow
  <2> QED BY <1>0, <2>1, <2>2, <2>4 DEF TableTypes, throttle
<1>16. CASE UpdatePassword(r)
  <2>1. w.user \in Users /\ w.password \in Passwords
    BY <1>0, <1>16 DEF UpdatePassword, TaskOK
  <2> DEFINE row == [credential[w.user] EXCEPT !.password = w.password, !.reset = Null]
  <2>2. UpdateCredential(w.user, row) /\ UNCHANGED <<user, identity, session, issued, used, throttle, now>>
    BY <1>16 DEF UpdatePassword
  <2>3. credential[w.user] # Null => row \in UserCredential
    BY <2>1, RowsWritten
  <2>4. credential' \in [Users -> UserCredential \cup {Null}]
    <3> HIDE DEF row
    <3> QED BY <2>1, <2>2, <2>3, UpdatesRow
  <2> QED BY <1>0, <2>2, <2>4 DEF TableTypes, throttle
<1>17. CASE UpdateUser(r)
  <2>1. w.user \in Users /\ w.email \in Emails /\ w.authority \in Roles
    BY <1>0, <1>17 DEF UpdateUser, TaskOK
  <2>2. ASSUME w.user \in Existing
        PROVE  [user EXCEPT ![w.user].email = w.email, ![w.user].authority = w.authority] \in [Users -> UserRow \cup {Null}]
    <3>1. user[w.user] \in UserRow
      BY <1>0, <2>1, <2>2 DEF Existing, TableTypes
    <3>2. [[user[w.user] EXCEPT !.email = w.email] EXCEPT !.authority = w.authority] \in UserRow
      BY <2>1, <3>1 DEF UserRow
    <3>3. [user EXCEPT ![w.user].email = w.email, ![w.user].authority = w.authority]
            = [user EXCEPT ![w.user] = [[user[w.user] EXCEPT !.email = w.email] EXCEPT !.authority = w.authority]]
      BY <1>0, <2>1, <3>1 DEF TableTypes
    <3> QED BY <1>0, <2>1, <3>2, <3>3 DEF TableTypes
  <2>3. user' \in [Users -> UserRow \cup {Null}] /\ UNCHANGED <<credential, identity, session, issued, used, throttle, now>>
    BY <1>0, <1>17, <2>2 DEF UpdateUser, TableTypes
  <2> QED BY <1>0, <2>3 DEF TableTypes, throttle
<1>18. CASE InsertUser(r)
  <2>1. w.email \in Emails /\ w.authority \in Roles /\ (w.op = "user" => w.caller \in Claims)
    BY <1>0, <1>18 DEF InsertUser, TaskOK
  <2> DEFINE t == IF w.op = "user" THEN w.caller.tenant ELSE DefaultTenant
             row == [tenant |-> t, authority |-> w.authority, email |-> w.email]
  <2>2. row \in UserRow
    BY <2>1, AccountsInputAssumption DEF UserRow, Claims
  <2>3. /\ user' = user \/ \E u : user' = [user EXCEPT ![u] = row]
        /\ UNCHANGED <<credential, identity, session, issued, used, throttle, now>>
    BY <1>18 DEF InsertUser
  <2> HIDE DEF row
  <2>4. user' \in [Users -> UserRow \cup {Null}]
    BY <1>0, <2>2, <2>3 DEF TableTypes
  <2> QED BY <1>0, <2>3, <2>4 DEF TableTypes, throttle
<1>19. CASE InsertCredential(r)
  <2>1. NewCredential(w.op) \in UserCredential
    BY TokenType DEF NewCredential, UserCredential
  <2>2. /\ credential' = [credential EXCEPT ![w.user] = NewCredential(w.op)]
        /\ issued' = IF w.op = "user" THEN issued + 1 ELSE issued
        /\ UNCHANGED <<user, identity, session, used, throttle, now>>
    BY <1>19 DEF InsertCredential
  <2>3. issued' \in Nat /\ issued' >= issued /\ used' \subseteq 1..issued'
    BY <1>0, <2>2 DEF TableTypes
  <2>4. credential' \in [Users -> UserCredential \cup {Null}]
    BY <1>0, <2>1, <2>2 DEF TableTypes
  <2> QED BY <1>0, <2>2, <2>3, <2>4 DEF TableTypes, throttle
<1>20. CASE DeleteUser(r)
  BY <1>0, <1>20 DEF DeleteUser, WithoutUsers, TableTypes, throttle
<1>21. CASE LinkIdentity(r)
  <2>1. w.found \in Claims /\ w.user \in Users
    BY <1>0, <1>21 DEF LinkIdentity, TaskOK
  <2> QED BY <1>0, <1>21, <2>1 DEF LinkIdentity, TableTypes, throttle
<1> QED BY <1>1, <1>2, <1>3, <1>4, <1>5, <1>6, <1>7, <1>8, <1>9, <1>10, <1>11, <1>12, <1>13, <1>14, <1>15, <1>16, <1>17, <1>18, <1>19, <1>20, <1>21 DEF AccountStep

LEMMA AccountTypesInit == AccountsInit => AccountTypes
<1> SUFFICES ASSUME AccountsInit PROVE AccountTypes
  OBVIOUS
<1>1. Invited(CredentialAtStart) \subseteq Users
  BY DEF Invited
<1>2. issued \in Nat
  BY <1>1, AccountsAssumption, FS_Subset, FS_CardinalityType DEF AccountsInit
<1>3. work \in [AccountRequests -> Task] /\ \A r \in AccountRequests : work[r] = NoTask
  BY NoTaskType DEF AccountsInit
<1>4. \A r \in AccountRequests : TaskOK(work[r]) /\ work[r].pc = "idle"
  BY <1>3, NoTaskType
<1> QED BY <1>2, <1>3, <1>4, AccountsInputAssumption DEF AccountsInit, AccountTypes

LEMMA AccountTypesStep == AccountTypes /\ [AccountsNext]_accountVars => AccountTypes'
<1> SUFFICES ASSUME AccountTypes, [AccountsNext]_accountVars PROVE AccountTypes'
  OBVIOUS
<1>1. TableTypes /\ issued \in Nat /\ issued >= issued
  BY DEF AccountTypes, TableTypes
<1>2. ASSUME UNCHANGED work, issued' = issued, TableTypes' PROVE AccountTypes'
  BY <1>2 DEF AccountTypes, TableTypes
<1>3. ASSUME NEW r \in AccountRequests, \E t : Moves(r, t) /\ Legal(r, t), TableTypes', issued' >= issued
      PROVE  AccountTypes'
  <2>1. issued' \in Nat
    BY <1>3 DEF TableTypes
  <2>2. /\ work' \in [AccountRequests -> Task]
        /\ \A x \in AccountRequests : TaskOK(work'[x])
        /\ \A x \in AccountRequests :
             work'[x].pc \in {"token", "setPassword"} => work'[x].token \in 1..issued'
    BY <1>3, <2>1, MovesType
  <2> QED BY <1>3, <2>2 DEF AccountTypes, TableTypes
<1>4. CASE Pass
  BY <1>1, <1>2, <1>4 DEF Pass, TableTypes, accounts, throttle
<1>5. CASE Prune
  <2>1. counter' \in [Addresses -> Counter \cup {Null}] /\ UNCHANGED <<accounts, guessed, work, now>>
    BY <1>1, <1>5 DEF Prune, TableTypes
  <2> QED BY <1>1, <1>2, <2>1 DEF TableTypes, accounts
<1>6. CASE \E t \in {user[u].tenant : u \in Existing} : HandleTenantDelete(t)
  BY <1>1, <1>2, <1>6 DEF HandleTenantDelete, WithoutUsers, TableTypes, throttle
<1>7. CASE \E r \in AccountRequests : AccountRequest(r)
  <2>1. PICK r \in AccountRequests : AccountRequest(r)
    BY <1>7
  <2>2. (\E t : Moves(r, t) /\ Legal(r, t)) /\ UNCHANGED <<accounts, throttle, now>>
    BY <2>1, RequestMoves
  <2>3. TableTypes' /\ issued' >= issued
    BY <1>1, <2>2 DEF TableTypes, accounts, throttle
  <2> QED BY <1>3, <2>2, <2>3
<1>8. CASE \E r \in AccountRequests : AccountStep(r)
  BY <1>3, <1>8, StepMoves, StepTables
<1>9. CASE UNCHANGED accountVars
  BY <1>1, <1>2, <1>9 DEF accountVars, TableTypes, accounts, throttle
<1> QED BY <1>4, <1>5, <1>6, <1>7, <1>8, <1>9 DEF AccountsNext

-----------------------------------------------------------------------------
(* Activation and reset tokens: every token that a row holds was issued, is *)
(* held in one place only and has not been used; a request between the      *)
(* SELECT by token and the UPDATE by user has the only row that held it.    *)

Holding(u, k) == credential[u] # Null /\ TokenOf(u, k) # Null

TokensOK ==
  /\ \A u \in Users, k \in TokenKinds : Holding(u, k) => TokenOf(u, k).n \in (1..issued) \ used
  /\ \A u, v \in Users, k, l \in TokenKinds :
       Holding(u, k) /\ Holding(v, l) /\ TokenOf(u, k).n = TokenOf(v, l).n => u = v /\ k = l
  /\ \A r \in AccountRequests : work[r].pc = "setPassword" =>
       \A v \in Users, k \in TokenKinds :
         Holding(v, k) /\ TokenOf(v, k).n = work[r].token => v = work[r].user /\ k = work[r].op
  /\ \A r \in AccountRequests : work[r].late = FALSE

LEMMA TokensKept ==
  ASSUME AccountTypes, TokensOK, issued' \in Nat, issued' >= issued,
         \/ \E r \in AccountRequests : \E t : Moves(r, t) /\ Legal(r, t)
         \/ UNCHANGED work,
         NEW u0, NEW k0,
         \A u \in Users, k \in TokenKinds : Holding(u, k)' =>
           /\ TokenOf(u, k)'.n \notin used'
           /\ \/ Holding(u, k) /\ TokenOf(u, k)' = TokenOf(u, k)
              \/ u = u0 /\ k = k0 /\ TokenOf(u, k)'.n = issued + 1 /\ issued' = issued + 1
  PROVE  TokensOK'
<1> DEFINE Kept(u, k) == Holding(u, k) /\ TokenOf(u, k)' = TokenOf(u, k)
           Fresh(u, k) == u = u0 /\ k = k0 /\ TokenOf(u, k)'.n = issued + 1 /\ issued' = issued + 1
<1>1. \A u \in Users, k \in TokenKinds : Holding(u, k)' => TokenOf(u, k)'.n \notin used' /\ (Kept(u, k) \/ Fresh(u, k))
  OBVIOUS
<1>2. issued \in Nat /\ \A u \in Users, k \in TokenKinds : Holding(u, k) => TokenOf(u, k).n \in 1..issued
  BY DEF TokensOK, AccountTypes
<1>3. ASSUME NEW u \in Users, NEW k \in TokenKinds, Holding(u, k)'
      PROVE  TokenOf(u, k)'.n \in (1..issued') \ used'
  <2>1. CASE Kept(u, k)
    BY <1>1, <1>2, <1>3, <2>1
  <2>2. CASE Fresh(u, k)
    BY <1>1, <1>2, <1>3, <2>2
  <2> QED BY <1>1, <1>3, <2>1, <2>2
<1>4. ASSUME NEW u \in Users, NEW v \in Users, NEW k \in TokenKinds, NEW l \in TokenKinds,
             Holding(u, k)', Holding(v, l)', TokenOf(u, k)'.n = TokenOf(v, l)'.n
      PROVE  u = v /\ k = l
  <2>1. CASE Kept(u, k) /\ Kept(v, l)
    BY <1>4, <2>1 DEF TokensOK
  <2>2. CASE Kept(u, k) /\ Fresh(v, l)
    BY <1>2, <1>4, <2>2
  <2>3. CASE Fresh(u, k) /\ Kept(v, l)
    BY <1>2, <1>4, <2>3
  <2>4. CASE Fresh(u, k) /\ Fresh(v, l)
    BY <2>4
  <2> QED BY <1>1, <1>4, <2>1, <2>2, <2>3, <2>4
<1>5. ASSUME NEW x \in AccountRequests, work[x].pc \in {"token", "setPassword"}, NEW w \in Users, NEW o \in TokenKinds,
             \A v \in Users, k \in TokenKinds :
               Holding(v, k) /\ TokenOf(v, k).n = work[x].token => v = w /\ k = o,
             NEW v \in Users, NEW k \in TokenKinds, Holding(v, k)', TokenOf(v, k)'.n = work[x].token
      PROVE  v = w /\ k = o
  <2>1. work[x].token \in 1..issued
    BY <1>5 DEF AccountTypes
  <2>2. CASE Kept(v, k)
    BY <1>5, <2>2
  <2>3. CASE Fresh(v, k)
    BY <1>2, <1>5, <2>1, <2>3
  <2> QED BY <1>1, <1>5, <2>2, <2>3
<1>6. ASSUME NEW x \in AccountRequests, work[x].pc = "setPassword",
             NEW v \in Users, NEW k \in TokenKinds, Holding(v, k)', TokenOf(v, k)'.n = work[x].token
      PROVE  v = work[x].user /\ k = work[x].op
  <2>1. work[x].user \in Users /\ work[x].op \in TokenKinds
    BY <1>6 DEF AccountTypes, TaskOK
  <2>2. \A a \in Users, b \in TokenKinds :
          Holding(a, b) /\ TokenOf(a, b).n = work[x].token => a = work[x].user /\ b = work[x].op
    BY <1>6 DEF TokensOK
  <2> QED BY <1>5, <1>6, <2>1, <2>2
<1>7. CASE UNCHANGED work
  BY <1>3, <1>4, <1>6, <1>7 DEF TokensOK
<1>8. CASE \E r \in AccountRequests : \E t : Moves(r, t) /\ Legal(r, t)
  <2>0. PICK r \in AccountRequests : \E t : Moves(r, t) /\ Legal(r, t)
    BY <1>8
  <2>1. PICK t : Moves(r, t) /\ Legal(r, t)
    BY <2>0
  <2>2. work'[r] = t /\ \A x \in AccountRequests \ {r} : work'[x] = work[x]
    BY <2>1, MovesType
  <2>3. ASSUME t.pc = "setPassword"
        PROVE  /\ t.late = FALSE
               /\ \A v \in Users, k \in TokenKinds :
                    Holding(v, k)' /\ TokenOf(v, k)'.n = t.token => v = t.user /\ k = t.op
    <3>1. /\ work[r].pc = "token" /\ t.op = work[r].op /\ t.token = work[r].token
          /\ t.user \in Holders(r) /\ t.late = (work[r].token \in used)
      BY <2>1, <2>3 DEF Legal
    <3>2. t.op \in TokenKinds
      BY <2>1, <2>3 DEF Moves, TaskOK
    <3>3. t.user \in Users /\ Holding(t.user, t.op) /\ TokenOf(t.user, t.op).n = t.token
      BY <3>1 DEF Holders, Holding
    <3>4. t.token \notin used
      BY <3>2, <3>3 DEF TokensOK
    <3>5. \A v \in Users, k \in TokenKinds : Holding(v, k) /\ TokenOf(v, k).n = t.token => v = t.user /\ k = t.op
      BY <3>2, <3>3 DEF TokensOK
    <3>6. \A v \in Users, k \in TokenKinds :
            Holding(v, k)' /\ TokenOf(v, k)'.n = t.token => v = t.user /\ k = t.op
      BY <1>5, <3>1, <3>2, <3>3, <3>5
    <3>7. t.late = FALSE
      <4>1. work[r].token \notin used
        BY <3>1, <3>4
      <4>2. (work[r].token \in used) = FALSE
        BY <4>1
      <4> QED BY <3>1, <4>2, Zenon
    <3> QED BY <3>6, <3>7
  <2>4. \A x \in AccountRequests : work'[x].late = FALSE
    BY <2>1, <2>2, <2>3 DEF TokensOK, Legal
  <2>5. \A x \in AccountRequests : work'[x].pc = "setPassword" =>
          \A v \in Users, k \in TokenKinds :
            Holding(v, k)' /\ TokenOf(v, k)'.n = work'[x].token => v = work'[x].user /\ k = work'[x].op
    <3> TAKE x \in AccountRequests
    <3>1. CASE x = r
      BY <2>2, <2>3, <3>1
    <3>2. CASE x # r
      BY <1>6, <2>2, <3>2
    <3> QED BY <3>1, <3>2
  <2> QED BY <1>3, <1>4, <2>4, <2>5 DEF TokensOK
<1> QED BY <1>7, <1>8

(* Which statement writes which table.                                     *)
LEMMA Effects ==
  ASSUME NEW r, AccountStep(r)
  PROVE  /\ \/ WriteResetToken(r) \/ UseToken(r) \/ UpdatePassword(r) \/ InsertCredential(r) \/ DeleteUser(r)
            \/ UNCHANGED <<credential, issued, used>>
         /\ UpdateUser(r) \/ InsertUser(r) \/ DeleteUser(r) \/ UNCHANGED <<user, granted>>
         /\ RecordFail(r) \/ RecordSuccess(r) \/ UNCHANGED <<counter, guessed>>
         /\ LinkIdentity(r) \/ DeleteUser(r) \/ UNCHANGED identity
         /\ UNCHANGED now /\ work[r].pc # "idle"
<1>1. CASE FindUserByEmail(r)
  BY <1>1 DEF FindUserByEmail, Reads, accounts, throttle
<1>2. CASE RecordFail(r)
  BY <1>2 DEF RecordFail, Reads, accounts, throttle
<1>3. CASE RecordSuccess(r)
  BY <1>3 DEF RecordSuccess, Reads, accounts, throttle
<1>4. CASE IssueTokens(r)
  BY <1>4 DEF IssueTokens, Reads, accounts, throttle
<1>5. CASE FindForgetful(r)
  BY <1>5 DEF FindForgetful, Reads, accounts, throttle
<1>6. CASE WriteResetToken(r)
  BY <1>6 DEF WriteResetToken, Reads, accounts, throttle
<1>7. CASE SelectToken(r)
  BY <1>7 DEF SelectToken, Reads, accounts, throttle
<1>8. CASE UseToken(r)
  BY <1>8 DEF UseToken, Reads, accounts, throttle
<1>9. CASE SelectHash(r)
  BY <1>9 DEF SelectHash, Reads, accounts, throttle
<1>10. CASE UpdatePassword(r)
  BY <1>10 DEF UpdatePassword, Reads, accounts, throttle
<1>11. CASE CheckEdit(r)
  BY <1>11 DEF CheckEdit, Reads, accounts, throttle
<1>12. CASE UpdateUser(r)
  BY <1>12 DEF UpdateUser, Reads, accounts, throttle
<1>13. CASE InsertUser(r)
  BY <1>13 DEF InsertUser, Reads, accounts, throttle
<1>14. CASE InsertCredential(r)
  BY <1>14 DEF InsertCredential, Reads, accounts, throttle
<1>15. CASE CredentialFails(r)
  BY <1>15 DEF CredentialFails, Reads, accounts, throttle
<1>16. CASE CheckDelete(r)
  BY <1>16 DEF CheckDelete, Reads, accounts, throttle
<1>17. CASE DeleteUser(r)
  BY <1>17 DEF DeleteUser, Reads, accounts, throttle
<1>18. CASE FindIdentity(r)
  BY <1>18 DEF FindIdentity, Reads, accounts, throttle
<1>19. CASE FindByEmail(r)
  BY <1>19 DEF FindByEmail, Reads, accounts, throttle
<1>20. CASE FindCreated(r)
  BY <1>20 DEF FindCreated, Reads, accounts, throttle
<1>21. CASE LinkIdentity(r)
  BY <1>21 DEF LinkIdentity, Reads, accounts, throttle
<1> QED BY <1>1, <1>2, <1>3, <1>4, <1>5, <1>6, <1>7, <1>8, <1>9, <1>10, <1>11, <1>12, <1>13, <1>14, <1>15, <1>16, <1>17, <1>18, <1>19, <1>20, <1>21 DEF AccountStep

LEMMA TokensIdle ==
  ASSUME AccountTypes, TokensOK, UNCHANGED <<credential, issued, used>>,
         \/ \E r \in AccountRequests : \E t : Moves(r, t) /\ Legal(r, t)
         \/ UNCHANGED work
  PROVE  TokensOK'
<1>1. \A u \in Users, k \in TokenKinds : Holding(u, k)' =>
        TokenOf(u, k)'.n \notin used' /\ Holding(u, k) /\ TokenOf(u, k)' = TokenOf(u, k)
  BY DEF Holding, TokenOf, TokensOK
<1>2. issued' \in Nat /\ issued' >= issued
  BY DEF AccountTypes
<1> QED BY <1>1, <1>2, TokensKept

LEMMA TokensStep == AccountTypes /\ TokensOK /\ [AccountsNext]_accountVars => TokensOK'
<1> SUFFICES ASSUME AccountTypes, TokensOK, [AccountsNext]_accountVars PROVE TokensOK'
  OBVIOUS
<1>1. CASE Pass
  BY <1>1, TokensIdle DEF Pass, accounts
<1>2. CASE Prune
  BY <1>2, TokensIdle DEF Prune, accounts
<1>3. CASE \E t \in {user[u].tenant : u \in Existing} : HandleTenantDelete(t)
  BY <1>3, TokensIdle DEF HandleTenantDelete
<1>4. CASE \E r \in AccountRequests : AccountRequest(r)
  BY <1>4, RequestMoves, TokensIdle DEF accounts
<1>5. CASE UNCHANGED accountVars
  BY <1>5, TokensIdle DEF accountVars, accounts
<1>6. CASE \E r \in AccountRequests : AccountStep(r)
  <2>1. PICK r \in AccountRequests : AccountStep(r)
    BY <1>6
  <2> DEFINE w == work[r]
             u0 == w.user
  <2>2. w \in Task /\ TaskOK(w)
    BY DEF AccountTypes
  <2>3. \E x \in AccountRequests : \E t : Moves(x, t) /\ Legal(x, t)
    BY <2>1, StepMoves
  <2>4. issued \in Nat /\ issued' \in Nat /\ issued' >= issued
    BY <2>1, StepTables DEF AccountTypes, TableTypes
  <2>5. \A v \in Users, k \in TokenKinds : Holding(v, k) => TokenOf(v, k).n \in (1..issued) \ used
    BY DEF TokensOK
  <2>6. used \subseteq 1..issued
    BY DEF AccountTypes
  <2>7. CASE WriteResetToken(r)
    <3>1. u0 \in Users
      BY <2>2, <2>7 DEF WriteResetToken, TaskOK
    <3> DEFINE row == [credential[u0] EXCEPT !.reset = NewToken]
    <3>2. UpdateCredential(u0, row) /\ issued' = issued + 1 /\ used' = used
      BY <2>7 DEF WriteResetToken
    <3>3. credential[u0] # Null =>
            row \in UserCredential /\ row.reset = NewToken /\ row.activate = credential[u0].activate
      BY <2>1, <3>1, RowsWritten
    <3> HIDE DEF row
    <3>4. /\ \A x \in Users \ {u0} : credential'[x] = credential[x]
          /\ credential[u0] # Null => credential'[u0] = row
          /\ credential[u0] = Null => credential'[u0] = Null
      BY <3>1, <3>2, <3>3, UpdatesRow
    <3>5. NewToken.n = issued + 1
      BY TokenType
    <3>6. ASSUME NEW v \in Users, NEW k \in TokenKinds, Holding(v, k)'
          PROVE  /\ TokenOf(v, k)'.n \notin used'
                 /\ \/ Holding(v, k) /\ TokenOf(v, k)' = TokenOf(v, k)
                    \/ v = u0 /\ k = "reset" /\ TokenOf(v, k)'.n = issued + 1 /\ issued' = issued + 1
      <4>1. CASE v # u0
        BY <2>5, <3>2, <3>4, <3>6, <4>1 DEF Holding, TokenOf
      <4>2. CASE v = u0 /\ k = "reset"
        <5>1. TokenOf(v, k)' = NewToken
          BY <3>3, <3>4, <3>6, <4>2 DEF Holding, TokenOf
        <5>2. issued + 1 \notin used
          BY <2>4, <2>6
        <5> QED BY <3>2, <3>5, <4>2, <5>1, <5>2
      <4>3. CASE v = u0 /\ k = "activate"
        BY <2>5, <3>2, <3>3, <3>4, <3>6, <4>3 DEF Holding, TokenOf
      <4> QED BY <4>1, <4>2, <4>3 DEF TokenKinds
    <3> QED BY <2>3, <2>4, <3>6, TokensKept
  <2>8. CASE UseToken(r)
    <3>1. u0 \in Users /\ w.op \in TokenKinds /\ w.password \in Passwords /\ w.pc = "setPassword"
      BY <2>2, <2>8 DEF UseToken, TaskOK
    <3> DEFINE row == IF w.op = "reset" THEN ResetWrites(r, credential[u0]) ELSE ActivateWrites(r, credential[u0])
    <3>2. UpdateCredential(u0, row) /\ used' = used \cup {w.token} /\ issued' = issued
      BY <2>8 DEF UseToken
    <3>3. credential[u0] # Null =>
            /\ row \in UserCredential /\ row.activate = Null
            /\ w.op = "reset" => row.reset = Null
            /\ row.reset # Null => row.reset = credential[u0].reset
      BY <2>1, <3>1, RowsWritten
    <3> HIDE DEF row
    <3>4. /\ \A x \in Users \ {u0} : credential'[x] = credential[x]
          /\ credential[u0] # Null => credential'[u0] = row
          /\ credential[u0] = Null => credential'[u0] = Null
      BY <3>1, <3>2, <3>3, UpdatesRow
    <3>5. \A v \in Users, k \in TokenKinds : Holding(v, k) /\ TokenOf(v, k).n = w.token => v = u0 /\ k = w.op
      BY <2>1, <3>1 DEF TokensOK
    <3>6. ASSUME NEW v \in Users, NEW k \in TokenKinds, Holding(v, k)'
          PROVE  Holding(v, k) /\ TokenOf(v, k)' = TokenOf(v, k) /\ (v = u0 => k # w.op)
      <4>1. CASE v # u0
        BY <3>4, <3>6, <4>1 DEF Holding, TokenOf
      <4>2. CASE v = u0
        <5>1. credential[u0] # Null /\ credential'[u0] = row /\ k # "activate"
          BY <3>3, <3>4, <3>6, <4>2 DEF Holding, TokenOf
        <5>2. k = "reset" /\ row.reset # Null /\ w.op # "reset"
          BY <3>3, <3>6, <4>2, <5>1 DEF Holding, TokenOf, TokenKinds
        <5> QED BY <3>3, <4>2, <5>1, <5>2 DEF Holding, TokenOf
      <4> QED BY <4>1, <4>2
    <3>7. \A v \in Users, k \in TokenKinds : Holding(v, k)' =>
            TokenOf(v, k)'.n \notin used' /\ Holding(v, k) /\ TokenOf(v, k)' = TokenOf(v, k)
      BY <2>5, <3>2, <3>5, <3>6
    <3> QED BY <2>3, <2>4, <3>7, TokensKept
  <2>9. CASE UpdatePassword(r)
    <3>1. u0 \in Users /\ w.password \in Passwords
      BY <2>2, <2>9 DEF UpdatePassword, TaskOK
    <3> DEFINE row == [credential[u0] EXCEPT !.password = w.password, !.reset = Null]
    <3>2. UpdateCredential(u0, row) /\ used' = used /\ issued' = issued
      BY <2>9 DEF UpdatePassword
    <3>3. credential[u0] # Null =>
            row \in UserCredential /\ row.reset = Null /\ row.activate = credential[u0].activate
      BY <2>1, <3>1, RowsWritten
    <3> HIDE DEF row
    <3>4. /\ \A x \in Users \ {u0} : credential'[x] = credential[x]
          /\ credential[u0] # Null => credential'[u0] = row
          /\ credential[u0] = Null => credential'[u0] = Null
      BY <3>1, <3>2, <3>3, UpdatesRow
    <3>5. ASSUME NEW v \in Users, NEW k \in TokenKinds, Holding(v, k)'
          PROVE  Holding(v, k) /\ TokenOf(v, k)' = TokenOf(v, k)
      <4>1. CASE v # u0
        BY <3>4, <3>5, <4>1 DEF Holding, TokenOf
      <4>2. CASE v = u0
        BY <3>3, <3>4, <3>5, <4>2 DEF Holding, TokenOf
      <4> QED BY <4>1, <4>2
    <3>6. \A v \in Users, k \in TokenKinds : Holding(v, k)' =>
            TokenOf(v, k)'.n \notin used' /\ Holding(v, k) /\ TokenOf(v, k)' = TokenOf(v, k)
      BY <2>5, <3>2, <3>5
    <3> QED BY <2>3, <2>4, <3>6, TokensKept
  <2>10. CASE InsertCredential(r)
    <3>1. u0 \in Users
      BY <2>2, <2>10 DEF InsertCredential, TaskOK
    <3> DEFINE row == NewCredential(w.op)
    <3>2. /\ credential' = [credential EXCEPT ![u0] = row] /\ used' = used
          /\ issued' = IF w.op = "user" THEN issued + 1 ELSE issued
      BY <2>10 DEF InsertCredential
    <3>3. row.reset = Null /\ (row.activate = Null \/ (w.op = "user" /\ row.activate = NewToken))
      BY DEF NewCredential
    <3> HIDE DEF row
    <3>4. credential'[u0] = row /\ \A x \in Users \ {u0} : credential'[x] = credential[x]
      BY <3>1, <3>2 DEF AccountTypes
    <3>5. NewToken.n = issued + 1
      BY TokenType
    <3>6. ASSUME NEW v \in Users, NEW k \in TokenKinds, Holding(v, k)'
          PROVE  /\ TokenOf(v, k)'.n \notin used'
                 /\ \/ Holding(v, k) /\ TokenOf(v, k)' = TokenOf(v, k)
                    \/ v = u0 /\ k = "activate" /\ TokenOf(v, k)'.n = issued + 1 /\ issued' = issued + 1
      <4>1. CASE v # u0
        BY <2>5, <3>2, <3>4, <3>6, <4>1 DEF Holding, TokenOf
      <4>2. CASE v = u0
        <5>1. k = "activate" /\ TokenOf(v, k)' = NewToken /\ w.op = "user"
          BY <3>3, <3>4, <3>6, <4>2 DEF Holding, TokenOf, TokenKinds
        <5>2. issued + 1 \notin used
          BY <2>4, <2>6
        <5> QED BY <3>2, <3>5, <4>2, <5>1, <5>2
      <4> QED BY <4>1, <4>2
    <3> QED BY <2>3, <2>4, <3>6, TokensKept
  <2>11. CASE DeleteUser(r)
    <3>1. credential' = [credential EXCEPT ![u0] = Null] /\ used' = used /\ issued' = issued
      BY <2>11 DEF DeleteUser
    <3>2. \A v \in Users, k \in TokenKinds : Holding(v, k)' =>
            TokenOf(v, k)'.n \notin used' /\ Holding(v, k) /\ TokenOf(v, k)' = TokenOf(v, k)
      BY <2>5, <3>1 DEF Holding, TokenOf, AccountTypes
    <3> QED BY <2>3, <2>4, <3>2, TokensKept
  <2>12. CASE UNCHANGED <<credential, issued, used>>
    BY <2>3, <2>12, TokensIdle
  <2> QED BY <2>1, <2>7, <2>8, <2>9, <2>10, <2>11, <2>12, Effects
<1> QED BY <1>1, <1>2, <1>3, <1>4, <1>5, <1>6 DEF AccountsNext

LEMMA TokensInit == AccountsInit => TokensOK
<1> SUFFICES ASSUME AccountsInit PROVE TokensOK
  OBVIOUS
<1>1. /\ credential = CredentialAtStart /\ used = {} /\ issued = Cardinality(Invited(CredentialAtStart))
      /\ work = [r \in AccountRequests |-> NoTask]
  BY DEF AccountsInit
<1>2. \A r \in AccountRequests : work[r].pc = "idle" /\ work[r].late = FALSE
  BY <1>1, NoTaskType
<1>3. ASSUME NEW u \in Users, NEW k \in TokenKinds, Holding(u, k)
      PROVE  k = "activate" /\ u \in Invited(CredentialAtStart) /\ TokenOf(u, k) = CredentialAtStart[u].activate
  BY <1>1, <1>3, AccountsInputAssumption DEF Holding, TokenOf, TokenKinds, Invited
<1>4. \A u \in Invited(CredentialAtStart) : CredentialAtStart[u].activate.n \in 1..issued
  BY <1>1, AccountsInputAssumption
<1>5. \A u, v \in Invited(CredentialAtStart) :
        CredentialAtStart[u].activate.n = CredentialAtStart[v].activate.n => u = v
  BY AccountsInputAssumption
<1>6. \A u \in Users, k \in TokenKinds : Holding(u, k) => TokenOf(u, k).n \in (1..issued) \ used
  BY <1>1, <1>3, <1>4
<1>7. \A u, v \in Users, k, l \in TokenKinds :
        Holding(u, k) /\ Holding(v, l) /\ TokenOf(u, k).n = TokenOf(v, l).n => u = v /\ k = l
  BY <1>3, <1>5
<1> QED BY <1>2, <1>6, <1>7 DEF TokensOK

LEMMA AccountTypesHold == AccountsSpec => []AccountTypes
BY AccountTypesInit, AccountTypesStep, PTL DEF AccountsSpec

(* A link that activated an account or reset a password admits nobody who   *)
(* follows it later (auth_misc_handlers.go clears the tokens by user, in    *)
(* another statement than the SELECT that found the user), whatever resets, *)
(* invitations, deletes and password changes run at the same time.          *)
THEOREM UsedTokensEnd == AccountsSpec => []TokensEndWithTheirUse
<1>1. TokensOK => TokensEndWithTheirUse
  BY DEF TokensOK, TokensEndWithTheirUse
<1> QED BY <1>1, TokensInit, TokensStep, AccountTypesHold, PTL DEF AccountsSpec

-----------------------------------------------------------------------------
(* The throttle.  While the window of a counter is open, what was guessed   *)
(* and what is on its way together stay within the cap and the requests     *)
(* under way: Allow lets a login in below the cap only, and every rejected  *)
(* one leaves the requests under way when it is counted.  The counter stops *)
(* collecting credentials at the cap and is complete below it.              *)

InFlight(ip) == {r \in AccountRequests : work[r].pc \in {"lookup", "fail"} /\ work[r].ip = ip}
Others == Cardinality(AccountRequests) - 1

Counted(ip) ==
  /\ counter[ip].attempts = guessed[ip].attempts
  /\ counter[ip].distinct \subseteq guessed[ip].distinct
  /\ Cardinality(counter[ip].distinct) < MaxFails => counter[ip].distinct = guessed[ip].distinct
  /\ Cardinality(guessed[ip].distinct) + Cardinality(InFlight(ip)) <= MaxFails + Others
  /\ guessed[ip].attempts + Cardinality(InFlight(ip)) <= MaxAttempts + Others

Capped(ip) ==
  /\ IsFiniteSet(guessed[ip].distinct)
  /\ Cardinality(guessed[ip].distinct) <= MaxFails + Others
  /\ guessed[ip].attempts <= MaxAttempts + Others

GuessesOK == \A ip \in Addresses : Capped(ip) /\ (Current(ip) => Counted(ip))

LEMMA InFlightFinite ==
  ASSUME NEW ip
  PROVE  /\ InFlight(ip) \subseteq AccountRequests /\ IsFiniteSet(InFlight(ip))
         /\ Cardinality(InFlight(ip)) \in Nat /\ Cardinality(InFlight(ip)) <= Cardinality(AccountRequests)
         /\ Cardinality(AccountRequests) \in Nat
<1>1. InFlight(ip) \subseteq AccountRequests
  BY DEF InFlight
<1> QED BY <1>1, AccountsAssumption, FS_Subset, FS_CardinalityType

\* A step that counts nothing and lets no login in.
LEMMA GuessesIdle ==
  ASSUME AccountTypes, GuessesOK, NEW ip \in Addresses, guessed'[ip] = guessed[ip],
         Current(ip)' => Current(ip) /\ counter'[ip] = counter[ip] /\ InFlight(ip)' \subseteq InFlight(ip)
  PROVE  (Capped(ip) /\ (Current(ip) => Counted(ip)))'
<1>1. Capped(ip)'
  BY DEF GuessesOK, Capped
<1>2. ASSUME Current(ip)' PROVE Counted(ip)'
  <2>1. Counted(ip) /\ counter'[ip] = counter[ip] /\ InFlight(ip)' \subseteq InFlight(ip)
    BY <1>2 DEF GuessesOK
  <2>2. /\ Cardinality(InFlight(ip)') \in Nat /\ Cardinality(InFlight(ip)) \in Nat
        /\ Cardinality(InFlight(ip)') <= Cardinality(InFlight(ip))
    BY <2>1, InFlightFinite, FS_Subset, FS_CardinalityType
  <2>3. Cardinality(guessed[ip].distinct) \in Nat /\ guessed[ip].attempts \in Nat /\ Others \in Int
    <3>1. IsFiniteSet(guessed[ip].distinct) /\ guessed[ip].attempts \in Nat
      BY DEF GuessesOK, Capped, AccountTypes
    <3>2. Cardinality(AccountRequests) \in Nat
      BY AccountsAssumption, FS_CardinalityType
    <3> QED BY <3>1, <3>2, FS_CardinalityType DEF Others
  <2> QED BY <2>1, <2>2, <2>3, AccountsAssumption DEF Counted
<1> QED BY <1>1, <1>2

\* A request that does not begin to look up a user leaves the flight or stays.
LEMMA MovesOut ==
  ASSUME AccountTypes, NEW r \in AccountRequests, NEW t, Moves(r, t), Legal(r, t), NEW ip,
         issued' \in Nat, issued' >= issued, t.pc # "lookup"
  PROVE  InFlight(ip)' \subseteq InFlight(ip)
<1>1. work'[r] = t /\ \A x \in AccountRequests \ {r} : work'[x] = work[x]
  BY MovesType
<1>2. t.pc = "fail" => work[r].pc = "lookup" /\ t.ip = work[r].ip
  BY DEF Legal
<1>3. ASSUME NEW x \in AccountRequests, work'[x].pc \in {"lookup", "fail"}, work'[x].ip = ip
      PROVE  work[x].pc \in {"lookup", "fail"} /\ work[x].ip = ip
  BY <1>1, <1>2, <1>3
<1> QED BY <1>3 DEF InFlight

\* No statement after the first is a lookup.
LEMMA StepsDoNotLogin ==
  ASSUME AccountTypes, NEW r \in AccountRequests, AccountStep(r), NEW ip
  PROVE  InFlight(ip)' \subseteq InFlight(ip)
<1>1. issued' \in Nat /\ issued' >= issued
  BY StepTables DEF TableTypes
<1>2. PICK t : Moves(r, t) /\ Legal(r, t)
  BY StepMoves
<1>3. t.pc # "lookup"
  BY <1>2, Effects DEF Legal
<1> QED BY <1>1, <1>2, <1>3, MovesOut

LEMMA RecordFailCounts ==
  ASSUME AccountTypes, GuessesOK, NEW r \in AccountRequests, RecordFail(r), NEW ip \in Addresses
  PROVE  (Capped(ip) /\ (Current(ip) => Counted(ip)))'
<1> DEFINE i == work[r].ip
           pair == <<work[r].email, work[r].password>>
           c == IF Current(i) THEN counter[i] ELSE [distinct |-> {}, attempts |-> 0, first |-> now]
           g == IF Current(i) THEN guessed[i] ELSE [distinct |-> {}, attempts |-> 0]
           d == IF Cardinality(c.distinct) >= MaxFails THEN c.distinct ELSE c.distinct \cup {pair}
           e == g.distinct \cup {pair}
           row == [c EXCEPT !.attempts = c.attempts + 1, !.distinct = d]
<1>1. AccountStep(r) /\ work[r].pc = "fail" /\ work[r] \in Task /\ TaskOK(work[r])
  BY DEF AccountStep, RecordFail, AccountTypes
<1>2. i \in Addresses /\ pair \in Emails \X Passwords
  BY <1>1 DEF TaskOK
<1>3. c \in Counter /\ g \in [distinct : SUBSET (Emails \X Passwords), attempts : Nat]
  BY <1>2 DEF Current, AccountTypes, Counter
<1>4. /\ counter' = [counter EXCEPT ![i] = row]
      /\ guessed' = [guessed EXCEPT ![i] = [distinct |-> e, attempts |-> g.attempts + 1]]
      /\ work' = [work EXCEPT ![r] = NoTask] /\ now' = now
  BY DEF RecordFail, Finish, Step
<1>5. CASE ip # i
  <2>1. guessed'[ip] = guessed[ip] /\ counter'[ip] = counter[ip]
    BY <1>2, <1>4, <1>5 DEF AccountTypes
  <2>2. InFlight(ip)' \subseteq InFlight(ip)
    BY <1>1, StepsDoNotLogin
  <2>3. Current(ip)' => Current(ip)
    BY <1>4, <2>1 DEF Current
  <2> QED BY <2>1, <2>2, <2>3, GuessesIdle
<1>6. CASE ip = i
  <2> DEFINE A == InFlight(ip)
             B == InFlight(ip)'
             N == Cardinality(AccountRequests)
  <2>1. r \in A /\ B = A \ {r}
    <3>1. r \in A
      BY <1>1, <1>6 DEF InFlight
    <3>2. work'[r].pc = "idle" /\ \A x \in AccountRequests \ {r} : work'[x] = work[x]
      BY <1>4, NoTaskType DEF AccountTypes
    <3>3. \A x \in AccountRequests : x \in B <=> (x \in A /\ x # r)
      BY <3>2 DEF InFlight
    <3>4. A \subseteq AccountRequests /\ B \subseteq AccountRequests
      BY DEF InFlight
    <3> HIDE DEF A, B
    <3> QED BY <3>1, <3>3, <3>4
  <2>2. /\ Cardinality(A) \in Nat /\ Cardinality(B) \in Nat /\ N \in Nat
        /\ Cardinality(B) = Cardinality(A) - 1 /\ Cardinality(A) <= N
    BY <2>1, InFlightFinite, FS_RemoveElement, FS_CardinalityType
  <2>3. /\ Current(i) => c = counter[i] /\ g = guessed[i] /\ Counted(i)
        /\ ~Current(i) => c.distinct = {} /\ c.attempts = 0 /\ g.distinct = {} /\ g.attempts = 0
    BY <1>2 DEF GuessesOK
  <2>4. IsFiniteSet(g.distinct) /\ Cardinality(g.distinct) \in Nat
    <3>1. IsFiniteSet(guessed[i].distinct)
      BY <1>2 DEF GuessesOK, Capped
    <3>2. IsFiniteSet({})
      BY FS_EmptySet
    <3> QED BY <2>3, <3>1, <3>2, FS_CardinalityType
  <2> HIDE DEF c, g, pair
  <2>5. IsFiniteSet(e) /\ Cardinality(e) \in Nat /\ Cardinality(e) <= Cardinality(g.distinct) + 1
    <3>1. IsFiniteSet(e)
      BY <2>4, FS_AddElement
    <3>2. Cardinality(e) = Cardinality(g.distinct) \/ Cardinality(e) = Cardinality(g.distinct) + 1
      BY <2>4, FS_AddElement
    <3> QED BY <2>4, <3>1, <3>2
  <2>6. MaxFails \in Nat \ {0} /\ MaxAttempts \in Nat \ {0}
    BY AccountsAssumption
  <2>7. /\ c.attempts = g.attempts /\ c.distinct \subseteq g.distinct
        /\ Cardinality(c.distinct) < MaxFails => c.distinct = g.distinct
        /\ Cardinality(g.distinct) + Cardinality(A) <= MaxFails + N - 1
        /\ g.attempts + Cardinality(A) <= MaxAttempts + N - 1
    <3>1. CASE Current(i)
      BY <1>6, <2>3, <3>1 DEF Counted, Others
    <3>2. CASE ~Current(i)
      <4>1. Cardinality(g.distinct) = 0
        BY <2>3, <3>2, FS_EmptySet
      <4>2. c.attempts = 0 /\ g.attempts = 0 /\ c.distinct = {} /\ g.distinct = {}
        BY <2>3, <3>2
      <4>3. 0 + Cardinality(A) <= MaxFails + N - 1 /\ 0 + Cardinality(A) <= MaxAttempts + N - 1
        BY <2>2, <2>6
      <4> QED BY <4>1, <4>2, <4>3
    <3> QED BY <3>1, <3>2
  <2>8. row \in Counter /\ row.attempts = c.attempts + 1 /\ row.distinct = d
    <3> DEFINE m == c.attempts + 1
               X == SUBSET (Emails \X Passwords)
    <3>1. m \in Nat /\ d \in X /\ c \in [distinct : X, attempts : Nat, first : Nat]
      BY <1>2, <1>3 DEF Counter
    <3> HIDE DEF m, X, d
    <3>2. LET q == [c EXCEPT !.attempts = m, !.distinct = d]
          IN q \in [distinct : X, attempts : Nat, first : Nat] /\ q.attempts = m /\ q.distinct = d
      BY <3>1
    <3> QED BY <3>2 DEF m, X, Counter
  <2>9. counter'[ip] = row /\ guessed'[ip].distinct = e /\ guessed'[ip].attempts = g.attempts + 1
    BY <1>2, <1>4, <1>6 DEF AccountTypes
  <2>10. d \subseteq e /\ (Cardinality(d) < MaxFails => d = e)
    <3>1. CASE Cardinality(c.distinct) >= MaxFails
      <4>1. d = c.distinct
        BY <3>1
      <4>2. IsFiniteSet(c.distinct) /\ Cardinality(c.distinct) \in Nat
        BY <2>4, <2>7, FS_Subset, FS_CardinalityType
      <4> QED BY <2>6, <2>7, <3>1, <4>1, <4>2
    <3>2. CASE ~(Cardinality(c.distinct) >= MaxFails)
      <4>1. IsFiniteSet(c.distinct) /\ Cardinality(c.distinct) \in Nat
        BY <2>4, <2>7, FS_Subset, FS_CardinalityType
      <4>2. Cardinality(c.distinct) < MaxFails
        BY <2>6, <3>2, <4>1
      <4> QED BY <2>7, <3>2, <4>2
    <3> QED BY <3>1, <3>2
  <2> HIDE DEF row, d, e
  <2>11. Counted(ip)'
    <3>1. counter'[ip].attempts = guessed'[ip].attempts
      BY <2>7, <2>8, <2>9
    <3>2. counter'[ip].distinct = d /\ guessed'[ip].distinct = e
      BY <2>8, <2>9
    <3>3. Cardinality(e) + Cardinality(B) <= MaxFails + N - 1
      BY <2>2, <2>4, <2>5, <2>6, <2>7
    <3>4. g.attempts + 1 + Cardinality(B) <= MaxAttempts + N - 1
      BY <1>3, <2>2, <2>6, <2>7
    <3> QED BY <2>9, <2>10, <3>1, <3>2, <3>3, <3>4 DEF Counted, Others
  <2>12. Capped(ip)'
    <3>1. Cardinality(e) <= MaxFails + N - 1
      BY <2>2, <2>4, <2>5, <2>6, <2>7
    <3>2. g.attempts + 1 <= MaxAttempts + N - 1
      BY <1>3, <2>2, <2>6, <2>7
    <3> QED BY <2>5, <2>9, <3>1, <3>2 DEF Capped, Others
  <2> QED BY <2>11, <2>12
<1> QED BY <1>5, <1>6

LEMMA LoginAdmits ==
  ASSUME AccountTypes, GuessesOK, NEW r \in AccountRequests, NEW t, Moves(r, t), Legal(r, t),
         UNCHANGED <<counter, guessed, now, issued>>, NEW ip \in Addresses
  PROVE  (Capped(ip) /\ (Current(ip) => Counted(ip)))'
<1>1. issued' \in Nat /\ issued' >= issued
  BY DEF AccountTypes
<1>2. work'[r] = t /\ \A x \in AccountRequests \ {r} : work'[x] = work[x]
  BY <1>1, MovesType
<1>3. (Current(ip)' <=> Current(ip)) /\ counter'[ip] = counter[ip] /\ guessed'[ip] = guessed[ip]
  BY DEF Current
<1>4. CASE t.pc # "lookup" \/ t.ip # ip
  <2>1. InFlight(ip)' \subseteq InFlight(ip)
    <3>1. CASE t.pc # "lookup"
      BY <1>1, <3>1, MovesOut
    <3>2. CASE t.pc = "lookup" /\ t.ip # ip
      <4>1. \A x \in AccountRequests : work'[x].ip = ip => work'[x] = work[x]
        BY <1>2, <3>2
      <4> QED BY <4>1 DEF InFlight
    <3> QED BY <1>4, <3>1, <3>2
  <2> QED BY <1>3, <2>1, GuessesIdle
<1>5. CASE t.pc = "lookup" /\ t.ip = ip
  <2> DEFINE N == Cardinality(AccountRequests)
             B == InFlight(ip)'
             G == guessed[ip].distinct
  <2>1. Allow(ip) /\ Capped(ip)
    BY <1>5 DEF Legal, GuessesOK
  <2>2. Cardinality(B) \in Nat /\ Cardinality(B) <= N /\ N \in Nat
    <3>1. B \subseteq AccountRequests
      BY DEF InFlight
    <3> HIDE DEF B
    <3> QED BY <3>1, AccountsAssumption, FS_Subset, FS_CardinalityType
  <2>3. IsFiniteSet(G) /\ Cardinality(G) \in Nat /\ guessed[ip].attempts \in Nat
    BY <2>1, FS_CardinalityType DEF Capped, AccountTypes
  <2>4. MaxFails \in Nat /\ MaxAttempts \in Nat
    BY AccountsAssumption
  <2>5. ASSUME Current(ip) PROVE Counted(ip)'
    <3>1. Counted(ip)
      BY <2>5 DEF GuessesOK
    <3>2. Cardinality(counter[ip].distinct) < MaxFails /\ counter[ip].attempts < MaxAttempts
      BY <2>1, <2>5 DEF Allow
    <3>3. counter[ip].distinct = G /\ counter[ip].attempts = guessed[ip].attempts
      BY <3>1, <3>2 DEF Counted
    <3>4. /\ Cardinality(G) + Cardinality(B) <= MaxFails + N - 1
          /\ guessed[ip].attempts + Cardinality(B) <= MaxAttempts + N - 1
      BY <2>2, <2>3, <2>4, <3>2, <3>3
    <3> QED BY <1>3, <3>3, <3>4 DEF Counted, Others
  <2>6. Capped(ip)'
    BY <1>3, <2>1 DEF Capped
  <2> QED BY <1>3, <2>5, <2>6
<1> QED BY <1>4, <1>5

LEMMA GuessesStep == AccountTypes /\ GuessesOK /\ [AccountsNext]_accountVars => GuessesOK'
<1> SUFFICES ASSUME AccountTypes, GuessesOK, [AccountsNext]_accountVars, NEW ip \in Addresses
             PROVE  (Capped(ip) /\ (Current(ip) => Counted(ip)))'
  BY DEF GuessesOK
<1>1. ASSUME UNCHANGED <<counter, guessed, now, work>> PROVE (Capped(ip) /\ (Current(ip) => Counted(ip)))'
  <2>1. Current(ip)' => Current(ip) /\ counter'[ip] = counter[ip] /\ InFlight(ip)' \subseteq InFlight(ip)
    BY <1>1 DEF Current, InFlight
  <2> QED BY <1>1, <2>1, GuessesIdle
<1>2. CASE Pass
  <2>1. InFlight(ip)' \subseteq InFlight(ip) /\ UNCHANGED <<counter, guessed>> /\ now' = now + 1
    BY <1>2 DEF Pass, InFlight, throttle
  <2>2. Current(ip)' => Current(ip)
    <3>1. counter[ip] # Null => counter[ip].first \in Nat
      BY DEF AccountTypes, Counter
    <3> QED BY <2>1, <3>1, AccountsAssumption DEF Current, AccountTypes
  <2> QED BY <2>1, <2>2, GuessesIdle
<1>3. CASE Prune
  <2>1. InFlight(ip)' \subseteq InFlight(ip) /\ UNCHANGED <<guessed, now>>
    BY <1>3 DEF Prune, InFlight
  <2>2. counter'[ip] = Null \/ counter'[ip] = counter[ip]
    BY <1>3 DEF Prune
  <2>3. Current(ip)' => Current(ip) /\ counter'[ip] = counter[ip]
    BY <2>1, <2>2 DEF Current
  <2> QED BY <2>1, <2>3, GuessesIdle
<1>4. CASE \E t \in {user[u].tenant : u \in Existing} : HandleTenantDelete(t)
  BY <1>1, <1>4 DEF HandleTenantDelete, throttle
<1>5. CASE \E r \in AccountRequests : AccountRequest(r)
  BY <1>5, RequestMoves, LoginAdmits DEF accounts, throttle
<1>6. CASE \E r \in AccountRequests : AccountStep(r)
  <2>1. PICK r \in AccountRequests : AccountStep(r)
    BY <1>6
  <2>2. InFlight(ip)' \subseteq InFlight(ip) /\ UNCHANGED now
    BY <2>1, StepsDoNotLogin, Effects
  <2>3. CASE RecordFail(r)
    BY <2>3, RecordFailCounts
  <2>4. CASE RecordSuccess(r)
    <3>1. counter' = [counter EXCEPT ![work[r].ip] = Null] /\ UNCHANGED guessed
      BY <2>4 DEF RecordSuccess
    <3>2. counter'[ip] = Null \/ counter'[ip] = counter[ip]
      BY <3>1 DEF AccountTypes
    <3>3. Current(ip)' => Current(ip) /\ counter'[ip] = counter[ip]
      BY <2>2, <3>2 DEF Current
    <3> QED BY <2>2, <3>1, <3>3, GuessesIdle
  <2>5. CASE UNCHANGED <<counter, guessed>>
    <3>1. Current(ip)' => Current(ip) /\ counter'[ip] = counter[ip]
      BY <2>2, <2>5 DEF Current
    <3> QED BY <2>2, <2>5, <3>1, GuessesIdle
  <2> QED BY <2>1, <2>3, <2>4, <2>5, Effects
<1>7. CASE UNCHANGED accountVars
  BY <1>1, <1>7 DEF accountVars, throttle
<1> QED BY <1>2, <1>3, <1>4, <1>5, <1>6, <1>7 DEF AccountsNext

LEMMA GuessesInit == AccountsInit => GuessesOK
<1> SUFFICES ASSUME AccountsInit, NEW ip \in Addresses PROVE Capped(ip) /\ ~Current(ip)
  BY DEF GuessesOK
<1>1. guessed[ip].distinct = {} /\ guessed[ip].attempts = 0 /\ counter[ip] = Null
  BY DEF AccountsInit
<1>2. IsFiniteSet({}) /\ Cardinality({}) = 0 /\ Cardinality(AccountRequests) \in Nat
  BY FS_EmptySet, AccountsAssumption, FS_CardinalityType
<1> QED BY <1>1, <1>2, AccountsAssumption DEF Capped, Others, Current

(* throttle.go: Allow and RecordFail are two critical sections with a check *)
(* of the password in between, and logins of one address overlap.  Still no *)
(* address has more credentials, or more attempts, rejected in a window     *)
(* than the cap and the other requests under way.                           *)
THEOREM GuessesAreBounded == AccountsSpec => []GuessesBounded
<1>1. GuessesOK => GuessesBounded
  <2> SUFFICES ASSUME GuessesOK, NEW ip \in Addresses
               PROVE  /\ Cardinality(guessed[ip].distinct) <= MaxFails + Cardinality(AccountRequests) - 1
                      /\ guessed[ip].attempts <= MaxAttempts + Cardinality(AccountRequests) - 1
    BY DEF GuessesBounded
  <2>1. Cardinality(AccountRequests) \in Nat /\ MaxFails \in Nat /\ MaxAttempts \in Nat
    BY AccountsAssumption, FS_CardinalityType
  <2>2. /\ Cardinality(guessed[ip].distinct) <= MaxFails + Others
        /\ guessed[ip].attempts <= MaxAttempts + Others
    BY DEF GuessesOK, Capped
  <2>3. /\ MaxFails + Others = MaxFails + Cardinality(AccountRequests) - 1
        /\ MaxAttempts + Others = MaxAttempts + Cardinality(AccountRequests) - 1
    BY <2>1 DEF Others
  <2> QED BY <2>2, <2>3
<1> QED BY <1>1, GuessesInit, GuessesStep, AccountTypesHold, PTL DEF AccountsSpec

-----------------------------------------------------------------------------
(* Who is SYS_ADMIN.  An edit that passed its check and is about to write   *)
(* the authority SYS_ADMIN for a caller who is not one read it from the row.*)

Promotes(t) == t.pc = "updateUser" /\ t.authority = "SYS_ADMIN" /\ t.caller.authority # "SYS_ADMIN"

AccountsOK ==
  /\ AccountsHold
  /\ \A r \in AccountRequests : Promotes(work[r]) => user[work[r].user] = Null \/ work[r].user \in granted

\* Requests other than r, when no user whom one of them promotes loses a grant.
LEMMA OthersPromote ==
  ASSUME AccountTypes, AccountsOK, NEW r \in AccountRequests, NEW t, work' = [work EXCEPT ![r] = t], ~Promotes(t),
         \A x \in AccountRequests \ {r} :
           Promotes(work[x]) /\ work[x].user \in Users /\ (user[work[x].user] = Null \/ work[x].user \in granted) =>
             user'[work[x].user] = Null \/ work[x].user \in granted'
  PROVE  \A x \in AccountRequests : Promotes(work'[x]) => user'[work'[x].user] = Null \/ work'[x].user \in granted'
<1>1. work'[r] = t /\ \A x \in AccountRequests \ {r} : work'[x] = work[x]
  BY DEF AccountTypes
<1>2. \A x \in AccountRequests : Promotes(work[x]) => work[x].user \in Users
  BY DEF Promotes, AccountTypes, TaskOK
<1>3. \A x \in AccountRequests \ {r} : Promotes(work'[x]) => user'[work'[x].user] = Null \/ work'[x].user \in granted'
  BY <1>1, <1>2 DEF AccountsOK
<1> QED BY <1>1, <1>3

LEMMA NoTaskPromotes == ~Promotes(NoTask)
BY NoTaskType DEF Promotes

LEMMA AccountsIdle ==
  ASSUME AccountTypes, AccountsOK, UNCHANGED <<user, granted, identity>>,
         \/ \E r \in AccountRequests : \E t : Moves(r, t) /\ Legal(r, t)
         \/ UNCHANGED work
  PROVE  AccountsOK'
<1>1. AccountsHold'
  BY DEF AccountsOK, AccountsHold, Existing
<1>2. CASE UNCHANGED work
  BY <1>1, <1>2 DEF AccountsOK
<1>3. CASE \E r \in AccountRequests : \E t : Moves(r, t) /\ Legal(r, t)
  <2>0. PICK r \in AccountRequests : \E t : Moves(r, t) /\ Legal(r, t)
    BY <1>3
  <2>1. PICK t : Moves(r, t) /\ Legal(r, t)
    BY <2>0
  <2>2. work'[r] = t /\ \A x \in AccountRequests \ {r} : work'[x] = work[x]
    BY <2>1 DEF Moves, Step, AccountTypes
  <2>3. Promotes(t) => t.user \in granted
    <3>1. Promotes(t) => t.user \in Existing /\ user[t.user].authority = "SYS_ADMIN"
      BY <2>1 DEF Legal, Promotes
    <3> QED BY <3>1 DEF AccountsOK, AccountsHold
  <2>4. \A x \in AccountRequests : Promotes(work'[x]) => user'[work'[x].user] = Null \/ work'[x].user \in granted'
    BY <2>2, <2>3 DEF AccountsOK
  <2> QED BY <1>1, <2>4 DEF AccountsOK
<1> QED BY <1>2, <1>3

LEMMA UpdateUserHolds ==
  ASSUME AccountTypes, AccountsOK, NEW r \in AccountRequests, UpdateUser(r) PROVE AccountsOK'
<1> DEFINE w == work[r]
           u == w.user
           ok == u \in Existing /\ EmailFree(w.email, u)
<1>1. /\ w.pc = "updateUser" /\ w.op = "user" /\ u \in Users
  BY DEF UpdateUser, AccountTypes, TaskOK
<1>2. /\ user' = IF ok THEN [user EXCEPT ![u].email = w.email, ![u].authority = w.authority] ELSE user
      /\ granted' = IF ok THEN GrantedAfter(r, u) ELSE granted
      /\ work' = [work EXCEPT ![r] = NoTask] /\ identity' = identity
  BY DEF UpdateUser, Finish, Step
<1>3. /\ user \in [Users -> UserRow \cup {Null}]
  BY DEF AccountTypes
<1>4. /\ \A v \in Users \ {u} : user'[v] = user[v]
      /\ ok => user'[u] # Null /\ user'[u].email = w.email /\ user'[u].authority = w.authority
      /\ ~ok => user'[u] = user[u]
  <2>1. CASE ok
    <3>1. user[u] \in UserRow
      BY <1>1, <1>3, <2>1 DEF Existing
    <3> DEFINE row == [[user[u] EXCEPT !.email = w.email] EXCEPT !.authority = w.authority]
    <3>2. row.email = w.email /\ row.authority = w.authority
      BY <3>1 DEF UserRow
    <3>3. row \in UserRow
      <4>1. w.email \in Emails /\ w.authority \in Roles
        BY <1>1 DEF AccountTypes, TaskOK
      <4> QED BY <3>1, <4>1 DEF UserRow
    <3>4. user' = [user EXCEPT ![u] = row]
      BY <1>1, <1>2, <1>3, <2>1
    <3> HIDE DEF row
    <3>5. user'[u] = row /\ \A v \in Users \ {u} : user'[v] = user[v]
      BY <1>1, <1>3, <3>4
    <3>6. row # Null
      BY <3>3, AccountsAssumption
    <3> QED BY <2>1, <3>2, <3>5, <3>6
  <2>2. CASE ~ok
    BY <1>2, <2>2
  <2> QED BY <2>1, <2>2
<1>5. Existing' = Existing
  BY <1>4 DEF Existing
<1> HIDE DEF ok
<1>6. \A v, x \in Existing : user'[v].email = user'[x].email => v = x
  <2>1. CASE ok
    <3>1. \A x \in Existing \ {u} : user[x].email # w.email
      BY <2>1 DEF ok, EmailFree
    <3>2. \A v, x \in Existing : user[v].email = user[x].email => v = x
      BY DEF AccountsOK, AccountsHold
    <3> QED BY <1>4, <2>1, <3>1, <3>2 DEF Existing
  <2>2. CASE ~ok
    BY <1>2, <2>2 DEF AccountsOK, AccountsHold
  <2> QED BY <2>1, <2>2
\* Only u may lose a grant, when r demotes it and no other request promotes it.
<1>10. /\ \A v \in granted : v # u => v \in granted'
       /\ ok /\ Grants(r) => u \in granted'
       /\ ~ok \/ w.authority = "SYS_ADMIN" => granted \subseteq granted'
  BY <1>2 DEF GrantedAfter
<1>11. ASSUME NEW x \in AccountRequests \ {r}, Promotes(work[x]) PROVE granted \subseteq granted' \/ work[x].user # u
  <2>1. work[x].pc = "updateUser" /\ work[x].authority = "SYS_ADMIN" /\ work[x].caller.authority # "SYS_ADMIN"
    BY <1>11 DEF Promotes
  <2>2. work[x].op = "user"
    BY <2>1 DEF AccountTypes, TaskOK
  <2>3. ~Grants(x)
    BY <2>1, <2>2 DEF Grants
  <2>4. work[x].user = u => WritesBack(r, u)
    BY <2>1, <2>3 DEF WritesBack
  <2>5. WritesBack(r, u) => granted \subseteq granted'
    BY <1>2 DEF GrantedAfter
  <2> QED BY <2>4, <2>5
<1>7. \A v \in Existing : user'[v].authority = "SYS_ADMIN" => v \in granted'
  <2> SUFFICES ASSUME NEW v \in Existing, user'[v].authority = "SYS_ADMIN" PROVE v \in granted'
    OBVIOUS
  <2>1. user[v].authority = "SYS_ADMIN" => v \in granted
    BY DEF AccountsOK, AccountsHold
  <2>2. CASE ok /\ v = u
    <3>1. w.authority = "SYS_ADMIN"
      BY <1>4, <2>2
    <3>2. CASE w.caller.authority = "SYS_ADMIN"
      BY <1>10, <2>2, <3>1, <3>2 DEF Grants
    <3>3. CASE w.caller.authority # "SYS_ADMIN"
      <4>1. u \in granted
        BY <1>1, <2>2, <3>1, <3>3 DEF AccountsOK, Promotes, Existing
      <4> QED BY <1>10, <2>2, <3>1, <4>1
    <3> QED BY <3>2, <3>3
  <2>3. CASE ~(ok /\ v = u)
    <3>1. user'[v] = user[v] /\ v \in granted
      BY <1>4, <2>1, <2>3 DEF Existing
    <3> QED BY <1>10, <2>3, <3>1
  <2> QED BY <2>2, <2>3
<1>8. AccountsHold'
  BY <1>2, <1>5, <1>6, <1>7 DEF AccountsOK, AccountsHold
<1>9. \A x \in AccountRequests \ {r} :
        Promotes(work[x]) /\ work[x].user \in Users /\ (user[work[x].user] = Null \/ work[x].user \in granted) =>
          user'[work[x].user] = Null \/ work[x].user \in granted'
  <2>1. \A v \in Users : user[v] = Null => user'[v] = Null
    BY <1>4 DEF ok, Existing
  <2> QED BY <1>10, <1>11, <2>1
<1> QED BY <1>2, <1>8, <1>9, OthersPromote, NoTaskPromotes DEF AccountsOK

LEMMA InsertUserHolds ==
  ASSUME AccountTypes, AccountsOK, NEW r \in AccountRequests, InsertUser(r) PROVE AccountsOK'
<1> DEFINE w == work[r]
           free == {x \in Users : user[x] = Null /\ credential[x] = Null /\ \A y \in AccountRequests : work[y].user # x}
           u == CHOOSE x \in free : TRUE
           row == [tenant |-> IF w.op = "user" THEN w.caller.tenant ELSE DefaultTenant,
                   authority |-> w.authority, email |-> w.email]
           t == [Goes(r, "insertCredential") EXCEPT !.user = u]
<1>1. w \in Task /\ TaskOK(w) /\ w.pc = "insertUser" /\ identity' = identity /\ u \in free
  BY DEF InsertUser, AccountTypes
<1>2. \/ Finish(r) /\ UNCHANGED <<user, granted>>
      \/ /\ EmailFree(w.email, u) /\ user' = [user EXCEPT ![u] = row] /\ Step(r, t)
         /\ granted' = IF Grants(r) THEN granted \cup {u} ELSE granted
  BY DEF InsertUser
<1>3. w.op \in {"user", "oidc"} /\ (w.op = "user" /\ w.authority = "SYS_ADMIN" => w.caller.authority = "SYS_ADMIN")
  BY <1>1 DEF TaskOK
<1>4. /\ u \in Users /\ user[u] = Null /\ \A x \in AccountRequests : work[x].user # u
  BY <1>1
<1>5. row.authority = w.authority /\ row.email = w.email /\ row # Null
  <2>1. w.authority \in Roles /\ w.email \in Emails /\ (w.op = "user" => w.caller \in Claims)
    BY <1>1, <1>3 DEF TaskOK
  <2>2. (IF w.op = "user" THEN w.caller.tenant ELSE DefaultTenant) \in AccountTenants
    BY <2>1, AccountsInputAssumption DEF Claims
  <2>3. row \in UserRow
    BY <2>1, <2>2 DEF UserRow
  <2> QED BY <2>3, AccountsAssumption
<1>6. t.pc = "insertCredential"
  <2>1. Goes(r, "insertCredential") \in Task /\ Goes(r, "insertCredential").pc = "insertCredential"
    BY GoesType, PlacesAre
  <2> QED BY <1>4, <2>1, WithUser
<1> HIDE DEF u, row, t
<1>7. CASE Finish(r) /\ UNCHANGED <<user, granted>>
  <2>1. AccountsHold'
    BY <1>1, <1>7 DEF AccountsOK, AccountsHold, Existing
  <2>2. work' = [work EXCEPT ![r] = NoTask] /\ ~Promotes(NoTask)
    BY <1>7, NoTaskPromotes DEF Finish, Step
  <2>3. \A x \in AccountRequests : Promotes(work'[x]) => user'[work'[x].user] = Null \/ work'[x].user \in granted'
    BY <1>7, <2>2, OthersPromote
  <2> QED BY <2>1, <2>3 DEF AccountsOK
<1>8. CASE /\ EmailFree(w.email, u) /\ user' = [user EXCEPT ![u] = row] /\ Step(r, t)
           /\ granted' = IF Grants(r) THEN granted \cup {u} ELSE granted
  <2>1. user'[u] = row /\ \A v \in Users \ {u} : user'[v] = user[v]
    BY <1>4, <1>8 DEF AccountTypes
  <2>2. Existing' = Existing \cup {u} /\ u \notin Existing
    BY <1>4, <1>5, <2>1 DEF Existing
  <2>3. \A v \in Existing : user'[v] = user[v] /\ user[v].email # row.email
    BY <1>5, <1>8, <2>1, <2>2 DEF EmailFree, Existing
  <2>4. \A v, x \in Existing' : user'[v].email = user'[x].email => v = x
    BY <2>1, <2>2, <2>3 DEF AccountsOK, AccountsHold
  <2>5. \A i \in Identities : identity'[i] # Null => identity'[i] \in Existing'
    BY <1>1, <2>2 DEF AccountsOK, AccountsHold
  <2>6. granted \subseteq granted' /\ (row.authority = "SYS_ADMIN" => u \in granted')
    BY <1>3, <1>5, <1>8 DEF Grants
  <2>7. \A v \in Existing' : user'[v].authority = "SYS_ADMIN" => v \in granted'
    BY <2>1, <2>2, <2>3, <2>6 DEF AccountsOK, AccountsHold
  <2>8. AccountsHold'
    BY <2>4, <2>5, <2>7 DEF AccountsHold
  <2>9. work' = [work EXCEPT ![r] = t] /\ ~Promotes(t)
    BY <1>6, <1>8 DEF Step, Promotes
  <2>10. \A x \in AccountRequests \ {r} :
          work[x].user \in Users /\ (user[work[x].user] = Null \/ work[x].user \in granted) =>
            user'[work[x].user] = Null \/ work[x].user \in granted'
    BY <1>4, <2>1, <2>6
  <2>11. \A x \in AccountRequests : Promotes(work'[x]) => user'[work'[x].user] = Null \/ work'[x].user \in granted'
    BY <2>9, <2>10, OthersPromote
  <2> QED BY <2>8, <2>11 DEF AccountsOK
<1> QED BY <1>2, <1>7, <1>8

\* Users who are deleted, their identities and their grants go together.
LEMMA GoneHolds ==
  ASSUME AccountTypes, AccountsOK, NEW gone \in SUBSET Users,
         \A v \in Users : user'[v] = IF v \in gone THEN Null ELSE user[v],
         identity' = WithoutUsers(gone), granted' = granted \ gone
  PROVE  /\ AccountsHold'
         /\ \A v \in Users : user[v] = Null \/ v \in granted => user'[v] = Null \/ v \in granted'
<1>1. Existing' = Existing \ gone
  BY DEF Existing
<1>2. \A v \in Existing' : user'[v] = user[v]
  BY <1>1 DEF Existing
<1>3. \A v, x \in Existing' : user'[v].email = user'[x].email => v = x
  BY <1>1, <1>2 DEF AccountsOK, AccountsHold
<1>4. \A i \in Identities : identity'[i] # Null => identity'[i] = identity[i] /\ identity[i] \notin gone
  BY DEF WithoutUsers
<1>5. \A i \in Identities : identity'[i] # Null => identity'[i] \in Existing'
  BY <1>1, <1>4 DEF AccountsOK, AccountsHold
<1>6. \A v \in Existing' : user'[v].authority = "SYS_ADMIN" => v \in granted'
  BY <1>1, <1>2 DEF AccountsOK, AccountsHold
<1>7. \A v \in Users : user[v] = Null \/ v \in granted => user'[v] = Null \/ v \in granted'
  OBVIOUS
<1> QED BY <1>3, <1>5, <1>6, <1>7 DEF AccountsHold

LEMMA DeleteUserHolds ==
  ASSUME AccountTypes, AccountsOK, NEW r \in AccountRequests, DeleteUser(r) PROVE AccountsOK'
<1>1. work[r].user \in Users
  BY DEF DeleteUser, AccountTypes, TaskOK
<1>2. /\ user' = [user EXCEPT ![work[r].user] = Null] /\ identity' = WithoutUsers({work[r].user})
      /\ granted' = granted \ {work[r].user} /\ work' = [work EXCEPT ![r] = NoTask]
  BY DEF DeleteUser, Finish, Step
<1>3. \A v \in Users : user'[v] = IF v \in {work[r].user} THEN Null ELSE user[v]
  BY <1>1, <1>2 DEF AccountTypes
<1>4. /\ AccountsHold'
      /\ \A v \in Users : user[v] = Null \/ v \in granted => user'[v] = Null \/ v \in granted'
  BY <1>1, <1>2, <1>3, GoneHolds
<1>5. \A x \in AccountRequests : Promotes(work'[x]) => user'[work'[x].user] = Null \/ work'[x].user \in granted'
  BY <1>2, <1>4, OthersPromote, NoTaskPromotes
<1> QED BY <1>4, <1>5 DEF AccountsOK

LEMMA LinkIdentityHolds ==
  ASSUME AccountTypes, AccountsOK, NEW r \in AccountRequests, LinkIdentity(r) PROVE AccountsOK'
<1> DEFINE w == work[r]
<1>1. /\ identity' = IF w.user \in Existing THEN [identity EXCEPT ![w.identity] = w.user] ELSE identity
      /\ UNCHANGED <<user, granted>> /\ work' = [work EXCEPT ![r] = NoTask]
  BY DEF LinkIdentity, Finish, Step
<1>2. \A i \in Identities : identity'[i] = identity[i] \/ identity'[i] \in Existing
  BY <1>1 DEF AccountTypes
<1>3. AccountsHold'
  BY <1>1, <1>2 DEF AccountsOK, AccountsHold, Existing
<1>4. \A x \in AccountRequests : Promotes(work'[x]) => user'[work'[x].user] = Null \/ work'[x].user \in granted'
  BY <1>1, OthersPromote, NoTaskPromotes
<1> QED BY <1>3, <1>4 DEF AccountsOK

LEMMA AccountsOKStep == AccountTypes /\ AccountsOK /\ [AccountsNext]_accountVars => AccountsOK'
<1> SUFFICES ASSUME AccountTypes, AccountsOK, [AccountsNext]_accountVars PROVE AccountsOK'
  OBVIOUS
<1>1. CASE Pass
  BY <1>1, AccountsIdle DEF Pass, accounts
<1>2. CASE Prune
  BY <1>2, AccountsIdle DEF Prune, accounts
<1>3. CASE \E t \in {user[u].tenant : u \in Existing} : HandleTenantDelete(t)
  <2>1. PICK t : HandleTenantDelete(t)
    BY <1>3
  <2> DEFINE gone == {u \in Existing : user[u].tenant = t}
  <2>2. /\ user' = [u \in Users |-> IF u \in gone THEN Null ELSE user[u]]
        /\ identity' = WithoutUsers(gone) /\ granted' = granted \ gone /\ UNCHANGED work
    BY <2>1 DEF HandleTenantDelete
  <2>3. gone \in SUBSET Users
    BY DEF Existing
  <2> HIDE DEF gone
  <2>4. /\ AccountsHold'
        /\ \A v \in Users : user[v] = Null \/ v \in granted => user'[v] = Null \/ v \in granted'
    BY <2>2, <2>3, GoneHolds
  <2>5. \A x \in AccountRequests : Promotes(work[x]) => work[x].user \in Users
    BY DEF Promotes, AccountTypes, TaskOK
  <2> QED BY <2>2, <2>4, <2>5 DEF AccountsOK
<1>4. CASE \E r \in AccountRequests : AccountRequest(r)
  BY <1>4, RequestMoves, AccountsIdle DEF accounts
<1>5. CASE UNCHANGED accountVars
  BY <1>5, AccountsIdle DEF accountVars, accounts
<1>6. CASE \E r \in AccountRequests : AccountStep(r)
  <2>1. PICK r \in AccountRequests : AccountStep(r)
    BY <1>6
  <2>2. CASE UNCHANGED <<user, granted, identity>>
    BY <2>1, <2>2, StepMoves, AccountsIdle
  <2> QED BY <2>1, <2>2, Effects, UpdateUserHolds, InsertUserHolds, DeleteUserHolds, LinkIdentityHolds
<1> QED BY <1>1, <1>2, <1>3, <1>4, <1>5, <1>6 DEF AccountsNext

LEMMA AccountsOKInit == AccountsInit => AccountsOK
<1> SUFFICES ASSUME AccountsInit PROVE AccountsOK
  OBVIOUS
<1>1. \A r \in AccountRequests : ~Promotes(work[r])
  BY NoTaskPromotes DEF AccountsInit
<1>2. AccountsHold
  BY AccountsInputAssumption DEF AccountsInit, AccountsHold, Existing
<1> QED BY <1>1, <1>2 DEF AccountsOK

(* crud_user.go and oidc.go work on the users without a transaction: a      *)
(* save reads the row and writes it in another statement, a login with an   *)
(* identity creates a user whom others edit or delete before it is linked,  *)
(* and a tenant goes with its users.  Still an email is that of one user,   *)
(* an identity leads to a user who exists, and who is SYS_ADMIN was made    *)
(* one by a SYS_ADMIN or by the configuration of the provider, and was not  *)
(* demoted since but under an edit that had read the row and writes it back.*)
THEOREM AccountsStayRight == AccountsSpec => []AccountsHold
<1>1. AccountsOK => AccountsHold
  BY DEF AccountsOK
<1> QED BY <1>1, AccountsOKInit, AccountsOKStep, AccountTypesHold, PTL DEF AccountsSpec
=============================================================================
