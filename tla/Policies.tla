------------------------------ MODULE Policies ------------------------------
(***************************************************************************)
(* The policy catalogue and what it permits on twins (internal/policy).    *)
(* Versions are immutable, only deprecated; a request resolves the newest  *)
(* version in force of its entity's policy, or the built-in owner policy,  *)
(* asks Authorize for every resource it names, and then is served.  The    *)
(* catalogue may change between these steps.                               *)
(*                                                                         *)
(* A resource is the sequence of its segments after "thing:/", and what    *)
(* Normalize accepts is a document: [subjects, grants, revokes], the last  *)
(* two from patterns to sets of actions.                                   *)
(***************************************************************************)
EXTENDS Naturals, Sequences, FiniteSets, FiniteSetsExt, TLC

CONSTANTS
  PolicyTenants,
  PolicyIds,       \* canonical names, DefaultPolicyID among them
  DefaultPolicyID,
  PolicyVersions,  \* numbers: versions in their order
  Documents,       \* what authors post and Normalize accepts
  Callers,         \* requests at once
  Asked,           \* [subject, action, tenant, pin, paths]: requests on a twin of the
                   \* tenant, by its registry policyId pin, [tenant, id]
  MaxCatalogueEdits, \* bound
  Absent

ASSUME PolicyAssumption ==
  /\ IsFiniteSet(PolicyVersions) /\ PolicyVersions \subseteq Nat
  /\ PolicyTenants \subseteq STRING
  /\ \A x \in Asked : x.tenant \in PolicyTenants
  /\ \A d \in Documents :
       /\ IsFiniteSet(DOMAIN d.grants) /\ DOMAIN d.grants \subseteq Seq(STRING)
       /\ IsFiniteSet(DOMAIN d.revokes) /\ DOMAIN d.revokes \subseteq Seq(STRING)

VARIABLES
  catalogue,   \* table policy: [deprecated, document] of each [tenant, id, version]
  asking,      \* [pc, asked, document, seen] of each request; seen: the documents
               \* in force since it began (history)
  edits

policyVars == <<catalogue, asking, edits>>

Rows == [tenant : PolicyTenants, id : PolicyIds, version : PolicyVersions]
SysAdmin == "SYS_ADMIN"

-----------------------------------------------------------------------------
(* Authorize.                                                              *)

Max0(S) == IF S = {} THEN 0 ELSE Max(S)

\* matchResource.  "#" takes the rest, "*" one segment, and a pattern covers all
\* below it unless it ends on "*".
Recursive(p) == \E i \in DOMAIN p : p[i] = "#"
Wild(p) == CHOOSE i \in DOMAIN p : p[i] = "#" /\ \A j \in 1..(i - 1) : p[j] # "#"
Agree(p, resource, n) ==
  n <= Len(resource) /\ \A i \in 1..n : p[i] \in {"*", resource[i]}
MatchResource(p, resource) ==
  IF Recursive(p)
  THEN Agree(p, resource, Wild(p) - 1)
  ELSE /\ Agree(p, resource, Len(p))
       /\ p[Len(p)] = "*" => Len(resource) = Len(p)
Depth(p) == IF Recursive(p) THEN Wild(p) ELSE Len(p)

ActionCovered(actions, action) == actions \cap {"*", action} # {}
SubjectMatches(subject, subjects) == subject # Absent /\ subjects \cap {"*", subject} # {}

Matching(entries, resource) == {p \in DOMAIN entries : MatchResource(p, resource)}
Deepest(document, resource) ==
  Max0({Depth(p) : p \in Matching(document.grants, resource) \cup Matching(document.revokes, resource)})
CoveredAt(entries, resource, action, depth) ==
  \E p \in Matching(entries, resource) : Depth(p) = depth /\ ActionCovered(entries[p], action)

\* What falls back to shallower grants, which the code must not.
AuthorizeFallingBack(subject, document, resource, action) ==
  /\ SubjectMatches(subject, document.subjects)
  /\ ~CoveredAt(document.revokes, resource, action, Deepest(document, resource))
  /\ \E d \in 1..Deepest(document, resource) : CoveredAt(document.grants, resource, action, d)
Authorize(subject, document, resource, action) ==
  LET deepest == Deepest(document, resource)
  IN  /\ SubjectMatches(subject, document.subjects)
      /\ deepest # 0
      /\ ~CoveredAt(document.revokes, resource, action, deepest)
      /\ CoveredAt(document.grants, resource, action, deepest)

-----------------------------------------------------------------------------
(* The catalogue.                                                          *)

\* The owner policy that stands in for a default one that nobody wrote.
BuiltinOwnerPolicy(t) ==
  [subjects |-> {t},
   grants |-> [p \in {<<t>>} |-> {"READ", "WRITE", "DELETE"}],
   revokes |-> [p \in {} |-> {}]]

InForce(table, t, id) ==
  {row \in Rows : row.tenant = t /\ row.id = id /\ table[row] # Absent /\ ~table[row].deprecated}
Latest(rows) == CHOOSE row \in rows : \A other \in rows : other.version <= row.version

\* Resolve: the newest version in force; a foreign policy and an unknown one are
\* refused, but the default one may be the built-in.
Resolve(table, t, pin) ==
  CASE pin.tenant # t -> Absent
    [] pin.tenant = t /\ InForce(table, t, pin.id) # {} -> table[Latest(InForce(table, t, pin.id))].document
    [] OTHER -> IF pin.id = DefaultPolicyID THEN BuiltinOwnerPolicy(t) ELSE Absent

\* Every request under way has now also seen what this catalogue has in force.
Witnessed(table) ==
  asking' = [c \in Callers |->
               IF asking[c].pc = "idle" THEN asking[c]
               ELSE [asking[c] EXCEPT !.seen = @ \cup {Resolve(table, asking[c].asked.tenant, asking[c].asked.pin)}]]

\* Create: a version is inserted once and never changes.
Create(row, document) ==
  /\ edits < MaxCatalogueEdits /\ edits' = edits + 1
  /\ catalogue[row] = Absent
  /\ catalogue' = [catalogue EXCEPT ![row] = [deprecated |-> FALSE, document |-> document]]
  /\ Witnessed(catalogue')

DeprecatePolicy(row) ==
  /\ edits < MaxCatalogueEdits /\ edits' = edits + 1
  /\ catalogue[row] # Absent
  /\ catalogue' = [catalogue EXCEPT ![row].deprecated = TRUE]
  /\ Witnessed(catalogue')

-----------------------------------------------------------------------------
(* Enforcement.                                                            *)

Quiet == [pc |-> "idle", asked |-> Absent, document |-> Absent, seen |-> {}]

\* enforceEntityRequest, and EnforceList with the default policy: a SYS_ADMIN is
\* not asked for.
Enforce(c, x) ==
  /\ asking[c] = Quiet
  /\ asking' = [asking EXCEPT ![c] = [pc |-> IF x.subject = SysAdmin THEN "serve" ELSE "policy", asked |-> x,
                                      document |-> Absent, seen |-> {Resolve(catalogue, x.tenant, x.pin)}]]
  /\ UNCHANGED <<catalogue, edits>>

\* Every resource the request names has to be permitted, or it is over.
Permits(x, document) == \A path \in x.paths : Authorize(x.subject, document, path, x.action)

ResolveAndAuthorize(c) ==
  LET x == asking[c].asked
      document == Resolve(catalogue, x.tenant, x.pin)
  IN  /\ asking[c].pc = "policy"
      /\ asking' = [asking EXCEPT ![c] = IF document # Absent /\ Permits(x, document)
                                         THEN [pc |-> "serve", asked |-> x, document |-> document, seen |-> @.seen]
                                         ELSE Quiet]
      /\ UNCHANGED <<catalogue, edits>>

\* The handler itself.
Served(c) ==
  /\ asking[c].pc = "serve"
  /\ asking' = [asking EXCEPT ![c] = Quiet]
  /\ UNCHANGED <<catalogue, edits>>

-----------------------------------------------------------------------------
PolicyInit ==
  /\ catalogue = [row \in Rows |-> Absent]
  /\ asking = [c \in Callers |-> Quiet]
  /\ edits = 0

PolicyNext ==
  \/ \E row \in Rows : DeprecatePolicy(row) \/ \E document \in Documents : Create(row, document)
  \/ \E c \in Callers : ResolveAndAuthorize(c) \/ Served(c) \/ \E x \in Asked : Enforce(c, x)

PolicySpec == PolicyInit /\ [][PolicyNext]_policyVars

-----------------------------------------------------------------------------
\* What the package's comment promises, entry by entry: some grant of the action
\* has no matching entry below it, and beside it no revoke of the action.
Permitted(subject, document, resource, action) ==
  LET grants == Matching(document.grants, resource)
      revokes == Matching(document.revokes, resource)
  IN  /\ \E bound \in document.subjects : bound \in {"*", subject}
      /\ \E g \in grants :
           /\ "*" \in document.grants[g] \/ action \in document.grants[g]
           /\ \A e \in grants \cup revokes : Depth(e) <= Depth(g)
           /\ \A e \in revokes : Depth(e) = Depth(g) => {"*", action} \cap document.revokes[e] = {}

\* A request reaches the twin only if a document of its tenant that was in force
\* at some time since it began permits every resource it names, however the
\* catalogue changed in the meantime.
ServedAsPermitted ==
  \A c \in Callers : asking[c].pc = "serve" /\ asking[c].asked.subject # SysAdmin =>
    LET x == asking[c].asked
    IN  \E document \in asking[c].seen \ {Absent} :
          \A path \in x.paths : Permitted(x.subject, document, path, x.action)
=============================================================================
