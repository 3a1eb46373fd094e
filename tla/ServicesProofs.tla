--------------------------- MODULE ServicesProofs ---------------------------
(***************************************************************************)
(* Safety of the services, each for itself: what the replicas share in the *)
(* database (KeyDictionary, StartUp), what they exchange with the devices  *)
(* (Rpc, DeviceState), and what they report (AuditLog, UsageReport,        *)
(* Listings); for any number of replicas, goroutines, keys, rows, calls,   *)
(* devices, values, days, hours and pages.                                 *)
(***************************************************************************)
EXTENDS KeyDictionary, StartUp, Rpc, DeviceState, AuditLog, UsageReport, Listings,
        FiniteSetTheorems, SequenceTheorems, TLAPS

(***************************************************************************)
(* The key dictionary.  The table never changes the number of a key that   *)
(* has one, and a new number is greater than all that were drawn (Drawn);  *)
(* a replica caches only what the table answered, or what it answered      *)
(* before.  The locks are not used: they spare statements, the table keeps *)
(* the keys.                                                               *)
(***************************************************************************)
Numbers == Nat \cup {Unknown}

Look ==
  [pc : {"idle", "lock", "insert", "select"}, key : DictKeys \cup {Unknown}, id : Numbers]

KeyTypeOK ==
  /\ dictionary \in [DictKeys -> Numbers] /\ sequence \in Nat
  /\ keyDict \in [Processes -> [DictKeys -> Numbers]]
  /\ holder \in [Processes -> Lookers \cup {Unknown}]
  /\ look \in [Lookers -> Look]
  /\ \A l \in Lookers : look[l].pc # "idle" => look[l].key \in DictKeys

Drawn == \A k \in DictKeys : dictionary[k] # Unknown => dictionary[k] <= sequence

KeyInv == KeyTypeOK /\ Drawn /\ KeysHaveOneNumber

------------------------------------------------------------------------------
LEMMA InitInv == KeyInit => KeyInv
BY KeyAssumption DEF KeyInit, KeyInv, KeyTypeOK, Drawn, KeysHaveOneNumber, NoLook, Look, Numbers

LEMMA LoadInv ==
  ASSUME KeyInv, NEW p \in Processes, LoadKeyDictionary(p)
  PROVE  KeyInv'
<1>1. keyDict' \in [Processes -> [DictKeys -> Numbers]]
  BY DEF LoadKeyDictionary, KeyInv, KeyTypeOK, Numbers
<1>2. \A q \in Processes, k \in DictKeys : keyDict'[q][k] \in {Unknown, dictionary[k]}
  BY DEF LoadKeyDictionary, KeyInv, KeyTypeOK, KeysHaveOneNumber, Numbers
<1> QED BY <1>1, <1>2 DEF LoadKeyDictionary, KeyInv, KeyTypeOK, Drawn, KeysHaveOneNumber

\* A goroutine goes on or answers a number; nothing else of it is the dictionary's.
LookAction(l) == \E v \in Look : look' = [look EXCEPT ![l] = v] /\ (v.pc # "idle" => v.key \in DictKeys)

LEMMA AnswerIsLook ==
  ASSUME NEW l \in Lookers, NEW id \in Numbers, Answer(l, id)
  PROVE  LookAction(l)
<1>1. [NoLook EXCEPT !.id = id] = [pc |-> "idle", key |-> Unknown, id |-> id]
  BY DEF NoLook
<1> QED BY <1>1 DEF Answer, LookAction, Look, Numbers

LEMMA ProceedIsLook ==
  ASSUME KeyTypeOK, NEW l \in Lookers, look[l].pc # "idle",
         NEW pc \in {"lock", "insert", "select"}, Proceed(l, pc)
  PROVE  LookAction(l)
<1> DEFINE v == [look[l] EXCEPT !.pc = pc]
<1>1. v \in Look /\ v.key \in DictKeys
  BY DEF KeyTypeOK, Look
<1>2. look' = [look EXCEPT ![l] = v]
  BY DEF Proceed
<1> QED BY <1>1, <1>2 DEF LookAction

LEMMA LookType ==
  ASSUME KeyTypeOK, NEW l \in Lookers, LookAction(l)
  PROVE  look' \in [Lookers -> Look] /\ \A m \in Lookers : look'[m].pc # "idle" => look'[m].key \in DictKeys
BY DEF KeyTypeOK, LookAction

\* A step that leaves the table and the caches alone.
LEMMA QuietStep ==
  ASSUME KeyInv, NEW l \in Lookers, LookAction(l), UNCHANGED <<dictionary, sequence, keyDict>>,
         holder' \in [Processes -> Lookers \cup {Unknown}]
  PROVE  KeyInv'
BY LookType DEF KeyInv, KeyTypeOK, Drawn, KeysHaveOneNumber

LEMMA GetInv ==
  ASSUME KeyInv, NEW l \in Lookers, NEW k \in DictKeys, GetOrInsertKeyID(l, k)
  PROVE  KeyInv'
<1>1. ProcessOf[l] \in Processes /\ keyDict[ProcessOf[l]][k] \in Numbers
  BY KeyAssumption DEF KeyInv, KeyTypeOK
<1> DEFINE id == keyDict[ProcessOf[l]][k]
           v == IF id # Unknown THEN [NoLook EXCEPT !.id = id] ELSE [pc |-> "lock", key |-> k, id |-> Unknown]
<1>2. LookAction(l)
  <2>1. look' = [look EXCEPT ![l] = v]
    BY DEF GetOrInsertKeyID
  <2>2. v \in Look /\ (v.pc # "idle" => v.key \in DictKeys)
    BY <1>1 DEF Look, NoLook, Numbers
  <2> HIDE DEF v
  <2> QED BY <2>1, <2>2 DEF LookAction
<1>3. UNCHANGED <<dictionary, sequence, keyDict, holder>>
  BY DEF GetOrInsertKeyID
<1>4. holder' \in [Processes -> Lookers \cup {Unknown}]
  BY <1>3 DEF KeyInv, KeyTypeOK
<1> QED BY <1>2, <1>3, <1>4, QuietStep

LEMMA TakeLockInv ==
  ASSUME KeyInv, NEW l \in Lookers, TakeLock(l)
  PROVE  KeyInv'
<1>1. look[l].key \in DictKeys /\ Cached(l) \in Numbers
  BY KeyAssumption DEF TakeLock, KeyInv, KeyTypeOK, Cached
<1>2. LookAction(l)
  BY <1>1, AnswerIsLook, ProceedIsLook DEF TakeLock, KeyInv
<1>3. holder' \in [Processes -> Lookers \cup {Unknown}]
  BY DEF TakeLock, KeyInv, KeyTypeOK
<1> QED BY <1>2, <1>3, QuietStep DEF TakeLock

LEMMA ReleaseType ==
  ASSUME KeyTypeOK, NEW l \in Lookers, Release(l)
  PROVE  holder' \in [Processes -> Lookers \cup {Unknown}]
BY DEF Release, KeyTypeOK

LEMMA FailsInv ==
  ASSUME KeyInv, NEW l \in Lookers, Fails(l)
  PROVE  KeyInv'
<1>1. LookAction(l)
  BY AnswerIsLook DEF Fails, Numbers
<1> QED BY <1>1, ReleaseType, QuietStep DEF Fails, KeyInv

\* The cache of the replica takes the number that the table has by then.
LEMMA CacheStep ==
  ASSUME KeyInv, NEW l \in Lookers, look[l].key \in DictKeys, NEW id \in Numbers, Cache(l, id),
         id = dictionary'[look[l].key],
         \A k \in DictKeys : dictionary[k] # Unknown => dictionary'[k] = dictionary[k]
  PROVE  /\ keyDict' \in [Processes -> [DictKeys -> Numbers]]
         /\ \A p \in Processes, k \in DictKeys : keyDict'[p][k] \in {Unknown, dictionary'[k]}
<1>1. ProcessOf[l] \in Processes
  BY KeyAssumption
<1>2. keyDict' \in [Processes -> [DictKeys -> Numbers]]
  BY <1>1 DEF Cache, KeyInv, KeyTypeOK
<1>3. ASSUME NEW p \in Processes, NEW k \in DictKeys
      PROVE  keyDict'[p][k] \in {Unknown, dictionary'[k]}
  <2>1. CASE p = ProcessOf[l] /\ k = look[l].key
    BY <1>1, <2>1 DEF Cache, KeyInv, KeyTypeOK
  <2>2. CASE ~(p = ProcessOf[l] /\ k = look[l].key)
    <3>1. keyDict'[p][k] = keyDict[p][k]
      BY <1>1, <2>2 DEF Cache, KeyInv, KeyTypeOK
    <3> QED BY <3>1 DEF KeyInv, KeysHaveOneNumber
  <2> QED BY <2>1, <2>2
<1> QED BY <1>2, <1>3

LEMMA SelectInv ==
  ASSUME KeyInv, NEW l \in Lookers, SelectKey(l)
  PROVE  KeyInv'
<1> DEFINE id == dictionary[look[l].key]
<1>1. look[l].key \in DictKeys /\ id \in Numbers
  BY DEF SelectKey, KeyInv, KeyTypeOK
<1>2. LookAction(l) /\ Release(l) /\ Cache(l, id) /\ UNCHANGED <<dictionary, sequence>>
  BY <1>1, AnswerIsLook DEF SelectKey
<1>3. /\ keyDict' \in [Processes -> [DictKeys -> Numbers]]
      /\ \A p \in Processes, k \in DictKeys : keyDict'[p][k] \in {Unknown, dictionary'[k]}
  BY <1>1, <1>2, CacheStep
<1> QED BY <1>2, <1>3, LookType, ReleaseType DEF KeyInv, KeyTypeOK, Drawn, KeysHaveOneNumber

LEMMA InsertInv ==
  ASSUME KeyInv, NEW l \in Lookers, InsertKey(l)
  PROVE  KeyInv'
<1> DEFINE key == look[l].key  n == sequence + 1
<1>1. key \in DictKeys /\ n \in Nat /\ sequence \in Nat /\ n > sequence /\ look[l].pc = "insert" /\ sequence' = n
  BY DEF InsertKey, KeyInv, KeyTypeOK
<1>2. CASE dictionary[key] # Unknown
  <2>1. Proceed(l, "select") /\ UNCHANGED <<dictionary, keyDict, holder>>
    BY <1>2 DEF InsertKey, Conflicts
  <2>2. LookAction(l)
    BY <1>1, <2>1, ProceedIsLook DEF KeyInv
  <2>3. \A k \in DictKeys : dictionary[k] # Unknown => dictionary[k] \in Nat
    BY DEF KeyInv, KeyTypeOK, Numbers
  <2> QED BY <1>1, <2>1, <2>2, <2>3, LookType DEF KeyInv, KeyTypeOK, Drawn, KeysHaveOneNumber
<1>3. CASE dictionary[key] = Unknown
  <2>1. /\ dictionary' = [dictionary EXCEPT ![key] = n]
        /\ Answer(l, n) /\ Cache(l, n) /\ Release(l)
    BY <1>3 DEF InsertKey
  <2>2. LookAction(l)
    BY <1>1, <2>1, AnswerIsLook DEF Numbers
  <2>3. /\ dictionary' \in [DictKeys -> Numbers] /\ dictionary'[key] = n
        /\ \A k \in DictKeys : k # key => dictionary'[k] = dictionary[k]
    BY <1>1, <2>1 DEF KeyInv, KeyTypeOK, Numbers
  <2>4. /\ keyDict' \in [Processes -> [DictKeys -> Numbers]]
        /\ \A p \in Processes, k \in DictKeys : keyDict'[p][k] \in {Unknown, dictionary'[k]}
    <3>1. n \in Numbers
      BY <1>1 DEF Numbers
    <3> QED BY <1>1, <1>3, <2>1, <2>3, <3>1, CacheStep
  <2>5. \A k \in DictKeys : dictionary[k] # Unknown => dictionary[k] \in Nat /\ dictionary[k] < n
    BY <1>1 DEF KeyInv, KeyTypeOK, Numbers, Drawn
  <2>6. Drawn'
    BY <1>1, <2>3, <2>5 DEF Drawn
  <2>7. ASSUME NEW j \in DictKeys, NEW k \in DictKeys, dictionary'[j] = dictionary'[k], j # k
        PROVE  dictionary'[j] = Unknown
    <3>1. CASE j = key \/ k = key
      BY <1>1, <2>3, <2>5, <2>7, <3>1, KeyAssumption
    <3>2. CASE j # key /\ k # key
      BY <2>3, <2>7, <3>2 DEF KeyInv, KeysHaveOneNumber
    <3> QED BY <3>1, <3>2
  <2>8. KeysHaveOneNumber'
    BY <2>4, <2>7 DEF KeysHaveOneNumber
  <2> QED BY <1>1, <2>1, <2>2, <2>3, <2>4, <2>6, <2>8, LookType, ReleaseType DEF KeyInv, KeyTypeOK
<1> QED BY <1>2, <1>3

LEMMA StepInv == KeyInv /\ [KeyNext]_keyVars => KeyInv'
<1> SUFFICES ASSUME KeyInv, [KeyNext]_keyVars PROVE KeyInv'
  OBVIOUS
<1>1. CASE UNCHANGED keyVars
  BY <1>1 DEF keyVars, KeyInv, KeyTypeOK, Drawn, KeysHaveOneNumber
<1>2. CASE \E p \in Processes : LoadKeyDictionary(p)
  BY <1>2, LoadInv
<1>3. CASE \E l \in Lookers : TakeLock(l) \/ Fails(l) \/ InsertKey(l) \/ SelectKey(l)
  BY <1>3, TakeLockInv, FailsInv, InsertInv, SelectInv
<1>4. CASE \E l \in Lookers, k \in DictKeys : GetOrInsertKeyID(l, k)
  BY <1>4, GetInv
<1> QED BY <1>1, <1>2, <1>3, <1>4 DEF KeyNext

------------------------------------------------------------------------------
\* GetOrInsertKeyID and LoadKeyDictionary, in every interleaving of replicas,
\* with failing statements and reloads: a key has one number in all replicas,
\* and no number stands for two keys.
THEOREM OneNumber == KeySpec => []KeysHaveOneNumber
<1>1. KeyInv => KeysHaveOneNumber
  BY DEF KeyInv
<1> QED BY InitInv, StepInv, <1>1, PTL DEF KeySpec

\* The types of the table, of the caches and of the goroutines under way.
THEOREM KeysTypeCorrect == KeySpec => []KeyTypeOK
<1>1. KeyInv => KeyTypeOK
  BY DEF KeyInv
<1> QED BY InitInv, StepInv, <1>1, PTL DEF KeySpec

(***************************************************************************)
(* The catalogues.  A start that is not flawed found the schema migrated,  *)
(* so the SCADA symbols stored have their present shape (Shaped), no       *)
(* migration clears them any more, and what is there stays; a catalogue of *)
(* one transaction is there whole or not at all (OneByOne); and the start  *)
(* has seeded every catalogue that it does not have before it.             *)
(***************************************************************************)
InOneTransaction == {"widgets", "symbols", "symbolWidgets", "images"}
LoaderPcs == {"probe", "insert", "commit", "row", "absent"}

Startups == [pc : LoaderPcs \cup {"down", "migrating", "seeded"}, todo : Seq(Catalogues),
           row : Items, flawed : BOOLEAN]

StartTypeOK ==
  /\ schema \in Nat /\ dirty \in BOOLEAN /\ outdated \in BOOLEAN
  /\ migrator \in Starters \cup {Unlocked}
  /\ migration \in [Starters -> {"read", "force", "lock", "up", "over"}]
  /\ startup \in [Starters -> Startups]
  /\ rows \in [Catalogues -> [Items -> Nat]]
  /\ mishaps \in Nat

\* Who migrates, and when the symbols may have the older shape.
Shaped ==
  /\ schema <= LatestSchema
  /\ dirty => migrator = Unlocked
  /\ \A p \in Starters : migration[p] = "up" <=> migrator = p
  /\ outdated => schema >= 1 /\ (schema >= 2 => dirty)
  /\ \A p \in Starters : migration[p] = "force" => ~outdated
  /\ \A p \in Starters : startup[p].pc # "down" /\ migration[p] = "over" /\ outdated => dirty
  /\ \A p \in Starters : startup[p].pc = "down" => migration[p] = "over"

OneByOne ==
  \A c \in InOneTransaction : (\A i \in Items : rows[c][i] = 0) \/ (\A i \in Items : rows[c][i] = 1)

EntireCatalogue(c) == \A i \in Items : rows[c][i] > 0
Behind(s, c) == \A i \in DOMAIN s.todo : s.todo[i] # c

\* What is left to do: something while a loader runs, and the widgets only first.
Queued(s) ==
  /\ s.pc \in LoaderPcs => s.todo # <<>>
  /\ s.pc = "seeded" => s.todo = <<>>
  /\ \A i \in DOMAIN s.todo : i > 1 => s.todo[i] # "widgets"
  /\ s.pc = "probe" => s.row = 1

Seeded(s) ==
  s.pc \in LoaderPcs \cup {"seeded"} /\ ~s.flawed =>
    /\ ~outdated
    /\ \A c \in Catalogues \ {"templates"} : Behind(s, c) => EntireCatalogue(c)
    /\ s.pc \in {"row", "absent"} /\ Head(s.todo) # "templates" =>
         \A i \in Items : i < s.row => rows[Head(s.todo)][i] > 0

SeedInv ==
  /\ StartTypeOK /\ Shaped /\ OneByOne
  /\ \A p \in Starters : Queued(startup[p]) /\ Seeded(startup[p])

-----------------------------------------------------------------------------
LEMMA CataloguesAre ==
  Catalogues = {"widgets", "dashboards", "symbols", "symbolWidgets", "images", "templates",
                "demoDashboards", "demo"}
<1>1. DOMAIN LoadSystem = 1..7
  BY DEF LoadSystem
<1>2. {LoadSystem[i] : i \in 1..7} =
        {"widgets", "dashboards", "symbols", "symbolWidgets", "images", "templates", "demoDashboards"}
  <2>1. /\ LoadSystem[1] = "widgets" /\ LoadSystem[2] = "dashboards" /\ LoadSystem[3] = "symbols"
        /\ LoadSystem[4] = "symbolWidgets" /\ LoadSystem[5] = "images" /\ LoadSystem[6] = "templates"
        /\ LoadSystem[7] = "demoDashboards"
    BY DEF LoadSystem
  <2>2. \A i \in 1..7 : i = 1 \/ i = 2 \/ i = 3 \/ i = 4 \/ i = 5 \/ i = 6 \/ i = 7
    OBVIOUS
  <2> HIDE DEF LoadSystem
  <2> QED BY <2>1, <2>2
<1> QED BY <1>1, <1>2 DEF Catalogues

LEMMA OneMore ==
  ASSUME NEW s \in Seq(Catalogues), NEW t \in Seq(Catalogues), Len(s) = 7, Len(t) = 1
  PROVE  /\ s \o t \in Seq(Catalogues) /\ Len(s \o t) = 8
         /\ \A i \in 1..7 : (s \o t)[i] = s[i]
         /\ (s \o t)[8] = t[1]
<1>1. /\ s \o t \in Seq(Catalogues) /\ Len(s \o t) = Len(s) + Len(t)
      /\ \A i \in 1..(Len(s) + Len(t)) : (s \o t)[i] = IF i <= Len(s) THEN s[i] ELSE t[i - Len(s)]
  BY ConcatProperties
<1> QED BY <1>1

LEMMA OrderIs ==
  /\ LoadSystem \o LoadDemo \in Seq(Catalogues)
  /\ DOMAIN (LoadSystem \o LoadDemo) = 1..8
  /\ \A c \in Catalogues : \E i \in 1..8 : (LoadSystem \o LoadDemo)[i] = c
  /\ \A i \in 1..8 : i > 1 => (LoadSystem \o LoadDemo)[i] # "widgets"
<1> DEFINE o == LoadSystem \o LoadDemo
<1>1. /\ LoadSystem \in Seq(Catalogues) /\ Len(LoadSystem) = 7
      /\ LoadDemo \in Seq(Catalogues) /\ Len(LoadDemo) = 1
  BY CataloguesAre DEF LoadSystem, LoadDemo
<1>2. /\ o \in Seq(Catalogues) /\ Len(o) = 8
      /\ \A i \in 1..7 : o[i] = LoadSystem[i]
      /\ o[8] = LoadDemo[1]
  BY <1>1, OneMore, Zenon
<1>3. /\ LoadSystem[1] = "widgets" /\ LoadSystem[2] = "dashboards" /\ LoadSystem[3] = "symbols"
      /\ LoadSystem[4] = "symbolWidgets" /\ LoadSystem[5] = "images" /\ LoadSystem[6] = "templates"
      /\ LoadSystem[7] = "demoDashboards" /\ LoadDemo[1] = "demo"
  BY DEF LoadSystem, LoadDemo
<1> HIDE DEF o
<1>6. /\ o[1] = "widgets" /\ o[2] = "dashboards" /\ o[3] = "symbols"
      /\ o[4] = "symbolWidgets" /\ o[5] = "images" /\ o[6] = "templates"
      /\ o[7] = "demoDashboards" /\ o[8] = "demo"
  BY <1>2, <1>3
<1>7. \A i \in 1..8 : i = 1 \/ i = 2 \/ i = 3 \/ i = 4 \/ i = 5 \/ i = 6 \/ i = 7 \/ i = 8
  OBVIOUS
<1>8. \A c \in Catalogues : \E i \in 1..8 : o[i] = c
  <2> SUFFICES ASSUME NEW c \in Catalogues PROVE \E i \in 1..8 : o[i] = c
    OBVIOUS
  <2>1. 1 \in 1..8 /\ 2 \in 1..8 /\ 3 \in 1..8 /\ 4 \in 1..8 /\ 5 \in 1..8 /\ 6 \in 1..8 /\ 7 \in 1..8 /\ 8 \in 1..8
    OBVIOUS
  <2> QED BY <1>6, <2>1, CataloguesAre
<1>9. \A i \in 1..8 : i > 1 => o[i] # "widgets"
  BY <1>6, <1>7
<1>10. DOMAIN o = 1..8
  BY <1>2
<1> QED BY <1>2, <1>8, <1>9, <1>10 DEF o

LEMMA TailIs ==
  ASSUME NEW s \in Seq(Catalogues), s # <<>>
  PROVE  /\ Head(s) \in Catalogues /\ 1 \in DOMAIN s /\ s[1] = Head(s)
         /\ Tail(s) \in Seq(Catalogues)
         /\ \A i \in DOMAIN Tail(s) : i + 1 \in DOMAIN s /\ i + 1 > 1 /\ Tail(s)[i] = s[i + 1]
         /\ \A i \in DOMAIN s : i = 1 \/ (i - 1 \in DOMAIN Tail(s) /\ Tail(s)[i - 1] = s[i])
         /\ Len(s) = 1 <=> Tail(s) = <<>>
<1>1. /\ Len(s) \in Nat \ {0} /\ DOMAIN s = 1..Len(s)
      /\ Tail(s) \in Seq(Catalogues) /\ Len(Tail(s)) = Len(s) - 1
      /\ \A i \in 1..Len(Tail(s)) : Tail(s)[i] = s[i + 1]
      /\ Head(s) = s[1] /\ Head(s) \in Catalogues
  BY HeadTailProperties
<1>2. DOMAIN Tail(s) = 1..(Len(s) - 1)
  BY <1>1
<1>3. \A i \in DOMAIN Tail(s) : i + 1 \in DOMAIN s /\ i + 1 > 1 /\ Tail(s)[i] = s[i + 1]
  BY <1>1, <1>2
<1>4. \A i \in DOMAIN s : i = 1 \/ (i - 1 \in DOMAIN Tail(s) /\ Tail(s)[i - 1] = s[i])
  <2> SUFFICES ASSUME NEW i \in 1..Len(s), i # 1 PROVE i - 1 \in DOMAIN Tail(s) /\ Tail(s)[i - 1] = s[i]
    BY <1>1
  <2>1. i - 1 \in DOMAIN Tail(s) /\ (i - 1) + 1 = i
    BY <1>1, <1>2
  <2> QED BY <1>3, <2>1
<1>5. Len(s) = 1 <=> Tail(s) = <<>>
  BY <1>1
<1> QED BY <1>1, <1>3, <1>4, <1>5

LEMMA NextIs ==
  ASSUME NEW s \in Startups, Queued(s), s.pc \in LoaderPcs, NEW flaw \in BOOLEAN
  PROVE  /\ NextLoader(s, flaw) \in Startups /\ Queued(NextLoader(s, flaw))
         /\ NextLoader(s, flaw).pc \in {"probe", "seeded"}
         /\ NextLoader(s, flaw).flawed = (s.flawed \/ flaw)
         /\ \A c : Behind(NextLoader(s, flaw), c) => Behind(s, c) \/ c = Head(s.todo)
<1> DEFINE n == NextLoader(s, flaw)
<1>1. s.todo \in Seq(Catalogues) /\ s.todo # <<>> /\ s.flawed \in BOOLEAN
  BY DEF Startups, Queued
<1>2. /\ Tail(s.todo) \in Seq(Catalogues)
      /\ \A i \in DOMAIN Tail(s.todo) : i + 1 \in DOMAIN s.todo /\ i + 1 > 1 /\ Tail(s.todo)[i] = s.todo[i + 1]
      /\ \A i \in DOMAIN s.todo : i = 1 \/ (i - 1 \in DOMAIN Tail(s.todo) /\ Tail(s.todo)[i - 1] = s.todo[i])
      /\ Len(s.todo) = 1 <=> Tail(s.todo) = <<>>
      /\ s.todo[1] = Head(s.todo)
  BY <1>1, TailIs
<1>3. /\ n.pc = (IF Len(s.todo) = 1 THEN "seeded" ELSE "probe") /\ n.todo = Tail(s.todo)
      /\ n.row = 1 /\ n.flawed = (s.flawed \/ flaw)
  BY DEF NextLoader
<1>4. n \in Startups
  BY <1>1, <1>2, StartUpAssumption DEF NextLoader, Startups, LoaderPcs, Items
<1>5. n.pc \in {"probe", "seeded"}
  BY <1>3
<1> HIDE DEF n
<1>6. Queued(n)
  <2>1. n.pc \in LoaderPcs => n.todo # <<>>
    BY <1>2, <1>3 DEF LoaderPcs
  <2>2. n.pc = "seeded" => n.todo = <<>>
    BY <1>2, <1>3
  <2>3. \A i \in DOMAIN n.todo : i > 1 => n.todo[i] # "widgets"
    BY <1>2, <1>3 DEF Queued
  <2> QED BY <1>3, <2>1, <2>2, <2>3 DEF Queued
<1>7. \A c : Behind(n, c) => Behind(s, c) \/ c = Head(s.todo)
  <2> SUFFICES ASSUME NEW c, Behind(n, c), c # Head(s.todo), NEW i \in DOMAIN s.todo
               PROVE  s.todo[i] # c
    BY DEF Behind
  <2>1. CASE i = 1
    BY <1>2, <2>1
  <2>2. CASE i # 1
    <3>1. i - 1 \in DOMAIN n.todo /\ n.todo[i - 1] = s.todo[i]
      BY <1>2, <1>3, <2>2
    <3> QED BY <3>1 DEF Behind
  <2> QED BY <2>1, <2>2
<1> QED BY <1>3, <1>4, <1>5, <1>6, <1>7 DEF n

(* One start's step, with what the steps of the loaders leave to the others. *)
SeedsOn ==
  /\ startup \in [Starters -> Startups]
  /\ \A p \in Starters : Queued(startup[p]) /\ Seeded(startup[p])

Stays ==
  ~outdated => /\ ~outdated'
               /\ \A c \in Catalogues \ {"templates"}, i \in Items : rows[c][i] > 0 => rows'[c][i] > 0

Alive == \A p \in Starters : startup'[p].pc # "down" <=> startup[p].pc # "down"

LEMMA SeededStays ==
  ASSUME Stays, NEW s \in Startups, Queued(s), Seeded(s) PROVE Seeded(s)'
<1> SUFFICES ASSUME s.pc \in LoaderPcs \cup {"seeded"}, ~s.flawed
             PROVE  /\ ~outdated'
                    /\ \A c \in Catalogues \ {"templates"} : Behind(s, c) => EntireCatalogue(c)'
                    /\ s.pc \in {"row", "absent"} /\ Head(s.todo) # "templates" =>
                         \A i \in Items : i < s.row => rows'[Head(s.todo)][i] > 0
  BY DEF Seeded, Behind
<1>1. /\ ~outdated'
      /\ \A c \in Catalogues \ {"templates"}, i \in Items : rows[c][i] > 0 => rows'[c][i] > 0
  BY DEF Seeded, Stays
<1>2. \A c \in Catalogues \ {"templates"} : Behind(s, c) => EntireCatalogue(c)'
  BY <1>1 DEF Seeded, EntireCatalogue
<1>3. ASSUME s.pc \in {"row", "absent"}, Head(s.todo) # "templates", NEW i \in Items, i < s.row
      PROVE  rows'[Head(s.todo)][i] > 0
  <2>1. s.todo \in Seq(Catalogues) /\ s.todo # <<>>
    BY <1>3 DEF Startups, Queued, LoaderPcs
  <2>2. Head(s.todo) \in Catalogues
    BY <2>1, TailIs
  <2> QED BY <1>1, <1>3, <2>2 DEF Seeded
<1> QED BY <1>1, <1>2, <1>3

LEMMA OneStart ==
  ASSUME SeedInv, Stays, NEW p \in Starters, NEW n \in Startups, Queued(n), Seeded(n)',
         startup[p].pc # "down", n.pc # "down", startup' = [startup EXCEPT ![p] = n]
  PROVE  SeedsOn' /\ Alive
<1>1. startup' \in [Starters -> Startups]
  BY DEF SeedInv, StartTypeOK
<1>2. ASSUME NEW q \in Starters
      PROVE  Queued(startup[q])' /\ Seeded(startup[q])' /\ (startup'[q].pc # "down" <=> startup[q].pc # "down")
  <2>1. CASE q = p
    <3>1. startup'[q] = n
      BY <2>1 DEF SeedInv, StartTypeOK
    <3> QED BY <2>1, <3>1 DEF Queued, Seeded, Behind, EntireCatalogue
  <2>2. CASE q # p
    <3>1. startup'[q] = startup[q] /\ startup[q] \in Startups /\ Queued(startup[q]) /\ Seeded(startup[q])
      BY <2>2 DEF SeedInv, StartTypeOK
    <3> DEFINE s == startup[q]
    <3> HIDE DEF s
    <3>2. ASSUME NEW t \in Startups, t = startup[q] PROVE Queued(startup[q])' /\ Seeded(startup[q])'
      <4>1. Seeded(t)' /\ Queued(t)
        BY <3>1, <3>2, SeededStays
      <4> QED BY <3>1, <3>2, <4>1 DEF Queued, Seeded, Behind, EntireCatalogue
    <3> QED BY <3>1, <3>2
  <2> QED BY <2>1, <2>2
<1> QED BY <1>1, <1>2 DEF SeedsOn, Alive

LEMMA LoaderEndsKeeps ==
  ASSUME SeedInv, Stays, NEW p \in Starters, NEW flaw \in BOOLEAN, startup[p].pc \in LoaderPcs,
         LoaderEnds(p, flaw),
         NEW h, h = Head(startup[p].todo), flaw \/ h = "templates" \/ EntireCatalogue(h)'
  PROVE  SeedsOn' /\ Alive
<1> DEFINE s == startup[p]
           n == NextLoader(s, flaw)
<1>1. s \in Startups /\ Queued(s) /\ Seeded(s)
  BY DEF SeedInv, StartTypeOK
<1>2. /\ n \in Startups /\ Queued(n) /\ n.pc \in {"probe", "seeded"} /\ n.flawed = (s.flawed \/ flaw)
      /\ \A c : Behind(n, c) => Behind(s, c) \/ c = Head(s.todo)
  BY <1>1, NextIs
<1>3. ASSUME NEW m, m = n PROVE Seeded(m)'
  <2> SUFFICES ASSUME ~m.flawed
               PROVE  ~outdated' /\ \A c \in Catalogues \ {"templates"} : Behind(m, c) => EntireCatalogue(c)'
    BY <1>2, <1>3 DEF Seeded, Behind
  <2>1. ~s.flawed /\ ~flaw
    BY <1>2, <1>3
  <2>2. /\ ~outdated /\ \A c \in Catalogues \ {"templates"} : Behind(s, c) => EntireCatalogue(c)
    BY <1>1, <2>1 DEF Seeded
  <2>3. /\ ~outdated'
        /\ \A c \in Catalogues \ {"templates"}, i \in Items : rows[c][i] > 0 => rows'[c][i] > 0
    BY <2>2 DEF Stays
  <2>4. ASSUME NEW c \in Catalogues \ {"templates"}, Behind(m, c) PROVE EntireCatalogue(c)'
    <3>1. CASE Behind(s, c)
      BY <2>2, <2>3, <3>1 DEF EntireCatalogue
    <3>2. CASE c = h
      BY <2>1, <2>4, <3>2
    <3> QED BY <1>2, <1>3, <2>4, <3>1, <3>2
  <2> QED BY <2>3, <2>4
<1>4. startup' = [startup EXCEPT ![p] = n] /\ startup[p].pc # "down"
  BY DEF LoaderEnds, LoaderPcs
<1> HIDE DEF n
<1>5. ASSUME NEW m \in Startups, m = n PROVE SeedsOn' /\ Alive
  <2>1. Queued(m) /\ Seeded(m)' /\ startup' = [startup EXCEPT ![p] = m] /\ m.pc # "down"
    BY <1>2, <1>3, <1>4, <1>5
  <2> QED BY <1>4, <2>1, OneStart
<1> QED BY <1>2, <1>5

LEMMA GotoKeeps ==
  ASSUME SeedInv, rows' = rows, outdated' = outdated, NEW p \in Starters, startup[p].pc \in LoaderPcs,
         NEW pc \in LoaderPcs \ {"probe"}, pc \in {"row", "absent"} => startup[p].pc \in {"probe", "row"},
         Goto(p, pc)
  PROVE  SeedsOn' /\ Alive
<1> DEFINE s == startup[p]
           n == [s EXCEPT !.pc = pc]
<1>1. s \in Startups /\ Queued(s) /\ Seeded(s)
  BY DEF SeedInv, StartTypeOK
<1>2. n \in Startups /\ n.pc = pc /\ n.todo = s.todo /\ n.row = s.row /\ n.flawed = s.flawed
  BY <1>1 DEF Startups
<1>3. startup' = [startup EXCEPT ![p] = n] /\ startup[p].pc # "down"
  BY DEF Goto, LoaderPcs
<1> HIDE DEF n
<1>4. Queued(n)
  BY <1>1, <1>2 DEF Queued, LoaderPcs
<1>5. Seeded(n)
  <2> SUFFICES ASSUME ~n.flawed
               PROVE  /\ ~outdated
                      /\ \A c \in Catalogues \ {"templates"} : Behind(n, c) => EntireCatalogue(c)
                      /\ pc \in {"row", "absent"} /\ Head(n.todo) # "templates" =>
                           \A i \in Items : i < n.row => rows[Head(n.todo)][i] > 0
    BY <1>2 DEF Seeded
  <2>1. /\ ~outdated
        /\ \A c \in Catalogues \ {"templates"} : Behind(n, c) => EntireCatalogue(c)
    BY <1>1, <1>2 DEF Seeded, Behind
  <2>2. ASSUME pc \in {"row", "absent"}, Head(n.todo) # "templates", NEW i \in Items, i < n.row
        PROVE  rows[Head(n.todo)][i] > 0
    <3>1. CASE s.pc = "probe"
      BY <1>1, <1>2, <2>2, <3>1 DEF Queued, Items
    <3>2. CASE s.pc = "row"
      BY <1>1, <1>2, <2>2, <3>2 DEF Seeded
    <3> QED BY <2>2, <3>1, <3>2
  <2> QED BY <2>1, <2>2
<1>6. Stays
  BY DEF Stays
<1>7. ASSUME NEW m \in Startups, m = n PROVE SeedsOn' /\ Alive
  <2>1. Queued(m) /\ Seeded(m)' /\ startup' = [startup EXCEPT ![p] = m]
    BY <1>3, <1>4, <1>5, <1>6, <1>7, SeededStays
  <2>2. m.pc # "down"
    BY <1>2, <1>7 DEF LoaderPcs
  <2> QED BY <1>3, <1>6, <2>1, <2>2, OneStart
<1> QED BY <1>2, <1>7

LEMMA RowEndsKeeps ==
  ASSUME SeedInv, Stays, NEW p \in Starters, NEW flaw \in BOOLEAN, startup[p].pc \in {"row", "absent"},
         RowEnds(p, flaw),
         NEW h, h = Head(startup[p].todo),
         flaw \/ h = "templates" \/ rows'[h][startup[p].row] > 0
  PROVE  SeedsOn' /\ Alive
<1> DEFINE s == startup[p]
<1>1. /\ s \in Startups /\ Queued(s) /\ Seeded(s) /\ s.pc \in LoaderPcs /\ s.row \in Items
      /\ h \in Catalogues /\ s.pc # "down"
  <2>1. s \in Startups /\ Queued(s) /\ Seeded(s) /\ s.pc \in LoaderPcs /\ s.pc # "down"
    BY DEF SeedInv, StartTypeOK, LoaderPcs
  <2>2. s.todo \in Seq(Catalogues) /\ s.todo # <<>> /\ s.row \in Items
    BY <2>1 DEF Startups, Queued
  <2> QED BY <2>1, <2>2, TailIs
<1>2. ASSUME ~s.flawed, h # "templates", NEW i \in Items, i < s.row PROVE rows'[h][i] > 0
  BY <1>1, <1>2 DEF Seeded, Stays
<1>3. CASE s.row = RowCount
  <2>1. LoaderEnds(p, flaw)
    BY <1>3 DEF RowEnds, NextRow, LoaderEnds
  <2>2. CASE ~s.flawed /\ ~flaw /\ h # "templates"
    <3>1. EntireCatalogue(h)'
      <4> SUFFICES ASSUME NEW i \in Items PROVE rows'[h][i] > 0
        BY DEF EntireCatalogue
      <4>1. i < s.row \/ i = s.row
        BY <1>3, StartUpAssumption DEF Items
      <4> QED BY <1>2, <2>2, <4>1
    <3> QED BY <1>1, <2>1, <3>1, LoaderEndsKeeps
  <2>3. CASE flaw \/ h = "templates"
    BY <1>1, <2>1, <2>3, LoaderEndsKeeps
  <2>4. CASE s.flawed /\ ~flaw
    <3>1. LoaderEnds(p, TRUE)
      BY <1>1, <2>1, <2>4 DEF LoaderEnds, NextLoader
    <3> QED BY <1>1, <3>1, LoaderEndsKeeps
  <2> QED BY <2>2, <2>3, <2>4
<1>4. CASE s.row # RowCount
  <2> DEFINE n == [pc |-> "row", todo |-> s.todo, row |-> s.row + 1, flawed |-> s.flawed \/ flaw]
  <2>1. startup' = [startup EXCEPT ![p] = n]
    BY <1>4 DEF RowEnds, NextRow
  <2>2. s.row + 1 \in Items
    BY <1>1, <1>4, StartUpAssumption DEF Items
  <2>3. /\ n \in Startups /\ n.pc = "row" /\ n.todo = s.todo /\ n.row = s.row + 1
        /\ n.flawed = (s.flawed \/ flaw)
    BY <1>1, <2>2 DEF Startups, LoaderPcs
  <2> HIDE DEF n
  <2>4. Queued(n)
    BY <1>1, <2>3 DEF Queued, LoaderPcs
  <2>5. ASSUME NEW m, m = n PROVE Seeded(m)'
    <3> SUFFICES ASSUME ~s.flawed, ~flaw
                 PROVE  /\ ~outdated'
                        /\ \A c \in Catalogues \ {"templates"} : Behind(m, c) => EntireCatalogue(c)'
                        /\ Head(m.todo) # "templates" =>
                             \A i \in Items : i < m.row => rows'[Head(m.todo)][i] > 0
      BY <2>3, <2>5 DEF Seeded, Behind
    <3>1. ~outdated /\ \A c \in Catalogues \ {"templates"} : Behind(m, c) => EntireCatalogue(c)
      BY <1>1, <2>3, <2>5 DEF Seeded, Behind
    <3>2. ~outdated' /\ \A c \in Catalogues \ {"templates"} : Behind(m, c) => EntireCatalogue(c)'
      BY <3>1 DEF Stays, EntireCatalogue
    <3>3. ASSUME h # "templates", NEW i \in Items, i < s.row + 1 PROVE rows'[h][i] > 0
      <4>1. i < s.row \/ i = s.row
        BY <1>1, <3>3, StartUpAssumption DEF Items
      <4> QED BY <1>2, <3>3, <4>1
    <3> QED BY <2>3, <2>5, <3>2, <3>3
  <2>6. ASSUME NEW m \in Startups, m = n PROVE SeedsOn' /\ Alive
    <3>1. Queued(m) /\ Seeded(m)' /\ startup' = [startup EXCEPT ![p] = m] /\ m.pc # "down"
      BY <2>1, <2>3, <2>4, <2>5, <2>6
    <3> QED BY <1>1, <3>1, OneStart
  <2> QED BY <2>3, <2>6
<1> QED BY <1>3, <1>4

(* The loaders.                                                            *)
RowByRow == {"dashboards", "templates", "demoDashboards", "demo"}

Loaded ==
  /\ SeedsOn' /\ Alive
  /\ rows' \in [Catalogues -> [Items -> Nat]] /\ OneByOne'
  /\ outdated' \in BOOLEAN /\ (outdated' => outdated)
  /\ mishaps' \in Nat

LEMMA Unwritten ==
  ASSUME SeedInv, UNCHANGED <<rows, outdated, mishaps>>, SeedsOn' /\ Alive PROVE Loaded
BY DEF Loaded, SeedInv, StartTypeOK, OneByOne

LEMMA FilledIsWhole ==
  ASSUME SeedInv, NEW c \in InOneTransaction, Filled(c) PROVE \A i \in Items : rows[c][i] = 1
BY DEF SeedInv, OneByOne, Filled

LEMMA SkipsKeeps ==
  ASSUME SeedInv, NEW p \in Starters, NEW c \in InOneTransaction \cup {"templates"},
         NEW pc \in {"insert", "row"}, SkipsFilled(p, c, pc)
  PROVE  Loaded
<1>1. /\ startup[p].pc = "probe" /\ startup[p].pc \in LoaderPcs /\ Head(startup[p].todo) = c
      /\ UNCHANGED <<rows, outdated, mishaps>>
  BY DEF SkipsFilled, Turn, LoaderPcs
<1>2. CASE Filled(c)
  <2>1. LoaderEnds(p, FALSE)
    BY <1>2 DEF SkipsFilled
  <2>2. c = "templates" \/ EntireCatalogue(c)'
    <3>1. c # "templates" => \A i \in Items : rows[c][i] = 1
      BY <1>2, FilledIsWhole
    <3> QED BY <1>1, <3>1 DEF EntireCatalogue
  <2>3. Stays
    BY <1>1 DEF Stays
  <2> QED BY <1>1, <2>1, <2>2, <2>3, LoaderEndsKeeps, Unwritten
<1>3. CASE ~Filled(c)
  <2>1. Goto(p, pc)
    BY <1>3 DEF SkipsFilled
  <2> QED BY <1>1, <2>1, GotoKeeps, Unwritten DEF LoaderPcs
<1> QED BY <1>2, <1>3

LEMMA InsertsKeeps ==
  ASSUME SeedInv, NEW p \in Starters, NEW c, InsertsAll(p, c) PROVE Loaded
<1>1. startup[p].pc \in LoaderPcs /\ Goto(p, "commit") /\ UNCHANGED <<rows, outdated, mishaps>>
  BY DEF InsertsAll, Turn, LoaderPcs
<1> QED BY <1>1, GotoKeeps, Unwritten DEF LoaderPcs

LEMMA AbortedKeeps ==
  ASSUME SeedInv, NEW p \in Starters, NEW c, AbortedByDeadlock(p, c) PROVE Loaded
<1>1. /\ startup[p].pc \in LoaderPcs /\ Head(startup[p].todo) = c
      /\ LoaderEnds(p, TRUE) /\ UNCHANGED <<rows, outdated, mishaps>>
  BY DEF AbortedByDeadlock, Turn, LoaderPcs
<1>2. Stays
  BY <1>1 DEF Stays
<1> QED BY <1>1, <1>2, LoaderEndsKeeps, Unwritten

LEMMA CommitsKeeps ==
  ASSUME SeedInv, NEW p \in Starters, NEW c \in InOneTransaction,
         NEW stored \in [Items -> Nat], \A i \in Items : stored[i] = 1,
         Commits(p, c, stored)
  PROVE  Loaded
<1>1. startup[p].pc \in LoaderPcs /\ Head(startup[p].todo) = c
  BY DEF Commits, Turn, LoaderPcs
<1>2. outdated' \in BOOLEAN /\ (outdated' => outdated)
  BY DEF Commits, SeedInv, StartTypeOK
<1>3. c \in Catalogues /\ rows \in [Catalogues -> [Items -> Nat]] /\ mishaps \in Nat
  BY CataloguesAre DEF SeedInv, StartTypeOK, InOneTransaction
<1>4. CASE LoaderEnds(p, FALSE) /\ rows' = [rows EXCEPT ![c] = stored] /\ UNCHANGED mishaps
  <2>1. rows' \in [Catalogues -> [Items -> Nat]] /\ rows'[c] = stored /\ \A d \in Catalogues \ {c} : rows'[d] = rows[d]
    BY <1>3, <1>4
  <2>2. OneByOne'
    <3> SUFFICES ASSUME NEW d \in InOneTransaction
                 PROVE  (\A i \in Items : rows'[d][i] = 0) \/ (\A i \in Items : rows'[d][i] = 1)
      BY DEF OneByOne
    <3>1. CASE d = c
      BY <2>1, <3>1
    <3>2. CASE d # c
      <4>1. rows'[d] = rows[d]
        BY <2>1, <3>2, CataloguesAre DEF InOneTransaction
      <4> QED BY <4>1 DEF SeedInv, OneByOne
    <3> QED BY <3>1, <3>2
  <2>3. EntireCatalogue(c)'
    BY <2>1 DEF EntireCatalogue
  <2>4. Stays
    <3>1. \A d \in Catalogues, i \in Items : rows[d][i] > 0 => rows'[d][i] > 0
      BY <2>1
    <3> QED BY <1>2, <3>1 DEF Stays
  <2>5. SeedsOn' /\ Alive
    BY <1>1, <1>4, <2>3, <2>4, LoaderEndsKeeps
  <2> QED BY <1>2, <1>3, <1>4, <2>1, <2>2, <2>5 DEF Loaded
<1>5. CASE LoaderEnds(p, TRUE) /\ Mishap /\ UNCHANGED rows
  <2>1. Stays
    BY <1>2, <1>5 DEF Stays
  <2>2. SeedsOn' /\ Alive
    BY <1>1, <1>5, <2>1, LoaderEndsKeeps
  <2>3. mishaps' \in Nat
    BY <1>3, <1>5 DEF Mishap
  <2> QED BY <1>2, <1>3, <1>5, <2>2, <2>3 DEF Loaded, SeedInv, OneByOne
<1> QED BY <1>4, <1>5 DEF Commits

LEMMA StoredIsOne ==
  ASSUME SeedInv, NEW c \in InOneTransaction
  PROVE  /\ Completed(c) \in [Items -> Nat] /\ \A i \in Items : Completed(c)[i] = 1
         /\ Linked(c) \in [Items -> Nat] /\ \A i \in Items : Linked(c)[i] = 1
<1>1. c \in Catalogues /\ rows \in [Catalogues -> [Items -> Nat]]
  BY CataloguesAre DEF SeedInv, StartTypeOK, InOneTransaction
<1>2. Completed(c) \in [Items -> Nat] /\ \A i \in Items : Completed(c)[i] = 1
  BY <1>1 DEF Completed, SeedInv, OneByOne
<1>3. Linked(c) \in [Items -> Nat] /\ \A i \in Items : Linked(c)[i] = 1
  <2>1. CASE Filled(c)
    BY <1>1, <2>1, FilledIsWhole DEF Linked
  <2>2. CASE ~Filled(c)
    BY <1>2, <2>2 DEF Linked
  <2> QED BY <2>1, <2>2
<1> QED BY <1>2, <1>3

LEMMA RowWrittenKeeps ==
  ASSUME SeedInv, NEW p \in Starters, NEW c \in RowByRow, NEW count \in Nat \ {0},
         startup[p].pc \in {"row", "absent"}, Head(startup[p].todo) = c, RowWritten(p, c, count)
  PROVE  Loaded
<1>1. /\ c \in Catalogues /\ rows \in [Catalogues -> [Items -> Nat]] /\ mishaps \in Nat
      /\ startup[p].row \in Items /\ outdated' = outdated /\ outdated \in BOOLEAN
  BY CataloguesAre DEF SeedInv, StartTypeOK, RowByRow, Startups, RowWritten
<1> DEFINE row == startup[p].row
<1>2. CASE RowEnds(p, FALSE) /\ rows' = [rows EXCEPT ![c][row] = count] /\ UNCHANGED mishaps
  <2> HIDE DEF row
  <2>1. /\ rows' \in [Catalogues -> [Items -> Nat]]
        /\ rows'[c][row] = count
        /\ \A d \in Catalogues, i \in Items : rows'[d][i] = rows[d][i] \/ rows'[d][i] = count
        /\ \A d \in Catalogues \ {c} : rows'[d] = rows[d]
    BY <1>1, <1>2 DEF row
  <2>2. OneByOne'
    <3>1. \A d \in InOneTransaction : d \in Catalogues \ {c}
      BY CataloguesAre DEF InOneTransaction, RowByRow
    <3> QED BY <2>1, <3>1 DEF OneByOne, SeedInv
  <2>3. Stays
    BY <1>1, <2>1 DEF Stays
  <2>4. rows'[c][startup[p].row] > 0
    BY <2>1 DEF row
  <2>5. SeedsOn' /\ Alive
    BY <1>2, <2>3, <2>4, RowEndsKeeps
  <2> QED BY <1>1, <1>2, <2>1, <2>2, <2>5 DEF Loaded
<1>3. CASE RowEnds(p, TRUE) /\ Mishap /\ UNCHANGED rows
  <2>1. Stays
    BY <1>1, <1>3 DEF Stays
  <2>2. SeedsOn' /\ Alive
    BY <1>3, <2>1, RowEndsKeeps
  <2>3. mishaps' \in Nat
    BY <1>1, <1>3 DEF Mishap
  <2> QED BY <1>1, <1>3, <2>2, <2>3 DEF Loaded, SeedInv, OneByOne
<1> QED BY <1>2, <1>3 DEF RowWritten

LEMMA ByTitleKeeps ==
  ASSUME SeedInv, NEW p \in Starters, NEW c \in RowByRow, ByTitle(p, c) PROVE Loaded
<1> DEFINE row == startup[p].row
<1>1. c \in Catalogues /\ rows \in [Catalogues -> [Items -> Nat]] /\ row \in Items
  BY CataloguesAre DEF SeedInv, StartTypeOK, RowByRow, Startups
<1>2. CASE Turn(p, c, "probe") /\ Goto(p, "row") /\ UNCHANGED <<rows, outdated, mishaps>>
  BY <1>2, GotoKeeps, Unwritten DEF Turn, LoaderPcs
<1>3. CASE /\ Turn(p, c, "row")
           /\ IF rows[c][row] = 0 THEN Goto(p, "absent") ELSE RowEnds(p, FALSE)
           /\ UNCHANGED <<rows, outdated, mishaps>>
  <2>1. CASE rows[c][row] = 0
    BY <1>3, <2>1, GotoKeeps, Unwritten DEF Turn, LoaderPcs
  <2>2. CASE rows[c][row] # 0
    <3>1. rows'[c][row] > 0
      BY <1>1, <1>3, <2>2
    <3>2. Stays
      BY <1>3 DEF Stays
    <3> QED BY <1>3, <2>2, <3>1, <3>2, RowEndsKeeps, Unwritten DEF Turn
  <2> QED BY <2>1, <2>2
<1>4. CASE Turn(p, c, "absent") /\ RowWritten(p, c, rows[c][row] + 1)
  <2>1. rows[c][row] + 1 \in Nat \ {0}
    BY <1>1
  <2> QED BY <1>4, <2>1, RowWrittenKeeps DEF Turn
<1> QED BY <1>2, <1>3, <1>4 DEF ByTitle

LEMMA SymbolWidgetsKeep == ASSUME SeedInv, NEW p \in Starters, loadScadaSymbolWidgets(p) PROVE Loaded
<1> DEFINE c == "symbolWidgets"
           s == startup[p]
<1>1. ASSUME SkipsFilled(p, c, "insert") PROVE Loaded
  BY <1>1, SkipsKeeps DEF InOneTransaction
<1>2. ASSUME Turn(p, c, "probe"), ~Filled("widgets"), LoaderEnds(p, FALSE),
             UNCHANGED <<rows, outdated, mishaps>>
      PROVE  Loaded
  <2>1. s \in Startups /\ Queued(s) /\ Seeded(s) /\ s.pc = "probe" /\ s.pc \in LoaderPcs /\ Head(s.todo) = c
    BY <1>2 DEF SeedInv, StartTypeOK, Turn, LoaderPcs
  <2>2. Behind(s, "widgets")
    <3>1. s.todo \in Seq(Catalogues) /\ s.todo # <<>>
      BY <2>1 DEF Startups, Queued
    <3>2. s.todo[1] = c /\ \A i \in DOMAIN s.todo : i \in Nat \ {0}
      BY <2>1, <3>1
    <3>3. \A i \in DOMAIN s.todo : i = 1 \/ i > 1
      BY <3>2
    <3> QED BY <2>1, <3>2, <3>3 DEF Behind, Queued
  <2>3. ~EntireCatalogue("widgets")
    <3>1. 1 \in Items
      BY StartUpAssumption DEF Items
    <3> QED BY <1>2, <3>1 DEF Filled, EntireCatalogue
  <2>4. s.flawed
    BY <2>1, <2>2, <2>3, CataloguesAre DEF Seeded
  <2>5. LoaderEnds(p, TRUE)
    BY <1>2, <2>1, <2>4 DEF LoaderEnds, NextLoader
  <2>6. Stays
    BY <1>2 DEF Stays
  <2> QED BY <1>2, <2>1, <2>5, <2>6, LoaderEndsKeeps, Unwritten
<1>3. ASSUME InsertsAll(p, c) PROVE Loaded
  BY <1>3, InsertsKeeps
<1>4. ASSUME Commits(p, c, Linked(c)) PROVE Loaded
  BY <1>4, CommitsKeeps, StoredIsOne DEF InOneTransaction
<1> QED BY <1>1, <1>2, <1>3, <1>4 DEF loadScadaSymbolWidgets

LEMMA LoadKeeps == ASSUME SeedInv, NEW p \in Starters, Load(p) PROVE Loaded
<1>1. ASSUME loadSystemWidgets(p) PROVE Loaded
  <2>1. ASSUME SkipsFilled(p, "widgets", "insert") PROVE Loaded
    BY <2>1, SkipsKeeps DEF InOneTransaction
  <2>2. ASSUME InsertsAll(p, "widgets") PROVE Loaded
    BY <2>2, InsertsKeeps
  <2>3. ASSUME Commits(p, "widgets", Linked("widgets")) PROVE Loaded
    BY <2>3, CommitsKeeps, StoredIsOne DEF InOneTransaction
  <2> QED BY <1>1, <2>1, <2>2, <2>3 DEF loadSystemWidgets
<1>2. ASSUME loadSystemDashboards(p) \/ loadDemoDashboards(p) PROVE Loaded
  BY <1>2, ByTitleKeeps DEF loadSystemDashboards, loadDemoDashboards, RowByRow
<1>3. ASSUME loadScadaSymbols(p) PROVE Loaded
  <2>1. ASSUME SkipsFilled(p, "symbols", "insert") PROVE Loaded
    BY <2>1, SkipsKeeps DEF InOneTransaction
  <2>2. ASSUME InsertsAll(p, "symbols") PROVE Loaded
    BY <2>2, InsertsKeeps
  <2>3. ASSUME Commits(p, "symbols", Completed("symbols")) PROVE Loaded
    BY <2>3, CommitsKeeps, StoredIsOne DEF InOneTransaction
  <2> QED BY <1>3, <2>1, <2>2, <2>3 DEF loadScadaSymbols
<1>4. ASSUME loadSystemImages(p) PROVE Loaded
  <2>1. ASSUME Turn(p, "images", "probe"), Goto(p, "insert"), UNCHANGED <<rows, outdated, mishaps>> PROVE Loaded
    BY <2>1, GotoKeeps, Unwritten DEF Turn, LoaderPcs
  <2>2. ASSUME InsertsAll(p, "images") PROVE Loaded
    BY <2>2, InsertsKeeps
  <2>3. ASSUME Commits(p, "images", Completed("images")) PROVE Loaded
    BY <2>3, CommitsKeeps, StoredIsOne DEF InOneTransaction
  <2>4. ASSUME AbortedByDeadlock(p, "images") PROVE Loaded
    BY <2>4, AbortedKeeps
  <2> QED BY <1>4, <2>1, <2>2, <2>3, <2>4 DEF loadSystemImages
<1>5. ASSUME loadOAuth2Templates(p) PROVE Loaded
  <2>1. ASSUME SkipsFilled(p, "templates", "row") PROVE Loaded
    BY <2>1, SkipsKeeps
  <2>2. ASSUME Turn(p, "templates", "row"), RowWritten(p, "templates", 1) PROVE Loaded
    BY <2>2, RowWrittenKeeps DEF Turn, RowByRow
  <2> QED BY <1>5, <2>1, <2>2 DEF loadOAuth2Templates
<1>6. ASSUME seedDemo(p) PROVE Loaded
  <2>1. ASSUME Turn(p, "demo", "probe"), Goto(p, "row"), UNCHANGED <<rows, outdated, mishaps>> PROVE Loaded
    BY <2>1, GotoKeeps, Unwritten DEF Turn, LoaderPcs
  <2>2. ASSUME Turn(p, "demo", "row"), RowWritten(p, "demo", 1) PROVE Loaded
    BY <2>2, RowWrittenKeeps DEF Turn, RowByRow
  <2> QED BY <1>6, <2>1, <2>2 DEF seedDemo
<1> QED BY <1>1, <1>2, <1>3, <1>4, <1>5, <1>6, SymbolWidgetsKeep DEF Load

LEMMA LoadingKeeps == ASSUME SeedInv, NEW p \in Starters, Load(p) PROVE SeedInv'
<1>1. Loaded /\ UNCHANGED <<schema, dirty, migrator, migration>>
  BY LoadKeeps DEF Load
<1>2. StartTypeOK'
  BY <1>1 DEF Loaded, SeedsOn, SeedInv, StartTypeOK
<1>3. Shaped'
  BY <1>1 DEF Loaded, Alive, SeedInv, Shaped
<1> QED BY <1>1, <1>2, <1>3 DEF Loaded, SeedsOn, SeedInv

-----------------------------------------------------------------------------
LEMMA SeedInit == StartUpInit => SeedInv
<1> SUFFICES ASSUME StartUpInit PROVE SeedInv
  OBVIOUS
<1>1. Down \in Startups /\ Queued(Down) /\ Seeded(Down) /\ Down.pc = "down"
  <2>1. 1 \in Items /\ <<>> \in Seq(Catalogues)
    BY StartUpAssumption DEF Items
  <2> QED BY <2>1 DEF Down, Startups, Queued, Seeded, LoaderPcs
<1>2. \A p \in Starters : startup[p] = Down
  BY DEF StartUpInit
<1>3. rows \in [Catalogues -> [Items -> Nat]]
  BY DEF StartUpInit
<1>4. schema \in Nat /\ schema <= 1 /\ dirty = FALSE /\ outdated = (schema = 1)
  BY DEF StartUpInit
<1>5. StartTypeOK
  BY <1>1, <1>3, <1>4 DEF StartUpInit, StartTypeOK
<1>6. Shaped
  <2>1. \A p \in Starters : migration[p] = "over" /\ migrator # p /\ startup[p].pc = "down"
    BY <1>1, <1>2, StartUpAssumption DEF StartUpInit
  <2>2. schema <= LatestSchema
    BY <1>4, StartUpAssumption
  <2>3. outdated => schema = 1
    BY <1>4
  <2>4. outdated => schema >= 1 /\ (schema >= 2 => dirty)
    BY <2>3
  <2>5. \A p \in Starters : migration[p] # "up" /\ migration[p] # "force"
    BY <2>1
  <2>6. ~dirty
    BY <1>4
  <2> QED BY <2>1, <2>2, <2>4, <2>5, <2>6, Zenon DEF Shaped
<1>7. OneByOne
  <2>1. \A c \in InOneTransaction : c \in Catalogues
    BY CataloguesAre DEF InOneTransaction
  <2> QED BY <2>1 DEF StartUpInit, OneByOne
<1>8. ASSUME NEW p \in Starters PROVE Queued(startup[p]) /\ Seeded(startup[p])
  BY <1>1, <1>2
<1> QED BY <1>5, <1>6, <1>7, <1>8 DEF SeedInv

\* A step that seeds nothing.
LEMMA SeedsStay ==
  ASSUME SeedInv, rows' = rows, outdated' = outdated, startup' = startup PROVE SeedsOn' /\ OneByOne'
BY DEF SeedInv, StartTypeOK, SeedsOn, OneByOne, Queued, Seeded, Behind, EntireCatalogue

LEMMA MigrationsKeep ==
  ASSUME SeedInv, NEW p \in Starters, ReadVersion(p) \/ ForceBaseline(p) \/ LockForUp(p) PROVE SeedInv'
<1>1. SeedsOn' /\ OneByOne'
  <2>1. rows' = rows /\ outdated' = outdated /\ startup' = startup
    BY DEF ReadVersion, ForceBaseline, LockForUp
  <2> QED BY <2>1, SeedsStay
<1>2. CASE ReadVersion(p)
  <2>1. /\ migration' \in [Starters -> {"read", "force", "lock", "up", "over"}]
        /\ migration[p] = "read" /\ migration'[p] \in {"force", "lock"}
        /\ migration'[p] = "force" => schema = 0
        /\ \A q \in Starters \ {p} : migration'[q] = migration[q]
    BY <1>2 DEF ReadVersion, SeedInv, StartTypeOK
  <2>2. UNCHANGED <<schema, dirty, migrator, startup, rows, outdated, mishaps>>
    BY <1>2 DEF ReadVersion
  <2>3. outdated => schema # 0
    BY DEF SeedInv, Shaped
  <2>4. StartTypeOK'
    BY <2>1, <2>2 DEF SeedInv, StartTypeOK
  <2>5. Shaped'
    BY <2>1, <2>2, <2>3 DEF SeedInv, Shaped
  <2> QED BY <1>1, <2>4, <2>5 DEF SeedInv, SeedsOn
<1>3. CASE ForceBaseline(p)
  <2>1. ~outdated /\ schema' = 1 /\ dirty' = FALSE /\ migrator = Unlocked
    BY <1>3 DEF ForceBaseline, SeedInv, Shaped
  <2>2. /\ migration' \in [Starters -> {"read", "force", "lock", "up", "over"}]
        /\ migration[p] = "force" /\ migration'[p] = "lock"
        /\ \A q \in Starters \ {p} : migration'[q] = migration[q]
    BY <1>3 DEF ForceBaseline, SeedInv, StartTypeOK
  <2>3. UNCHANGED <<migrator, startup, rows, outdated, mishaps>>
    BY <1>3 DEF ForceBaseline
  <2>4. StartTypeOK'
    BY <2>1, <2>2, <2>3 DEF SeedInv, StartTypeOK
  <2>5. Shaped'
    BY <2>1, <2>2, <2>3, StartUpAssumption DEF SeedInv, Shaped
  <2> QED BY <1>1, <2>4, <2>5 DEF SeedInv, SeedsOn
<1>4. CASE LockForUp(p)
  <2>1. UNCHANGED <<schema, dirty, startup, rows, outdated, mishaps>> /\ dirty \in BOOLEAN
    BY <1>4 DEF LockForUp, SeedInv, StartTypeOK
  <2>2. /\ migration' \in [Starters -> {"read", "force", "lock", "up", "over"}]
        /\ migration[p] = "lock" /\ migrator = Unlocked
        /\ \A q \in Starters \ {p} : migration'[q] = migration[q]
    BY <1>4 DEF LockForUp, SeedInv, StartTypeOK
  <2>3. IF dirty THEN migrator' = Unlocked /\ migration'[p] = "over"
                 ELSE migrator' = p /\ migration'[p] = "up"
    BY <1>4 DEF LockForUp, SeedInv, StartTypeOK
  <2>4. StartTypeOK'
    BY <2>1, <2>2, <2>3 DEF SeedInv, StartTypeOK
  <2>5. Shaped'
    BY <2>1, <2>2, <2>3, StartUpAssumption DEF SeedInv, Shaped
  <2> QED BY <1>1, <2>4, <2>5 DEF SeedInv, SeedsOn
<1> QED BY <1>2, <1>3, <1>4

LEMMA UpKeeps == ASSUME SeedInv, NEW p \in Starters, Up(p) PROVE SeedInv'
<1>1. /\ migration[p] = "up" /\ migrator = p /\ ~dirty /\ schema \in Nat /\ schema <= LatestSchema
      /\ UNCHANGED <<dirty, startup, mishaps>>
  BY StartUpAssumption DEF Up, SeedInv, Shaped, StartTypeOK
<1>2. ClearsSymbols => outdated
  BY DEF ClearsSymbols
<1>3. schema' \in Nat /\ schema' <= LatestSchema /\ schema' >= schema
  BY <1>1, StartUpAssumption DEF Up
<1>4. outdated' = (outdated /\ ~ClearsSymbols) /\ outdated \in BOOLEAN
  BY DEF Up, SeedInv, StartTypeOK
<1>5. outdated' => outdated
  BY <1>4
<1>6. outdated => schema = 1
  BY <1>1 DEF SeedInv, Shaped
<1>7. outdated' => FALSE
  <2>1. outdated => ClearsSymbols
    BY <1>6 DEF ClearsSymbols
  <2> QED BY <1>4, <2>1
<1>8. rows' \in [Catalogues -> [Items -> Nat]] /\ OneByOne'
  <2>1. CASE ClearsSymbols
    <3>1. rows' = [rows EXCEPT !["symbols"] = [i \in Items |-> 0]]
      BY <2>1 DEF Up
    <3>2. rows \in [Catalogues -> [Items -> Nat]] /\ OneByOne
      BY DEF SeedInv, StartTypeOK
    <3>3. \A c \in InOneTransaction : c \in Catalogues
      BY CataloguesAre DEF InOneTransaction
    <3>4. /\ rows' \in [Catalogues -> [Items -> Nat]] /\ \A i \in Items : rows'["symbols"][i] = 0
          /\ \A c \in Catalogues \ {"symbols"} : rows'[c] = rows[c]
      BY <3>1, <3>2, CataloguesAre
    <3> QED BY <3>2, <3>3, <3>4 DEF OneByOne
  <2>2. CASE ~ClearsSymbols
    <3>1. rows' = rows
      BY <2>2 DEF Up
    <3> QED BY <3>1 DEF SeedInv, StartTypeOK, OneByOne
  <2> QED BY <2>1, <2>2
<1>9. Stays
  <2>1. ~outdated => rows' = rows
    BY <1>2 DEF Up
  <2> QED BY <1>5, <2>1 DEF Stays
<1>10. SeedsOn'
  <2>1. startup' \in [Starters -> Startups]
    BY <1>1 DEF SeedInv, StartTypeOK
  <2>2. ASSUME NEW q \in Starters PROVE Queued(startup[q])' /\ Seeded(startup[q])'
    <3>1. ASSUME NEW s \in Startups, s = startup[q] PROVE Queued(startup[q])' /\ Seeded(startup[q])'
      <4>1. Queued(s) /\ Seeded(s)
        BY <3>1 DEF SeedInv
      <4>2. Seeded(s)'
        BY <1>9, <4>1, SeededStays
      <4> QED BY <1>1, <3>1, <4>1, <4>2 DEF Queued, Seeded, Behind, EntireCatalogue
    <3>2. startup[q] \in Startups
      BY DEF SeedInv, StartTypeOK
    <3> QED BY <3>1, <3>2
  <2> QED BY <2>1, <2>2 DEF SeedsOn
<1>11. /\ migration' \in [Starters -> {"read", "force", "lock", "up", "over"}]
       /\ \A q \in Starters \ {p} : migration'[q] = migration[q]
       /\ IF schema = LatestSchema THEN migrator' = Unlocked /\ migration'[p] = "over"
                                   ELSE migrator' = p /\ migration'[p] = "up"
  BY <1>1 DEF Up, SeedInv, StartTypeOK
<1>12. StartTypeOK'
  <2>1. migrator' \in Starters \cup {Unlocked} /\ outdated' \in BOOLEAN
    BY <1>4, <1>11
  <2> QED BY <1>1, <1>3, <1>8, <1>10, <1>11, <2>1 DEF SeedInv, StartTypeOK, SeedsOn
<1>13. Shaped'
  <2>1. \A q \in Starters : migration'[q] = "up" <=> migrator' = q
    BY <1>1, <1>11, StartUpAssumption DEF SeedInv, Shaped
  <2>2. \A q \in Starters : migration'[q] = "force" => ~outdated'
    BY <1>7
  <2>3. \A q \in Starters : startup'[q].pc = "down" => migration'[q] = "over"
    BY <1>1, <1>11 DEF SeedInv, Shaped
  <2> QED BY <1>1, <1>3, <1>7, <2>1, <2>2, <2>3 DEF Shaped
<1> QED BY <1>8, <1>10, <1>12, <1>13 DEF SeedInv, SeedsOn

\* A start that has not begun to seed, p, takes another state.
LEMMA OtherStart ==
  ASSUME SeedInv, rows' = rows, outdated' = outdated, NEW p \in Starters, NEW n \in Startups,
         Queued(n), Seeded(n), startup' = [startup EXCEPT ![p] = n]
  PROVE  SeedsOn' /\ OneByOne'
<1>1. startup' \in [Starters -> Startups]
  BY DEF SeedInv, StartTypeOK
<1>2. ASSUME NEW q \in Starters PROVE Queued(startup[q])' /\ Seeded(startup[q])'
  <2>1. startup'[q] = n \/ startup'[q] = startup[q]
    BY DEF SeedInv, StartTypeOK
  <2>2. Queued(startup[q]) /\ Seeded(startup[q])
    BY DEF SeedInv
  <2> QED BY <2>1, <2>2 DEF Queued, Seeded, Behind, EntireCatalogue
<1> QED BY <1>1, <1>2 DEF SeedsOn, SeedInv, OneByOne

LEMMA ServeKeeps == ASSUME SeedInv, NEW p \in Starters, Serve(p) PROVE SeedInv'
<1> DEFINE n == [pc |-> "probe", todo |-> LoadSystem \o LoadDemo, row |-> 1,
                 flawed |-> migration[p] # "over" \/ dirty]
<1>1. /\ startup[p].pc = "migrating" /\ startup' = [startup EXCEPT ![p] = n]
      /\ UNCHANGED <<schema, dirty, migrator, migration, rows, outdated>>
  BY DEF Serve
<1>2. n \in Startups /\ n.pc = "probe" /\ n.todo = LoadSystem \o LoadDemo /\ n.row = 1
  <2>1. LoadSystem \o LoadDemo \in Seq(Catalogues)
    BY OrderIs
  <2>2. 1 \in Items /\ dirty \in BOOLEAN
    BY StartUpAssumption DEF Items, SeedInv, StartTypeOK
  <2> HIDE DEF LoadSystem, LoadDemo
  <2> QED BY <2>1, <2>2 DEF Startups, LoaderPcs
<1>3. ~n.flawed => ~outdated
  BY <1>1 DEF SeedInv, Shaped
<1> HIDE DEF n
<1>4. Queued(n)
  <2>1. n.todo # <<>>
    BY <1>2, OrderIs
  <2>2. \A i \in DOMAIN n.todo : i > 1 => n.todo[i] # "widgets"
    BY <1>2, OrderIs
  <2> QED BY <1>2, <2>1, <2>2 DEF Queued
<1>5. Seeded(n)
  <2>1. \A c \in Catalogues : ~Behind(n, c)
    BY <1>2, OrderIs DEF Behind
  <2> QED BY <1>2, <1>3, <2>1 DEF Seeded
<1>6. SeedsOn' /\ OneByOne'
  BY <1>1, <1>2, <1>4, <1>5, OtherStart
<1>7. mishaps' \in Nat
  BY DEF Serve, Mishap, SeedInv, StartTypeOK
<1>8. StartTypeOK'
  BY <1>1, <1>6, <1>7 DEF SeedInv, StartTypeOK, SeedsOn
<1>9. Shaped'
  <2>1. \A q \in Starters : startup'[q].pc # "down" <=> startup[q].pc # "down"
    BY <1>1, <1>2 DEF SeedInv, StartTypeOK
  <2> QED BY <1>1, <2>1 DEF SeedInv, Shaped
<1> QED BY <1>6, <1>8, <1>9 DEF SeedInv, SeedsOn

LEMMA CrashKeeps == ASSUME SeedInv, NEW p \in Starters, Crash(p) PROVE SeedInv'
<1>1. /\ startup' = [startup EXCEPT ![p] = Down] /\ migration' = [migration EXCEPT ![p] = "over"]
      /\ migrator' = (IF migrator = p THEN Unlocked ELSE migrator)
      /\ rows' = rows /\ outdated' = outdated
  BY DEF Crash
<1>2. Down \in Startups /\ Queued(Down) /\ Seeded(Down) /\ Down.pc = "down"
  <2>1. 1 \in Items /\ <<>> \in Seq(Catalogues)
    BY StartUpAssumption DEF Items
  <2> QED BY <2>1 DEF Down, Startups, Queued, Seeded, LoaderPcs
<1>3. SeedsOn' /\ OneByOne'
  <2>1. ASSUME NEW n \in Startups, n = Down PROVE SeedsOn' /\ OneByOne'
    BY <1>1, <1>2, <2>1, OtherStart
  <2> QED BY <1>2, <2>1
<1>4. /\ startup'[p].pc = "down" /\ migration'[p] = "over" /\ migration' \in [Starters -> {"read", "force", "lock", "up", "over"}]
      /\ \A q \in Starters \ {p} : startup'[q] = startup[q] /\ migration'[q] = migration[q]
  BY <1>1, <1>2 DEF SeedInv, StartTypeOK
<1>5. /\ schema' \in Nat /\ schema' <= LatestSchema /\ schema' >= schema /\ dirty' \in BOOLEAN
      /\ \/ schema' = schema /\ dirty' = dirty
         \/ migrator = p /\ dirty' = TRUE
  <2>1. schema \in Nat /\ schema <= LatestSchema /\ dirty \in BOOLEAN
    BY DEF SeedInv, StartTypeOK, Shaped
  <2>2. CASE UNCHANGED <<schema, dirty>>
    BY <2>1, <2>2
  <2>3. CASE migrator = p /\ schema < LatestSchema /\ schema' = schema + 1 /\ dirty' = TRUE
    BY <2>1, <2>3, StartUpAssumption
  <2> QED BY <2>2, <2>3 DEF Crash
<1>6. StartTypeOK'
  <2>1. mishaps' \in Nat
    BY DEF Crash, Mishap, SeedInv, StartTypeOK
  <2> QED BY <1>1, <1>3, <1>4, <1>5, <2>1 DEF SeedInv, StartTypeOK, SeedsOn
<1>7. Shaped'
  <2>1. dirty' => migrator' = Unlocked
    BY <1>1, <1>5 DEF SeedInv, Shaped
  <2>2. \A q \in Starters : migration'[q] = "up" <=> migrator' = q
    BY <1>1, <1>4, StartUpAssumption DEF SeedInv, Shaped
  <2>3. outdated' => schema' >= 1 /\ (schema' >= 2 => dirty')
    BY <1>1, <1>5 DEF SeedInv, Shaped, StartTypeOK
  <2>4. \A q \in Starters : migration'[q] = "force" => ~outdated'
    BY <1>1, <1>4 DEF SeedInv, Shaped
  <2>5. \A q \in Starters : startup'[q].pc # "down" /\ migration'[q] = "over" /\ outdated' => dirty'
    BY <1>1, <1>4, <1>5 DEF SeedInv, Shaped
  <2>6. \A q \in Starters : startup'[q].pc = "down" => migration'[q] = "over"
    BY <1>4 DEF SeedInv, Shaped
  <2> QED BY <1>5, <2>1, <2>2, <2>3, <2>4, <2>5, <2>6 DEF Shaped
<1> QED BY <1>3, <1>6, <1>7 DEF SeedInv, SeedsOn

LEMMA StartKeeps == ASSUME SeedInv, NEW p \in Starters, Start(p) PROVE SeedInv'
<1> DEFINE n == [startup[p] EXCEPT !.pc = "migrating"]
<1>1. /\ startup[p].pc = "down" /\ startup' = [startup EXCEPT ![p] = n]
      /\ migration' = [migration EXCEPT ![p] = "read"]
      /\ UNCHANGED <<schema, dirty, migrator, rows, outdated, mishaps>>
  BY DEF Start
<1>2. /\ n \in Startups /\ n.pc = "migrating" /\ n.todo = startup[p].todo
  BY DEF SeedInv, StartTypeOK, Startups
<1> HIDE DEF n
<1>3. Queued(n) /\ Seeded(n)
  BY <1>2 DEF SeedInv, Queued, Seeded, LoaderPcs
<1>4. SeedsOn' /\ OneByOne'
  BY <1>1, <1>2, <1>3, OtherStart
<1>5. /\ migration'[p] = "read" /\ migration' \in [Starters -> {"read", "force", "lock", "up", "over"}]
      /\ \A q \in Starters \ {p} : startup'[q] = startup[q] /\ migration'[q] = migration[q]
  BY <1>1 DEF SeedInv, StartTypeOK
<1>6. StartTypeOK'
  BY <1>1, <1>4, <1>5 DEF SeedInv, StartTypeOK, SeedsOn
<1>7. Shaped'
  <2>1. migration[p] # "up"
    BY <1>1 DEF SeedInv, Shaped
  <2>2. startup'[p].pc # "down"
    BY <1>1, <1>2 DEF SeedInv, StartTypeOK
  <2> QED BY <1>1, <1>5, <2>1, <2>2 DEF SeedInv, Shaped
<1> QED BY <1>4, <1>6, <1>7 DEF SeedInv, SeedsOn

LEMMA SeedNext == SeedInv /\ [StartUpNext]_startUpVars => SeedInv'
<1> SUFFICES ASSUME SeedInv, [StartUpNext]_startUpVars PROVE SeedInv'
  OBVIOUS
<1>1. CASE UNCHANGED startUpVars
  <2>1. SeedsOn' /\ OneByOne'
    BY <1>1, SeedsStay DEF startUpVars
  <2>2. StartTypeOK'
    BY <1>1 DEF startUpVars, SeedInv, StartTypeOK
  <2>3. Shaped'
    BY <1>1 DEF startUpVars, SeedInv, Shaped
  <2> QED BY <2>1, <2>2, <2>3 DEF SeedInv, SeedsOn
<1>2. ASSUME NEW p \in Starters,
             \/ ReadVersion(p) \/ ForceBaseline(p) \/ LockForUp(p) \/ Up(p)
             \/ Serve(p) \/ Load(p) \/ Crash(p) \/ Start(p)
      PROVE  SeedInv'
  BY <1>2, MigrationsKeep, UpKeeps, ServeKeeps, LoadingKeeps, CrashKeeps, StartKeeps
<1> QED BY <1>1, <1>2 DEF StartUpNext

\* Whatever replicas start together, crash in a migration or a loader and start
\* again, in every order of their statements: a start that migrated in time and
\* met no failed statement or deadlock leaves every catalogue whole, the OAuth2 templates
\* aside, the SCADA symbols in their present shape, and what is seeded in a
\* transaction there once.
THEOREM CataloguesAreWhole == StartUpSpec => []SeedsWhole
<1>1. SeedInv => SeedsWhole
  <2> SUFFICES ASSUME SeedInv, NEW p \in Starters, startup[p].pc = "seeded", ~startup[p].flawed
               PROVE  /\ \A c \in Catalogues \ {"templates"}, i \in Items : rows[c][i] > 0
                      /\ \A c \in InOneTransaction, i \in Items : rows[c][i] = 1
                      /\ ~outdated
    BY DEF SeedsWhole, InOneTransaction
  <2>1. Queued(startup[p]) /\ Seeded(startup[p])
    BY DEF SeedInv
  <2>2. startup[p].todo = <<>>
    BY <2>1 DEF Queued
  <2>3. \A c : Behind(startup[p], c)
    BY <2>2 DEF Behind
  <2>4. ~outdated /\ \A c \in Catalogues \ {"templates"}, i \in Items : rows[c][i] > 0
    BY <2>1, <2>3 DEF Seeded, EntireCatalogue
  <2>5. \A c \in InOneTransaction, i \in Items : rows[c][i] = 1
    <3>1. \A c \in InOneTransaction : c \in Catalogues \ {"templates"}
      BY CataloguesAre DEF InOneTransaction
    <3> QED BY <2>4, <3>1 DEF SeedInv, OneByOne
  <2> QED BY <2>4, <2>5
<1> QED BY SeedInit, SeedNext, <1>1, PTL DEF StartUpSpec

(***************************************************************************)
(* Commands: a two-way call is registered before it is published           *)
(* (Registered) and no command or reply of a call exists before that       *)
(* (Traffic), so that whatever is heard of a call under way finds it       *)
(* registered; and a channel only takes what the device of the call sent.  *)
(*                                                                         *)
(* State: while nothing has overlapped or failed, the one delivery under   *)
(* way is of the last write, and the last reported value is still the last *)
(* of every replica's queue or already the stored one.                     *)
(***************************************************************************)
CallRec ==
  [pc : {"unused", "online", "register", "publish", "published", "wait", "over"},
   command : Commands \cup {Nobody}, result : RpcDevices \cup Outcomes \cup {Nobody}]

RpcTypeOK ==
  /\ listening \in [Replicas -> BOOLEAN]
  /\ call \in [Calls -> CallRec]
  /\ pending \in [Replicas -> SUBSET Calls]
  /\ channel \in [Calls -> RpcDevices \cup {Nobody}]
  /\ inbox \subseteq [call : Calls, device : RpcDevices]
  /\ replies \subseteq [to : Replicas, call : Calls, device : RpcDevices, claim : RpcDevices]
  /\ replied \in Nat /\ online \subseteq RpcDevices /\ answered \subseteq Calls
  /\ \A c \in Calls : call[c].pc # "unused" => call[c].command \in Commands

Listens(c) == call[c].pc \in {"publish", "published", "wait"} /\ ~call[c].command.oneway
Sent(c) == call[c].pc \in {"published", "wait", "over"}

Registered ==
  /\ \A c \in Calls : Listens(c) => c \in pending[ReplicaOf(c)]
  /\ \A r \in Replicas : \A c \in pending[r] : Listens(c) /\ ReplicaOf(c) = r
  /\ \A c \in Calls : call[c].pc \in {"register", "wait"} => ~call[c].command.oneway

Traffic ==
  /\ \A m \in inbox : Sent(m.call) /\ m.device = DeviceOf(m.call)
  /\ \A m \in replies : Sent(m.call) /\ m.device = DeviceOf(m.call)

Channels ==
  /\ \A c \in Calls : channel[c] # Nobody => Sent(c) /\ channel[c] = DeviceOf(c)
  /\ \A c \in Calls : call[c].result \in RpcDevices => call[c].pc = "over" /\ call[c].result = DeviceOf(c)

Heard == \A c \in answered : Sent(c) /\ (Listens(c) => channel[c] # Nobody)

RpcInv == RpcTypeOK /\ Registered /\ Traffic /\ Channels /\ Heard

------------------------------------------------------------------------------
LEMMA RpcInitInv == RpcInit => RpcInv
<1> SUFFICES ASSUME RpcInit PROVE RpcInv
  OBVIOUS
<1> USE DEF RpcInit, NoCall
<1>1. RpcTypeOK
  BY DEF RpcTypeOK, CallRec
<1>2. Registered /\ Heard /\ Traffic
  BY DEF Registered, Heard, Traffic, Listens, Sent
<1>3. Channels
  BY RpcAssumption DEF Channels
<1> QED BY <1>1, <1>2, <1>3 DEF RpcInv

LEMMA CommandOf ==
  ASSUME RpcTypeOK, NEW c \in Calls, call[c].pc # "unused"
  PROVE  /\ call[c].command \in Commands /\ DeviceOf(c) \in RpcDevices /\ ReplicaOf(c) \in Replicas
         /\ call[c].command.oneway \in BOOLEAN
BY RpcAssumption DEF RpcTypeOK, DeviceOf, ReplicaOf

LEMMA RpcInvOfInv == RpcInv => AnswersReachCallers
<1> SUFFICES ASSUME RpcInv PROVE AnswersReachCallers
  OBVIOUS
<1>1. \A c \in answered : UnderWay(c) /\ ~call[c].command.oneway => channel[c] # Nobody
  BY DEF RpcInv, RpcTypeOK, CallRec, Heard, Sent, Listens, UnderWay
<1>2. \A c \in Calls : call[c].result \in RpcDevices => call[c].result = DeviceOf(c)
  BY DEF RpcInv, Channels
<1>3. \A r \in Replicas : \A c \in pending[r] : UnderWay(c) /\ ReplicaOf(c) = r
  BY DEF RpcInv, Registered, Listens, UnderWay
<1> QED BY <1>1, <1>2, <1>3 DEF AnswersReachCallers

------------------------------------------------------------------------------
(* What surrounds a call.                                                  *)

LEMMA SurroundingsInv ==
  ASSUME RpcInv,
         \/ \E r \in Replicas : StartResponseListener(r)
         \/ \E d \in RpcDevices : Connect(d)
  PROVE  RpcInv'
<1> USE DEF RpcInv
<1>1. UNCHANGED <<call, pending, channel, inbox, replies, replied, answered>>
  BY DEF StartResponseListener, Connect
<1>2. listening' \in [Replicas -> BOOLEAN] /\ online' \subseteq RpcDevices
  BY DEF StartResponseListener, Connect, RpcTypeOK
<1>3. RpcTypeOK'
  BY <1>1, <1>2 DEF RpcTypeOK
<1> QED BY <1>1, <1>3 DEF Registered, Traffic, Channels, Heard, Listens, Sent, ReplicaOf, DeviceOf

LEMMA DeviceRepliesInv ==
  ASSUME RpcInv, NEW m \in inbox, DeviceReplies(m)
  PROVE  RpcInv'
<1> USE DEF RpcInv
<1>1. UNCHANGED <<listening, call, pending, channel, online, answered>> /\ inbox' \subseteq inbox
  BY DEF DeviceReplies
<1>2. PICK claim \in RpcDevices, hearers \in SUBSET {r \in Replicas : listening[r]} :
        replies' = replies \cup {[to |-> r, call |-> m.call, device |-> m.device, claim |-> claim] : r \in hearers}
  BY DEF DeviceReplies
<1>3. m.call \in Calls /\ m.device \in RpcDevices /\ Sent(m.call) /\ m.device = DeviceOf(m.call)
  BY DEF RpcTypeOK, Traffic
<1>4. ASSUME NEW n \in replies'
      PROVE  /\ n \in [to : Replicas, call : Calls, device : RpcDevices, claim : RpcDevices]
             /\ Sent(n.call) /\ n.device = DeviceOf(n.call)
  <2>1. CASE n \in replies
    BY <2>1 DEF RpcTypeOK, Traffic
  <2>2. CASE n \notin replies
    <3>1. PICK r \in hearers : n = [to |-> r, call |-> m.call, device |-> m.device, claim |-> claim]
      BY <1>2, <2>2
    <3> QED BY <1>2, <1>3, <3>1
  <2> QED BY <2>1, <2>2
<1>5. replied' \in Nat
  BY DEF DeviceReplies, RpcTypeOK
<1>6. RpcTypeOK'
  BY <1>1, <1>4, <1>5 DEF RpcTypeOK
<1>7. Traffic'
  BY <1>1, <1>4 DEF Traffic, Sent, DeviceOf
<1> QED BY <1>1, <1>6, <1>7 DEF Registered, Channels, Heard, Listens, Sent, ReplicaOf, DeviceOf

\* A reply to a registered call is put into its channel, or one is there.
LEMMA HandleResponseInv ==
  ASSUME RpcInv, NEW m \in replies, HandleResponse(m)
  PROVE  RpcInv'
<1> USE DEF RpcInv
<1>1. UNCHANGED <<listening, call, pending, inbox, replied, online>> /\ replies' \subseteq replies
  BY DEF HandleResponse
<1>2. m.call \in Calls /\ m.to \in Replicas /\ m.device \in RpcDevices
  BY DEF RpcTypeOK
<1>3. Sent(m.call) /\ m.device = DeviceOf(m.call) /\ call[m.call].pc # "unused"
  BY DEF Traffic, Sent
<1>4. channel' \in [Calls -> RpcDevices \cup {Nobody}]
  BY <1>2 DEF HandleResponse, RpcTypeOK
<1>5. \A c \in Calls : channel'[c] = channel[c] \/ (c = m.call /\ channel'[c] = m.device)
  BY <1>2 DEF HandleResponse, RpcTypeOK
<1>6. \A c \in Calls : channel[c] # Nobody => channel'[c] # Nobody
  BY <1>2, RpcAssumption DEF HandleResponse, RpcTypeOK
<1>7. Channels'
  BY <1>1, <1>3, <1>5 DEF Channels, Sent, DeviceOf
<1>8. ASSUME NEW c \in answered'
      PROVE  c \in Calls /\ Sent(c) /\ (Listens(c) => channel'[c] # Nobody)
  <2>1. CASE c \in answered
    BY <1>6, <2>1 DEF Heard, RpcTypeOK
  <2>2. CASE c \notin answered
    <3>1. c = m.call /\ Trusted(m) /\ ReplicaOf(c) = m.to
      BY <2>2 DEF HandleResponse
    <3>2. Listens(c) => c \in pending[m.to]
      BY <1>2, <3>1 DEF Registered
    <3>3. Listens(c) => channel'[c] # Nobody
      BY <1>2, <3>1, <3>2, RpcAssumption DEF HandleResponse, RpcTypeOK
    <3> QED BY <1>2, <1>3, <3>1, <3>3
  <2> QED BY <2>1, <2>2
<1>9. RpcTypeOK'
  BY <1>1, <1>4, <1>8 DEF RpcTypeOK
<1> QED BY <1>1, <1>7, <1>8, <1>9 DEF Registered, Traffic, Heard, Listens, Sent, ReplicaOf, DeviceOf

------------------------------------------------------------------------------
(* A call: it goes on to a label or ends with a result.                    *)

Goes(c, pc) ==
  /\ call' \in [Calls -> CallRec]
  /\ call'[c].pc = pc /\ call'[c].command = call[c].command /\ call'[c].result = call[c].result
  /\ \A d \in Calls : d # c => call'[d] = call[d]

LEMMA GoesOn ==
  ASSUME RpcTypeOK, NEW c \in Calls,
         NEW pc \in {"register", "publish", "published", "wait"}, call' = [call EXCEPT ![c].pc = pc]
  PROVE  Goes(c, pc)
BY DEF RpcTypeOK, CallRec, Goes

LEMMA ProceedsGoes ==
  ASSUME RpcTypeOK, NEW c \in Calls, Proceeds(c)
  PROVE  /\ call[c].pc = "online" => Goes(c, "register")
         /\ call[c].pc = "register" => Goes(c, "publish")
         /\ call[c].pc = "published" => Goes(c, "wait")
<1>1. call' = [call EXCEPT ![c].pc = Follows[call[c].pc]]
  BY DEF Proceeds
<1>2. Follows["online"] = "register" /\ Follows["register"] = "publish" /\ Follows["published"] = "wait"
  BY DEF Follows
<1> QED BY <1>1, <1>2, GoesOn

LEMMA EndsEffect ==
  ASSUME RpcTypeOK, NEW c \in Calls, NEW result \in RpcDevices \cup Outcomes, Ends(c, result)
  PROVE  /\ call' \in [Calls -> CallRec]
         /\ call'[c].pc = "over" /\ call'[c].command = call[c].command /\ call'[c].result = result
         /\ \A d \in Calls : d # c => call'[d] = call[d]
<1>1. [pc |-> "over", command |-> call[c].command, result |-> result] \in CallRec
  BY DEF RpcTypeOK, CallRec
<1> QED BY <1>1 DEF RpcTypeOK, Ends

LEMMA HandleInv ==
  ASSUME RpcInv, NEW c \in Calls, NEW x \in Commands, Handle(c, x)
  PROVE  RpcInv'
<1> USE DEF RpcInv
<1>1. UNCHANGED <<listening, pending, channel, inbox, replies, replied, online, answered>>
  BY DEF Handle
<1>2. call[c].pc = "unused"
  BY DEF Handle, NoCall
<1>3. PICK pc \in {"over", "online"}, result \in Outcomes \cup {Nobody} :
        call' = [call EXCEPT ![c] = [pc |-> pc, command |-> x, result |-> result]]
  BY DEF Handle, Outcomes
<1> DEFINE v == [pc |-> pc, command |-> x, result |-> result]
<1>4. v \in CallRec /\ v.pc \in {"over", "online"} /\ v.command = x /\ v.result \notin RpcDevices
  BY RpcAssumption DEF CallRec
<1> HIDE DEF v
<1>5. /\ call' \in [Calls -> CallRec] /\ call'[c] = v
      /\ \A d \in Calls : d # c => call'[d] = call[d]
  BY <1>3, <1>4 DEF RpcTypeOK, v
<1>6. RpcTypeOK'
  BY <1>1, <1>4, <1>5 DEF RpcTypeOK
<1>7. ~Listens(c)' /\ ~Listens(c) /\ ~Sent(c)
  BY <1>2, <1>4, <1>5 DEF Listens, Sent
<1>8. \A d \in Calls : d # c => /\ (Listens(d)' <=> Listens(d)) /\ (Sent(d)' <=> Sent(d))
                               /\ ReplicaOf(d)' = ReplicaOf(d) /\ DeviceOf(d)' = DeviceOf(d)
  BY <1>5 DEF Listens, Sent, ReplicaOf, DeviceOf
<1>9. Registered'
  <2>1. \A d \in Calls : Listens(d)' => d \in pending[ReplicaOf(d)']
    BY <1>7, <1>8 DEF Registered
  <2>2. \A r \in Replicas : \A d \in pending[r] : Listens(d)' /\ ReplicaOf(d)' = r
    BY <1>7, <1>8 DEF Registered, RpcTypeOK
  <2>3. \A d \in Calls : call'[d].pc \in {"register", "wait"} => ~call'[d].command.oneway
    BY <1>4, <1>5 DEF Registered
  <2> QED BY <1>1, <2>1, <2>2, <2>3 DEF Registered
<1>10. Traffic' /\ Heard'
  BY <1>1, <1>7, <1>8 DEF Traffic, Heard, RpcTypeOK
<1>11. Channels'
  BY <1>1, <1>4, <1>5, <1>7, <1>8 DEF Channels
<1> QED BY <1>6, <1>9, <1>10, <1>11

\* A step of a call that is under way leaves what it is and who it is to alone.
LEMMA Same ==
  ASSUME RpcTypeOK, NEW c \in Calls, NEW pc, Goes(c, pc)
  PROVE  /\ \A d \in Calls : ReplicaOf(d)' = ReplicaOf(d) /\ DeviceOf(d)' = DeviceOf(d)
         /\ \A d \in Calls : call'[d].command = call[d].command /\ call'[d].result = call[d].result
         /\ \A d \in Calls : d # c => call'[d].pc = call[d].pc /\ (Listens(d)' <=> Listens(d)) /\ (Sent(d)' <=> Sent(d))
         /\ Listens(c)' <=> pc \in {"publish", "published", "wait"} /\ ~call[c].command.oneway
         /\ Sent(c)' <=> pc \in {"published", "wait", "over"}
BY DEF Goes, ReplicaOf, DeviceOf, Listens, Sent

\* The last step of a call: its channel is empty and it is not registered.
Finishes(c, result) ==
  /\ call[c].pc # "unused" /\ (Sent(c) \/ c \notin answered)
  /\ Ends(c, result) /\ (result \in RpcDevices => result = DeviceOf(c))
  /\ channel' = [channel EXCEPT ![c] = Nobody] \/ (UNCHANGED channel /\ channel[c] = Nobody)
  /\ pending' = Unregistered(c) \/ (UNCHANGED pending /\ ~Listens(c))
  /\ UNCHANGED <<listening, inbox, replies, replied, online, answered>>

LEMMA FinishInv ==
  ASSUME RpcInv, NEW c \in Calls, NEW result \in RpcDevices \cup Outcomes, Finishes(c, result)
  PROVE  RpcInv'
<1> USE DEF RpcInv, Finishes
<1>1. /\ call' \in [Calls -> CallRec]
      /\ call'[c].pc = "over" /\ call'[c].command = call[c].command /\ call'[c].result = result
      /\ \A d \in Calls : d # c => call'[d] = call[d]
  BY EndsEffect
<1>2. ReplicaOf(c) \in Replicas
  BY CommandOf
<1>3. /\ channel' \in [Calls -> RpcDevices \cup {Nobody}] /\ channel'[c] = Nobody
      /\ \A d \in Calls : d # c => channel'[d] = channel[d]
  BY DEF RpcTypeOK
<1>4. /\ pending' \in [Replicas -> SUBSET Calls]
      /\ \A r \in Replicas : \A d \in Calls : d # c => (d \in pending'[r] <=> d \in pending[r])
      /\ \A r \in Replicas : c \notin pending'[r]
  BY <1>2 DEF RpcTypeOK, Unregistered, Registered
<1>5. RpcTypeOK'
  BY <1>1, <1>3, <1>4 DEF RpcTypeOK
<1>6. /\ \A d \in Calls : ReplicaOf(d)' = ReplicaOf(d) /\ DeviceOf(d)' = DeviceOf(d)
      /\ \A d \in Calls : d # c => call'[d] = call[d] /\ (Listens(d)' <=> Listens(d)) /\ (Sent(d)' <=> Sent(d))
      /\ ~Listens(c)' /\ Sent(c)'
  BY <1>1 DEF ReplicaOf, DeviceOf, Listens, Sent
<1>7. Registered'
  <2>1. \A d \in Calls : Listens(d)' => d \in pending'[ReplicaOf(d)]
    <3> SUFFICES ASSUME NEW d \in Calls, Listens(d)' PROVE d \in pending'[ReplicaOf(d)]
      OBVIOUS
    <3>1. d # c /\ Listens(d)
      BY <1>6
    <3>2. d \in pending[ReplicaOf(d)] /\ call[d].pc # "unused"
      BY <3>1 DEF Registered, Listens
    <3>3. ReplicaOf(d) \in Replicas
      BY <3>2, CommandOf
    <3> QED BY <1>4, <3>1, <3>2, <3>3
  <2>2. \A r \in Replicas : \A d \in pending'[r] : Listens(d)' /\ ReplicaOf(d)' = r
    <3> SUFFICES ASSUME NEW r \in Replicas, NEW d \in pending'[r] PROVE Listens(d)' /\ ReplicaOf(d)' = r
      OBVIOUS
    <3>1. d \in Calls /\ d # c /\ d \in pending[r]
      BY <1>4
    <3> QED BY <1>6, <3>1 DEF Registered
  <2>3. \A d \in Calls : call'[d].pc \in {"register", "wait"} => ~call'[d].command.oneway
    BY <1>1 DEF Registered
  <2> QED BY <1>6, <2>1, <2>2, <2>3 DEF Registered
<1>8. Traffic' /\ Heard'
  BY <1>3, <1>6 DEF Traffic, Heard, RpcTypeOK
<1>9. Channels'
  BY <1>1, <1>3, <1>6 DEF Channels
<1> QED BY <1>5, <1>7, <1>8, <1>9

\* A call under way goes on to another label.
Moves(c, pc) ==
  /\ call[c].pc \in {"online", "register", "publish", "published"} /\ Goes(c, pc)
  /\ pc \in {"register", "wait"} => ~call[c].command.oneway
  /\ Sent(c) => Sent(c)' /\ (Listens(c)' => Listens(c))
  /\ pending' \in [Replicas -> SUBSET Calls]
  /\ \A r \in Replicas : \A d \in Calls : d # c => (d \in pending'[r] <=> d \in pending[r])
  /\ \A r \in Replicas : c \in pending'[r] <=> Listens(c)' /\ r = ReplicaOf(c)
  /\ inbox' = inbox \/ (Sent(c)' /\ inbox' = inbox \cup {[call |-> c, device |-> DeviceOf(c)]})
  /\ UNCHANGED <<listening, channel, replies, replied, online, answered>>

LEMMA MovesInv ==
  ASSUME RpcInv, NEW c \in Calls, NEW pc \in {"register", "publish", "published", "wait"}, Moves(c, pc)
  PROVE  RpcInv'
<1> USE DEF RpcInv, Moves
<1>1. /\ DeviceOf(c) \in RpcDevices /\ ReplicaOf(c) \in Replicas
      /\ call'[c].pc = pc /\ call'[c].pc # "unused" /\ call'[c].command \in Commands
      /\ \A d \in Calls : d # c => call'[d] = call[d]
      /\ call' \in [Calls -> CallRec]
  BY CommandOf DEF Goes
<1>2. /\ \A d \in Calls : ReplicaOf(d)' = ReplicaOf(d) /\ DeviceOf(d)' = DeviceOf(d)
      /\ \A d \in Calls : call'[d].result = call[d].result
      /\ \A d \in Calls : d # c => (Listens(d)' <=> Listens(d)) /\ (Sent(d)' <=> Sent(d))
  BY Same
<1>3. inbox' \subseteq [call : Calls, device : RpcDevices]
  BY <1>1 DEF RpcTypeOK
<1>4. RpcTypeOK'
  BY <1>1, <1>3 DEF RpcTypeOK
<1>5. Registered'
  <2>1. \A d \in Calls : Listens(d)' => d \in pending'[ReplicaOf(d)]
    <3> SUFFICES ASSUME NEW d \in Calls, d # c, Listens(d)' PROVE d \in pending'[ReplicaOf(d)]
      BY <1>1
    <3>1. Listens(d) /\ d \in pending[ReplicaOf(d)]
      BY <1>2 DEF Registered
    <3>2. ReplicaOf(d) \in Replicas
      BY <3>1, CommandOf DEF Listens
    <3> QED BY <3>1, <3>2
  <2>2. \A r \in Replicas : \A d \in pending'[r] : Listens(d)' /\ ReplicaOf(d) = r
    <3> SUFFICES ASSUME NEW r \in Replicas, NEW d \in pending'[r] PROVE Listens(d)' /\ ReplicaOf(d) = r
      OBVIOUS
    <3>1. d \in Calls
      OBVIOUS
    <3>2. CASE d = c
      BY <3>2
    <3>3. CASE d # c
      BY <1>2, <3>1, <3>3 DEF Registered
    <3> QED BY <3>2, <3>3
  <2>3. \A d \in Calls : call'[d].pc \in {"register", "wait"} => ~call'[d].command.oneway
    BY <1>1 DEF Registered, Goes
  <2>4. \A d \in Calls : ReplicaOf(d)' = ReplicaOf(d)
    BY <1>2
  <2>5. \A r \in Replicas : \A d \in pending'[r] : d \in Calls
    OBVIOUS
  <2> QED BY <2>1, <2>2, <2>3, <2>4, <2>5 DEF Registered
<1>6. Traffic'
  <2>1. \A m \in inbox' : Sent(m.call)' /\ m.device = DeviceOf(m.call)'
    BY <1>2, <1>3 DEF Traffic, RpcTypeOK
  <2>2. \A m \in replies : Sent(m.call)' /\ m.device = DeviceOf(m.call)'
    BY <1>2 DEF Traffic, RpcTypeOK
  <2> QED BY <2>1, <2>2 DEF Traffic
<1>7. Channels'
  <2>1. \A d \in Calls : call[d].result \in RpcDevices => d # c
    BY DEF Channels
  <2> QED BY <1>1, <1>2, <2>1 DEF Channels
<1>8. Heard'
  <2> SUFFICES ASSUME NEW d \in answered PROVE Sent(d)' /\ (Listens(d)' => channel[d] # Nobody)
    BY DEF Heard
  <2>1. d \in Calls /\ Sent(d)
    BY DEF RpcTypeOK, Heard
  <2>2. Sent(d)' /\ (Listens(d)' => Listens(d))
    BY <1>2, <2>1
  <2> QED BY <2>2 DEF Heard
<1> QED BY <1>4, <1>5, <1>6, <1>7, <1>8

LEMMA Unlisted ==
  ASSUME RpcInv, NEW c \in Calls, call[c].pc # "unused"
  PROVE  \A r \in Replicas : c \in pending[r] <=> Listens(c) /\ r = ReplicaOf(c)
BY DEF RpcInv, Registered

LEMMA IsOnlineInv ==
  ASSUME RpcInv, NEW c \in Calls, IsOnline(c)
  PROVE  RpcInv'
<1>1. /\ call[c].pc = "online" /\ ~Listens(c) /\ ~Sent(c)
      /\ UNCHANGED <<listening, pending, channel, inbox, replies, replied, online, answered>>
  BY DEF IsOnline, Listens, Sent
<1>2. CASE Ends(c, "offline")
  <2>1. c \notin answered /\ channel[c] = Nobody
    BY <1>1 DEF RpcInv, Heard, Channels
  <2>2. Finishes(c, "offline")
    BY <1>1, <1>2, <2>1, RpcAssumption DEF Finishes, Outcomes
  <2> QED BY <2>2, FinishInv DEF Outcomes
<1>3. CASE call[c].command.oneway /\ call' = [call EXCEPT ![c].pc = "publish"]
  <2>1. Goes(c, "publish")
    BY <1>3, GoesOn DEF RpcInv
  <2>2. ~Listens(c)'
    BY <1>3, <2>1, Same DEF RpcInv
  <2>3. Moves(c, "publish")
    BY <1>1, <2>1, <2>2, Unlisted DEF Moves, RpcInv, RpcTypeOK
  <2> QED BY <2>3, MovesInv
<1>4. CASE ~call[c].command.oneway /\ Proceeds(c)
  <2>1. Goes(c, "register")
    BY <1>1, <1>4, ProceedsGoes DEF RpcInv
  <2>2. ~Listens(c)'
    BY <1>4, <2>1, Same DEF RpcInv
  <2>3. Moves(c, "register")
    BY <1>1, <1>4, <2>1, <2>2, Unlisted DEF Moves, RpcInv, RpcTypeOK
  <2> QED BY <2>3, MovesInv
<1> QED BY <1>2, <1>3, <1>4 DEF IsOnline

LEMMA RegisterInv ==
  ASSUME RpcInv, NEW c \in Calls, Register(c)
  PROVE  RpcInv'
<1>1. /\ call[c].pc = "register" /\ ~call[c].command.oneway /\ ~Sent(c) /\ ~Listens(c)
      /\ UNCHANGED <<listening, channel, inbox, replies, replied, online, answered>>
  BY DEF Register, RpcInv, Registered, Listens, Sent
<1>2. Goes(c, "publish")
  BY <1>1, ProceedsGoes DEF Register, RpcInv
<1>3. Listens(c)'
  BY <1>1, <1>2, Same DEF RpcInv
<1>4. ReplicaOf(c) \in Replicas
  BY <1>1, CommandOf DEF RpcInv
<1>5. pending' = [pending EXCEPT ![ReplicaOf(c)] = @ \cup {c}]
  BY DEF Register
<1>6. /\ pending' \in [Replicas -> SUBSET Calls]
      /\ \A r \in Replicas : \A d \in Calls : d # c => (d \in pending'[r] <=> d \in pending[r])
  BY <1>4, <1>5 DEF RpcInv, RpcTypeOK
<1>7. \A r \in Replicas : c \in pending'[r] <=> r = ReplicaOf(c)
  BY <1>1, <1>4, <1>5, Unlisted DEF RpcInv, RpcTypeOK
<1>8. Moves(c, "publish")
  BY <1>1, <1>2, <1>3, <1>6, <1>7 DEF Moves
<1> QED BY <1>8, MovesInv

LEMMA PublishInv ==
  ASSUME RpcInv, NEW c \in Calls, Publish(c)
  PROVE  RpcInv'
<1>1. /\ call[c].pc = "publish" /\ ~Sent(c)
      /\ UNCHANGED <<listening, pending, channel, replies, replied, online, answered>>
      /\ inbox' = inbox \/ inbox' = inbox \cup {[call |-> c, device |-> DeviceOf(c)]}
  BY DEF Publish, Sent
<1>2. Goes(c, "published")
  BY GoesOn DEF Publish, RpcInv
<1>3. Sent(c)' /\ (Listens(c)' <=> Listens(c))
  BY <1>1, <1>2, Same DEF RpcInv, Listens
<1>4. pending \in [Replicas -> SUBSET Calls]
  BY DEF RpcInv, RpcTypeOK
<1>5. Moves(c, "published")
  BY <1>1, <1>2, <1>3, <1>4, Unlisted DEF Moves
<1> QED BY <1>5, MovesInv

LEMMA PublishReturnsInv ==
  ASSUME RpcInv, NEW c \in Calls, PublishReturns(c)
  PROVE  RpcInv'
<1>1. /\ call[c].pc = "published" /\ Sent(c)
      /\ UNCHANGED <<listening, inbox, replies, replied, online, answered>>
      /\ channel' = IF call'[c].pc = "over" THEN [channel EXCEPT ![c] = Nobody] ELSE channel
  BY DEF PublishReturns, Sent
<1>2. \A result \in Outcomes : Ends(c, result) => call'[c].pc = "over"
  BY EndsEffect DEF RpcInv
<1>3. CASE Ends(c, "broker") /\ pending' = Unregistered(c)
  <2>1. Finishes(c, "broker")
    BY <1>1, <1>2, <1>3, RpcAssumption DEF Finishes, Outcomes
  <2> QED BY <2>1, FinishInv DEF Outcomes
<1>4. CASE call[c].command.oneway /\ Ends(c, "accepted") /\ UNCHANGED pending
  <2>1. ~Listens(c)
    BY <1>4 DEF Listens
  <2>2. Finishes(c, "accepted")
    BY <1>1, <1>2, <1>4, <2>1, RpcAssumption DEF Finishes, Outcomes
  <2> QED BY <2>2, FinishInv DEF Outcomes
<1>5. CASE ~call[c].command.oneway /\ Proceeds(c) /\ UNCHANGED pending
  <2>1. Goes(c, "wait")
    BY <1>1, <1>5, ProceedsGoes DEF RpcInv
  <2>2. Listens(c) /\ Listens(c)' /\ Sent(c)'
    BY <1>1, <1>5, <2>1, Same DEF RpcInv, Listens
  <2>3. UNCHANGED channel
    BY <1>1, <2>1 DEF Goes
  <2>4. pending \in [Replicas -> SUBSET Calls]
    BY DEF RpcInv, RpcTypeOK
  <2>5. Moves(c, "wait")
    BY <1>1, <1>5, <2>1, <2>2, <2>3, <2>4, Unlisted DEF Moves
  <2> QED BY <2>5, MovesInv
<1> QED BY <1>3, <1>4, <1>5 DEF PublishReturns

LEMMA ReturnInv ==
  ASSUME RpcInv, NEW c \in Calls, Return(c)
  PROVE  RpcInv'
<1>1. /\ call[c].pc = "wait" /\ Sent(c)
      /\ UNCHANGED <<listening, inbox, replies, replied, online, answered>>
      /\ channel' = [channel EXCEPT ![c] = Nobody] /\ pending' = Unregistered(c)
  BY DEF Return, Sent
<1>2. CASE channel[c] # Nobody /\ Ends(c, channel[c])
  <2>1. channel[c] \in RpcDevices /\ channel[c] = DeviceOf(c)
    BY <1>2 DEF RpcInv, RpcTypeOK, Channels
  <2>2. Finishes(c, channel[c])
    BY <1>1, <1>2, <2>1 DEF Finishes
  <2> QED BY <2>1, <2>2, FinishInv
<1>3. CASE Ends(c, "timeout") \/ Ends(c, "canceled")
  <2>1. Finishes(c, "timeout") \/ Finishes(c, "canceled")
    BY <1>1, <1>3, RpcAssumption DEF Finishes, Outcomes
  <2> QED BY <2>1, FinishInv DEF Outcomes
<1> QED BY <1>2, <1>3 DEF Return

LEMMA RpcStepInv == RpcInv /\ [RpcNext]_rpcVars => RpcInv'
<1> SUFFICES ASSUME RpcInv, [RpcNext]_rpcVars PROVE RpcInv'
  OBVIOUS
<1>1. CASE UNCHANGED rpcVars
  BY <1>1 DEF rpcVars, RpcInv, RpcTypeOK, Registered, Traffic, Channels, Heard, Listens, Sent, ReplicaOf, DeviceOf
<1>2. CASE \/ \E r \in Replicas : StartResponseListener(r)
           \/ \E d \in RpcDevices : Connect(d)
  BY <1>2, SurroundingsInv
<1>3. CASE \E m \in inbox : DeviceReplies(m)
  BY <1>3, DeviceRepliesInv
<1>4. CASE \E m \in replies : HandleResponse(m)
  BY <1>4, HandleResponseInv
<1>5. CASE \E c \in Calls : \/ IsOnline(c) \/ Register(c) \/ Publish(c) \/ PublishReturns(c) \/ Return(c)
                            \/ \E x \in Commands : Handle(c, x)
  BY <1>5, IsOnlineInv, RegisterInv, PublishInv, PublishReturnsInv, ReturnInv, HandleInv
<1> QED BY <1>1, <1>2, <1>3, <1>4, <1>5 DEF RpcNext

------------------------------------------------------------------------------
\* SendTwoway registers an id before publish() and handleResponse delivers to a
\* buffered channel: a reply handled while its call is under way waits in the
\* channel, a call returns the reply of its own device or an error, and no id
\* outlives its call, for all interleavings, retries of the broker and faults.
THEOREM AnswersReach == RpcSpec => []AnswersReachCallers
BY RpcInitInv, RpcStepInv, RpcInvOfInv, PTL DEF RpcSpec

\* The types of the tables of calls and of the messages under way.
THEOREM RpcTypeCorrect == RpcSpec => []RpcTypeOK
<1>1. RpcInv => RpcTypeOK
  BY DEF RpcInv
<1> QED BY RpcInitInv, RpcStepInv, <1>1, PTL DEF RpcSpec

------------------------------------------------------------------------------
(* Desired state.                                                          *)

Payloads == {ExtractDesiredPayload(fs, v) : fs \in SUBSET Features, v \in 1..MaxWrites}

DesiredInv ==
  /\ writes \in 0..MaxWrites /\ deliveries \subseteq Payloads
  /\ connected \in BOOLEAN /\ disturbed \in BOOLEAN
  /\ ~disturbed => /\ deliveries \subseteq {lastPayload}
                   /\ deliveries = {} => retained = lastPayload
  /\ connected \/ retained = Nothing => seen = retained

LEMMA PayloadsAreSome == Nothing \notin Payloads
BY DeviceStateAssumption DEF Payloads, ExtractDesiredPayload

LEMMA DesiredInitInv == DeviceStateInit => DesiredInv
<1> SUFFICES ASSUME DeviceStateInit PROVE DesiredInv
  OBVIOUS
<1> USE DEF DeviceStateInit
<1>1. writes \in 0..MaxWrites
  BY DeviceStateAssumption
<1>2. deliveries = {} /\ retained = lastPayload /\ seen = retained
  OBVIOUS
<1>3. connected \in BOOLEAN /\ disturbed \in BOOLEAN
  OBVIOUS
<1> QED BY <1>1, <1>2, <1>3 DEF DesiredInv

LEMMA DesiredStepInv ==
  ASSUME DesiredInv, [DeviceStateNext]_deviceStateVars
  PROVE  DesiredInv'
<1> USE DEF DesiredInv
<1>1. CASE UNCHANGED desiredVars
  BY <1>1 DEF desiredVars
<1>2. ASSUME NEW fs \in (SUBSET Features) \ {{}}, SaveDesired(fs) PROVE DesiredInv'
  <2>1. writes + 1 \in 1..MaxWrites /\ ExtractDesiredPayload(fs, writes + 1) \in Payloads
    BY <1>2, DeviceStateAssumption DEF SaveDesired, Payloads
  <2>2. writes' \in 0..MaxWrites /\ deliveries' \subseteq Payloads
    BY <1>2, <2>1, DeviceStateAssumption DEF SaveDesired
  <2>3. ~disturbed' => deliveries' = {lastPayload'}
    BY <1>2 DEF SaveDesired
  <2> QED BY <1>2, <2>2, <2>3 DEF SaveDesired
<1>3. ASSUME NEW p \in deliveries, DeliverDesired(p) PROVE DesiredInv'
  <2>1. p # Nothing
    BY PayloadsAreSome
  <2> QED BY <1>3, <2>1 DEF DeliverDesired, PublishRetained
<1>4. ASSUME NEW p \in deliveries, DeliveryFails(p) PROVE DesiredInv'
  BY <1>4 DEF DeliveryFails
<1>5. CASE Reconnect
  BY <1>5 DEF Reconnect
<1>6. CASE \/ \E topic \in {"attributes", "telemetry"} : DeviceReports(topic)
           \/ \E r \in Listeners : HandleReportedMessage(r)
  BY <1>1, <1>6 DEF DeviceReports, HandleReportedMessage
<1> QED BY <1>1, <1>2, <1>3, <1>4, <1>5, <1>6 DEF DeviceStateNext, deviceStateVars

------------------------------------------------------------------------------
(* Reported state.                                                         *)

Messages == [topic : {"attributes", "telemetry"}, value : Nat]

NoAttributes(q) == \A i \in 1..Len(q) : q[i].topic # "attributes"
EndsWith(q, v) ==
  \E i \in 1..Len(q) :
    /\ q[i].topic = "attributes" /\ q[i].value = v
    /\ \A j \in 1..Len(q) : j > i => q[j].topic # "attributes"

ReportedInv ==
  /\ subject \in [Listeners -> Seq(Messages)]
  /\ reports \in Nat /\ missed \in BOOLEAN
  /\ ~missed =>
       /\ \A r \in Listeners : NoAttributes(subject[r]) \/ EndsWith(subject[r], lastReported)
       /\ (\A r \in Listeners : NoAttributes(subject[r])) => clientScope = lastReported

LEMMA QueueAppend ==
  ASSUME NEW q \in Seq(Messages), NEW m \in Messages, NEW v
  PROVE  /\ Append(q, m) \in Seq(Messages)
         /\ m.topic = "attributes" => EndsWith(Append(q, m), m.value) /\ ~NoAttributes(Append(q, m))
         /\ m.topic # "attributes" => /\ NoAttributes(Append(q, m)) <=> NoAttributes(q)
                                      /\ EndsWith(q, v) => EndsWith(Append(q, m), v)
<1> DEFINE n == Append(q, m)
<1>1. /\ n \in Seq(Messages) /\ Len(n) = Len(q) + 1 /\ Len(q) \in Nat /\ n[Len(q) + 1] = m
      /\ \A i \in 1..Len(q) : n[i] = q[i]
  OBVIOUS
<1> HIDE DEF n
<1>2. ASSUME m.topic = "attributes" PROVE EndsWith(n, m.value) /\ ~NoAttributes(n)
  BY <1>1, <1>2 DEF EndsWith, NoAttributes
<1>3. ASSUME m.topic # "attributes" PROVE NoAttributes(n) <=> NoAttributes(q)
  BY <1>1, <1>3 DEF NoAttributes
<1>4. ASSUME m.topic # "attributes", EndsWith(q, v) PROVE EndsWith(n, v)
  <2>1. PICK i \in 1..Len(q) : /\ q[i].topic = "attributes" /\ q[i].value = v
                               /\ \A j \in 1..Len(q) : j > i => q[j].topic # "attributes"
    BY <1>4 DEF EndsWith
  <2>2. i \in 1..Len(n) /\ n[i] = q[i]
    BY <1>1
  <2>3. \A j \in 1..Len(n) : j > i => n[j].topic # "attributes"
    BY <1>1, <1>4, <2>1
  <2> QED BY <2>1, <2>2, <2>3 DEF EndsWith
<1> QED BY <1>1, <1>2, <1>3, <1>4 DEF n

LEMMA QueueTail ==
  ASSUME NEW q \in Seq(Messages), q # <<>>, NEW v
  PROVE  /\ Tail(q) \in Seq(Messages) /\ Head(q) \in Messages
         /\ NoAttributes(q) => NoAttributes(Tail(q)) /\ Head(q).topic # "attributes"
         /\ Head(q).topic # "attributes" /\ NoAttributes(Tail(q)) => NoAttributes(q)
         /\ EndsWith(q, v) => \/ EndsWith(Tail(q), v)
                              \/ /\ NoAttributes(Tail(q))
                                 /\ Head(q).topic = "attributes" /\ Head(q).value = v
<1> DEFINE n == Tail(q)
<1>1. /\ n \in Seq(Messages) /\ Len(q) \in Nat /\ Len(q) > 0 /\ Len(n) = Len(q) - 1
      /\ Head(q) = q[1] /\ Head(q) \in Messages
      /\ \A i \in 1..Len(n) : n[i] = q[i + 1]
  OBVIOUS
<1> HIDE DEF n
<1>2. ASSUME NoAttributes(q) PROVE NoAttributes(n) /\ Head(q).topic # "attributes"
  BY <1>1, <1>2 DEF NoAttributes
<1>3. ASSUME Head(q).topic # "attributes", NoAttributes(n) PROVE NoAttributes(q)
  <2>1. ASSUME NEW i \in 1..Len(q) PROVE q[i].topic # "attributes"
    <3>1. CASE i = 1
      BY <1>1, <1>3, <3>1
    <3>2. CASE i # 1
      <4>1. i - 1 \in 1..Len(n) /\ n[i - 1] = q[i]
        BY <1>1, <3>2
      <4> QED BY <1>3, <4>1 DEF NoAttributes
    <3> QED BY <3>1, <3>2
  <2> QED BY <2>1 DEF NoAttributes
<1>4. ASSUME EndsWith(q, v)
      PROVE  \/ EndsWith(n, v)
             \/ NoAttributes(n) /\ Head(q).topic = "attributes" /\ Head(q).value = v
  <2>1. PICK i \in 1..Len(q) : /\ q[i].topic = "attributes" /\ q[i].value = v
                               /\ \A j \in 1..Len(q) : j > i => q[j].topic # "attributes"
    BY <1>4 DEF EndsWith
  <2>2. \A k \in 1..Len(n) : k + 1 \in 1..Len(q) /\ n[k] = q[k + 1]
    BY <1>1
  <2>3. CASE i = 1
    BY <1>1, <2>1, <2>2, <2>3 DEF NoAttributes
  <2>4. CASE i # 1
    <3>1. i - 1 \in 1..Len(n) /\ n[i - 1] = q[i]
      BY <1>1, <2>4
    <3>2. \A k \in 1..Len(n) : k > i - 1 => n[k].topic # "attributes"
      BY <2>1, <2>2, <1>1
    <3> QED BY <2>1, <3>1, <3>2 DEF EndsWith
  <2> QED BY <2>3, <2>4
<1> QED BY <1>1, <1>2, <1>3, <1>4 DEF n

LEMMA ReportedInitInv == DeviceStateInit => ReportedInv
<1> SUFFICES ASSUME DeviceStateInit PROVE ReportedInv
  OBVIOUS
<1> USE DEF DeviceStateInit
<1>1. subject \in [Listeners -> Seq(Messages)]
  OBVIOUS
<1>2. \A r \in Listeners : NoAttributes(subject[r])
  BY DEF NoAttributes
<1>3. reports \in Nat /\ missed \in BOOLEAN /\ clientScope = lastReported
  OBVIOUS
<1> QED BY <1>1, <1>2, <1>3 DEF ReportedInv

LEMMA DeviceReportsInv ==
  ASSUME ReportedInv, NEW topic \in {"attributes", "telemetry"}, DeviceReports(topic)
  PROVE  ReportedInv'
<1> USE DEF ReportedInv
<1> DEFINE m == [topic |-> topic, value |-> reports + 1]
<1>1. m \in Messages /\ m.topic = topic /\ m.value = reports + 1
  BY DEF Messages
<1>2. PICK hearers \in SUBSET Listeners :
        /\ subject' = [r \in Listeners |-> IF r \in hearers THEN Append(subject[r], m) ELSE subject[r]]
        /\ missed' = (missed \/ hearers # Listeners)
  BY DEF DeviceReports, Subscribed
<1>3. /\ lastReported' = IF topic = "attributes" THEN reports + 1 ELSE lastReported
      /\ reports' \in Nat /\ clientScope' = clientScope
  BY DEF DeviceReports
<1> HIDE DEF m
<1>4. subject' \in [Listeners -> Seq(Messages)]
  BY <1>1, <1>2, QueueAppend
<1>5. ASSUME ~missed'
      PROVE  /\ \A r \in Listeners : NoAttributes(subject'[r]) \/ EndsWith(subject'[r], lastReported')
             /\ (\A r \in Listeners : NoAttributes(subject'[r])) => clientScope' = lastReported'
  <2>1. ~missed /\ \A r \in Listeners : subject'[r] = Append(subject[r], m)
    BY <1>2, <1>5
  <2>2. CASE topic = "attributes"
    <3>1. \A r \in Listeners : EndsWith(subject'[r], lastReported') /\ ~NoAttributes(subject'[r])
      BY <1>1, <1>3, <2>1, <2>2, QueueAppend
    <3> QED BY <3>1, DeviceStateAssumption
  <2>3. CASE topic # "attributes"
    <3>1. ASSUME NEW r \in Listeners
          PROVE  /\ NoAttributes(subject'[r]) <=> NoAttributes(subject[r])
                 /\ EndsWith(subject[r], lastReported) => EndsWith(subject'[r], lastReported)
      BY <1>1, <2>1, <2>3, QueueAppend
    <3> QED BY <1>3, <2>1, <2>3, <3>1
  <2> QED BY <2>2, <2>3
<1>6. missed' \in BOOLEAN
  BY <1>2
<1> QED BY <1>3, <1>4, <1>5, <1>6

LEMMA HandleReportedInv ==
  ASSUME ReportedInv, NEW r \in Listeners, HandleReportedMessage(r)
  PROVE  ReportedInv'
<1> USE DEF ReportedInv
<1> DEFINE q == subject[r]
<1>1. /\ q \in Seq(Messages) /\ q # <<>>
      /\ subject' = [subject EXCEPT ![r] = Tail(q)]
      /\ UNCHANGED <<reports, lastReported>> /\ missed' \in BOOLEAN
      /\ ~missed' => /\ ~missed
                     /\ clientScope' = IF Head(q).topic = "attributes" THEN Head(q).value ELSE clientScope
  <2>1. /\ q \in Seq(Messages) /\ q # <<>> /\ subject' = [subject EXCEPT ![r] = Tail(q)]
        /\ UNCHANGED <<reports, lastReported>>
    BY DEF HandleReportedMessage
  <2>2. \/ Head(q).topic = "attributes" /\ clientScope' = Head(q).value /\ missed' = missed
        \/ Head(q).topic = "attributes" /\ missed' = TRUE
        \/ Head(q).topic # "attributes" /\ clientScope' = clientScope /\ missed' = missed
    BY DEF HandleReportedMessage
  <2> QED BY <2>1, <2>2
<1> HIDE DEF q
<1>2. subject' \in [Listeners -> Seq(Messages)]
  BY <1>1, QueueTail
<1>3. subject'[r] = Tail(q) /\ \A s \in Listeners : s # r => subject'[s] = subject[s]
  BY <1>1
<1>4. ASSUME ~missed'
      PROVE  /\ \A s \in Listeners : NoAttributes(subject'[s]) \/ EndsWith(subject'[s], lastReported')
             /\ (\A s \in Listeners : NoAttributes(subject'[s])) => clientScope' = lastReported'
  <2>1. /\ NoAttributes(q) \/ EndsWith(q, lastReported)
        /\ (\A s \in Listeners : NoAttributes(subject[s])) => clientScope = lastReported
    BY <1>1, <1>4 DEF q
  <2>2. NoAttributes(Tail(q)) \/ EndsWith(Tail(q), lastReported)
    BY <1>1, <2>1, QueueTail
  <2>3. CASE Head(q).topic = "attributes"
    <3>1. NoAttributes(Tail(q)) => Head(q).value = lastReported
      <4>1. EndsWith(q, lastReported)
        BY <1>1, <2>1, <2>3, QueueTail
      <4>2. \/ EndsWith(Tail(q), lastReported)
            \/ Head(q).value = lastReported
        BY <1>1, <4>1, QueueTail
      <4>3. EndsWith(Tail(q), lastReported) => ~NoAttributes(Tail(q))
        BY DEF EndsWith, NoAttributes
      <4> QED BY <4>2, <4>3
    <3> QED BY <1>1, <1>3, <1>4, <2>2, <2>3, <3>1
  <2>4. CASE Head(q).topic # "attributes"
    <3>1. NoAttributes(Tail(q)) => NoAttributes(q)
      BY <1>1, <2>4, QueueTail
    <3> QED BY <1>1, <1>3, <1>4, <2>1, <2>2, <2>4, <3>1 DEF q
  <2> QED BY <2>3, <2>4
<1> QED BY <1>1, <1>2, <1>4

LEMMA ReportedStepInv ==
  ASSUME ReportedInv, [DeviceStateNext]_deviceStateVars
  PROVE  ReportedInv'
<1>1. CASE UNCHANGED reportedVars
  BY <1>1 DEF reportedVars, ReportedInv
<1>2. CASE \/ \E fs \in (SUBSET Features) \ {{}} : SaveDesired(fs)
           \/ \E p \in deliveries : DeliverDesired(p) \/ DeliveryFails(p)
           \/ Reconnect
  BY <1>1, <1>2 DEF SaveDesired, DeliverDesired, DeliveryFails, Reconnect
<1> QED BY <1>1, <1>2, DeviceReportsInv, HandleReportedInv DEF DeviceStateNext, deviceStateVars

\* deliverDesired publishes retained and handleReportedMessage works its queue in
\* order: unless two deliveries overlap or a message is lost, the device ends
\* with the payload of the last write and every replica's saves, interleaved in
\* any way, leave the value the device reported last.
THEOREM StateAgrees == DeviceStateSpec => []DeviceAndStoreAgree
<1>1. DesiredInv /\ ReportedInv => DeviceAndStoreAgree
  <2> SUFFICES ASSUME DesiredInv, ReportedInv PROVE DeviceAndStoreAgree
    OBVIOUS
  <2>1. LastWriteReachesDevice
    BY DEF DesiredInv, LastWriteReachesDevice
  <2>2. LastReportWins
    BY DEF ReportedInv, LastReportWins, NoAttributes
  <2> QED BY <2>1, <2>2 DEF DeviceAndStoreAgree
<1>2. DesiredInv /\ [DeviceStateNext]_deviceStateVars => DesiredInv'
  BY DesiredStepInv
<1>3. ReportedInv /\ [DeviceStateNext]_deviceStateVars => ReportedInv'
  BY ReportedStepInv
<1> QED BY <1>1, <1>2, <1>3, DesiredInitInv, ReportedInitInv, PTL DEF DeviceStateSpec

(***************************************************************************)
(* Reports.  What they compute is recursive: the days before a month, the  *)
(* messages since an hour, the order of a page.  Induction over the        *)
(* naturals is stated about a set (NatSetInduction), since the provers do  *)
(* not instantiate the library's induction theorems, which are about       *)
(* operators; a recursive function exists because its finite parts do.     *)
(***************************************************************************)
\* The intervals below the numbers that are not in S have a least one.
LEMMA NatSetInduction ==
  ASSUME NEW S, 0 \in S, \A n \in Nat : n \in S => n + 1 \in S
  PROVE  Nat \subseteq S
<1> DEFINE T == {0..n : n \in Nat \ S}
<1>1. SUFFICES ASSUME T # {} PROVE FALSE
  OBVIOUS
<1>2. T \subseteq FiniteSubsetsOf(Nat)
  <2>1. \A n \in Nat : IsFiniteSet(0..n) /\ 0..n \subseteq Nat
    BY FS_Interval
  <2> QED BY <2>1 DEF FiniteSubsetsOf
<1>3. PICK X \in T : \A Y \in T : <<Y, X>> \notin StrictSubsetOrdering(Nat)
  <2> HIDE DEF T
  <2> QED BY <1>1, <1>2, FS_StrictSubsetOrderingWellFounded, WFMin
<1>4. PICK n \in Nat \ S : X = 0..n
  OBVIOUS
<1>5. n - 1 \in Nat \ S
  OBVIOUS
<1>6. 0..(n - 1) \subseteq 0..n /\ 0..(n - 1) # 0..n
  BY <1>4, <1>5
<1>7. <<0..(n - 1), 0..n>> \in StrictSubsetOrdering(Nat)
  BY <1>4, <1>5, <1>6 DEF StrictSubsetOrdering
<1> QED BY <1>3, <1>4, <1>5, <1>7

\* A running sum is a function: one for n terms is extended by one term.
LEMMA RunningSum ==
  ASSUME NEW a, NEW n \in Nat
  PROVE  \E f : f = [m \in 1..n |-> IF m = 1 THEN 0 ELSE f[m - 1] + a[m - 1]]
<1> DEFINE Sum(f, k) == f = [m \in 1..k |-> IF m = 1 THEN 0 ELSE f[m - 1] + a[m - 1]]
           S == {k \in Nat : \E f : Sum(f, k)}
<1>1. 0 \in S
  <2>1. Sum([m \in 1..0 |-> 0], 0)
    OBVIOUS
  <2> QED BY <2>1
<1>2. ASSUME NEW k \in Nat, k \in S PROVE k + 1 \in S
  <2>1. PICK f : Sum(f, k)
    BY <1>2
  <2> DEFINE g == [m \in 1..(k + 1) |->
                     IF m = 1 THEN 0 ELSE f[m - 1] + a[m - 1]]
  <2>2. \A m \in 1..k : g[m] = f[m]
    BY <2>1
  <2>3. \A m \in 1..(k + 1) : m # 1 => m - 1 \in 1..k
    OBVIOUS
  <2>4. g = [m \in 1..(k + 1) |-> IF m = 1 THEN 0 ELSE g[m - 1] + a[m - 1]]
    BY <2>2, <2>3
  <2>5. Sum(g, k + 1)
    BY <2>4
  <2> HIDE DEF g, Sum
  <2> QED BY <2>5
<1>3. Nat \subseteq S
  <2> HIDE DEF S
  <2> QED BY <1>1, <1>2, NatSetInduction
<1> QED BY <1>3

------------------------------------------------------------------------------
(* The calendar.                                                           *)

LEMMA DaysBeforeDef ==
  DaysBefore = [m \in Months |-> IF m = 1 THEN 0 ELSE DaysBefore[m - 1] + MonthLengths[m - 1]]
<1>1. Len(MonthLengths) \in Nat
  BY AuditAssumption
<1>2. \E f : f = [m \in Months |-> IF m = 1 THEN 0 ELSE f[m - 1] + MonthLengths[m - 1]]
  BY <1>1, RunningSum DEF Months
<1> QED BY <1>2 DEF DaysBefore

LEMMA DaysBeforeSteps ==
  /\ DaysBefore \in [Months -> Nat]
  /\ DaysBefore[1] = 0
  /\ \A m \in Months : m + 1 \in Months => DaysBefore[m + 1] = DaysBefore[m] + MonthLengths[m]
  /\ \A m \in Months : MonthLengths[m] \in Nat \ {0}
<1>1. Len(MonthLengths) \in Nat /\ Len(MonthLengths) > 2 /\ \A m \in Months : MonthLengths[m] \in Nat \ {0}
  BY AuditAssumption, CalendarAssumption DEF Months
<1>2. \A m \in Months : DaysBefore[m] = IF m = 1 THEN 0 ELSE DaysBefore[m - 1] + MonthLengths[m - 1]
  BY DaysBeforeDef
<1>3. \A m \in Months : m + 1 \in Months => DaysBefore[m + 1] = DaysBefore[m] + MonthLengths[m]
  BY <1>1, <1>2 DEF Months
<1> DEFINE S == {n \in Nat : n + 1 \in Months => DaysBefore[n + 1] \in Nat}
<1>4. 0 \in S
  BY <1>1, <1>2 DEF Months
<1>5. ASSUME NEW n \in Nat, n \in S PROVE n + 1 \in S
  BY <1>1, <1>3, <1>5 DEF Months
<1>6. Nat \subseteq S
  <2> HIDE DEF S
  <2> QED BY <1>4, <1>5, NatSetInduction
<1>7. \A m \in Months : DaysBefore[m] \in Nat
  <2> TAKE m \in Months
  <2>1. m - 1 \in S /\ (m - 1) + 1 = m
    BY <1>1, <1>6 DEF Months
  <2> QED BY <2>1
<1> QED BY <1>1, <1>2, <1>3, <1>7, DaysBeforeDef DEF Months

\* The months follow each other.
LEMMA MonthsInOrder ==
  ASSUME NEW m \in Months, NEW k \in Months, m < k
  PROVE  DaysBefore[m] + MonthLengths[m] <= DaysBefore[k]
<1> DEFINE S == {n \in Nat : m + 1 + n \in Months => DaysBefore[m] + MonthLengths[m] <= DaysBefore[m + 1 + n]}
<1>1. Months = 1..Len(MonthLengths) /\ Len(MonthLengths) \in Nat
  BY AuditAssumption DEF Months
<1>2. 0 \in S
  <2>1. m \in Nat /\ m + 1 + 0 = m + 1
    BY <1>1
  <2> QED BY <2>1, DaysBeforeSteps
<1>3. ASSUME NEW n \in Nat, n \in S PROVE n + 1 \in S
  <2>1. SUFFICES ASSUME m + 1 + (n + 1) \in Months
                 PROVE  DaysBefore[m] + MonthLengths[m] <= DaysBefore[m + 1 + (n + 1)]
    OBVIOUS
  <2>2. m + 1 + n \in Months /\ m + 1 + (n + 1) = (m + 1 + n) + 1
    BY <1>1, <2>1
  <2>3. DaysBefore[(m + 1 + n) + 1] = DaysBefore[m + 1 + n] + MonthLengths[m + 1 + n]
    BY <2>1, <2>2, DaysBeforeSteps
  <2>4. DaysBefore[m] + MonthLengths[m] <= DaysBefore[m + 1 + n]
    BY <1>3, <2>2
  <2> QED BY <2>2, <2>3, <2>4, DaysBeforeSteps
<1>4. Nat \subseteq S
  <2> HIDE DEF S
  <2> QED BY <1>2, <1>3, NatSetInduction
<1>5. k - m - 1 \in Nat /\ m + 1 + (k - m - 1) = k
  BY <1>1
<1> QED BY <1>4, <1>5

\* A day lies in one month at most, and the days there are lie in one.
InMonth(d, m) == DaysBefore[m] < d /\ d <= DaysBefore[m] + MonthLengths[m]

LEMMA OneMonth ==
  ASSUME NEW d \in Nat, NEW m \in Months, InMonth(d, m)
  PROVE  MonthOf(d) = m
<1>1. \A k \in Months : InMonth(d, k) => k = m
  <2> SUFFICES ASSUME NEW k \in Months, InMonth(d, k), k # m PROVE FALSE
    OBVIOUS
  <2>1. k < m \/ m < k
    BY AuditAssumption DEF Months
  <2> QED BY <2>1, MonthsInOrder, DaysBeforeSteps DEF InMonth
<1>2. MonthOf(d) = CHOOSE k \in Months : InMonth(d, k)
  BY DEF MonthOf, InMonth
<1> HIDE DEF InMonth
<1> QED BY <1>1, <1>2

LEMMA DayHasMonth ==
  ASSUME NEW d \in 1..MaxDay
  PROVE  /\ MonthOf(d) \in Months /\ MonthOf(d) + 2 \in Months
         /\ InMonth(d, MonthOf(d))
<1> DEFINE L == Len(MonthLengths)
           S == {n \in Nat : n + 1 \in Months => DaysBefore[n + 1] < d}
<1>1. L \in Nat /\ L > 2 /\ Months = 1..L /\ MaxDay \in Nat /\ d \in Nat \ {0} /\ d <= DaysBefore[L - 1]
  <2>1. L \in Nat /\ L > 2 /\ Months = 1..L /\ L - 1 \in Months
    BY AuditAssumption, CalendarAssumption DEF Months
  <2>2. DaysBefore[L - 1] \in Nat
    BY <2>1, DaysBeforeSteps
  <2> QED BY <2>1, <2>2, AuditAssumption, CalendarAssumption
<1>2. 0 \in S
  BY DaysBeforeSteps
<1>3. L - 2 \notin S /\ L - 2 \in Nat
  BY <1>1, DaysBeforeSteps
<1>4. PICK n \in Nat : n \in S /\ n + 1 \notin S
  <2> HIDE DEF S
  <2> QED BY <1>2, <1>3, NatSetInduction
<1>5. n + 2 \in Months /\ n + 1 \in Months /\ DaysBefore[n + 1] < d /\ d <= DaysBefore[n + 2]
  <2>1. n + 2 \in Months /\ n + 1 \in Months /\ (n + 1) + 1 = n + 2
    BY <1>1, <1>4
  <2>2. DaysBefore[n + 1] \in Nat /\ DaysBefore[n + 2] \in Nat
    BY <2>1, DaysBeforeSteps
  <2> QED BY <1>1, <1>4, <2>1, <2>2
<1>6. InMonth(d, n + 1)
  BY <1>1, <1>5, DaysBeforeSteps DEF InMonth
<1>7. n + 3 \in Months
  <2>1. CASE L - 1 < n + 2
    <3>1. L - 1 \in Months /\ n + 1 \in Months /\ L - 1 <= n + 1
      BY <1>1, <1>5, <2>1
    <3>2. DaysBefore[L - 1] <= DaysBefore[n + 1]
      BY <3>1, MonthsInOrder, DaysBeforeSteps, <1>1
    <3> QED BY <1>1, <1>5, <3>1, <3>2, DaysBeforeSteps
  <2> QED BY <1>1, <1>5, <2>1
<1> QED BY <1>1, <1>5, <1>6, <1>7, OneMonth

------------------------------------------------------------------------------
(* The audit log.                                                          *)

LogRow == [event : Nat, day : 1..MaxDay, in : Months \cup {Default}]

AuditTypeOK ==
  /\ day \in 1..MaxDay /\ swept \in Nat /\ running \in BOOLEAN
  /\ partitions \subseteq Months
  /\ logged \subseteq LogRow /\ IsFiniteSet(logged)
  /\ queue \in Seq(Nat) /\ Len(queue) <= QueueSize
  /\ drops \in Nat /\ insertsFailed \in Nat /\ accepted \in Nat /\ gone \in Nat

\* The events of the table, then those of the queue, in the order they were accepted in.
EventsInOrder ==
  /\ \A x \in logged : x.event <= accepted /\ x.day <= day
  /\ \A i \in DOMAIN queue : queue[i] <= accepted
  /\ \A x \in logged, i \in DOMAIN queue : x.event < queue[i]
  /\ \A i, j \in DOMAIN queue : i < j => queue[i] < queue[j]

\* A row of a month's partition is of that month.
RowsInTheirMonth == \A x \in logged : x.in # Default => InMonth(x.day, x.in)

AuditInv == AuditTypeOK /\ EventsInOrder /\ RowsInTheirMonth /\ EventsAccountedFor

LEMMA AuditInitInv == AuditInit => AuditInv
<1> SUFFICES ASSUME AuditInit PROVE AuditInv
  OBVIOUS
<1>1. AuditTypeOK
  BY AuditAssumption, FS_EmptySet DEF AuditInit, AuditTypeOK
<1>2. EventsInOrder /\ RowsInTheirMonth
  BY DEF AuditInit, EventsInOrder, RowsInTheirMonth
<1>3. EventsAccountedFor
  BY FS_EmptySet DEF AuditInit, EventsAccountedFor
<1> QED BY <1>1, <1>2, <1>3 DEF AuditInv

\* A row with the day of the insert, in the partition of that day's month, or in none.
LEMMA DoWriteRow ==
  ASSUME AuditInv, NEW e \in Nat, DoWrite(e), \A x \in logged : x.event < e
  PROVE  /\ logged' \subseteq LogRow /\ IsFiniteSet(logged') /\ insertsFailed' \in Nat
         /\ Cardinality(logged') + insertsFailed' = Cardinality(logged) + insertsFailed + 1
         /\ \A x \in logged' : x.event <= e /\ x.day <= day
         /\ \A x \in logged' : x.in # Default => InMonth(x.day, x.in)
         /\ \A x, y \in logged' : x.event < y.event => x.day <= y.day
<1> USE DEF AuditInv, AuditTypeOK
<1>0. /\ day \in 1..MaxDay /\ day \in Nat /\ insertsFailed \in Nat /\ IsFiniteSet(logged) /\ Cardinality(logged) \in Nat
      /\ \A x \in logged : x \in LogRow
      /\ \A x \in logged : x.event \in Nat /\ x.day \in Nat
  BY AuditAssumption, FS_CardinalityType DEF LogRow
<1>1. CASE UNCHANGED logged
  <2>1. insertsFailed' = insertsFailed + 1
    <3>1. SUFFICES ASSUME insertsFailed' # insertsFailed + 1 PROVE FALSE
      OBVIOUS
    <3> DEFINE r == [event |-> e, day |-> day, in |-> IF MonthOf(day) \in partitions THEN MonthOf(day) ELSE Default]
    <3>2. r \in logged /\ r.event = e
      BY <1>1, <3>1 DEF DoWrite
    <3> HIDE DEF r
    <3> QED BY <1>0, <3>2
  <2> QED BY <1>0, <1>1, <2>1 DEF EventsInOrder, RowsInTheirMonth, EventsAccountedFor
<1>2. CASE ~UNCHANGED logged
  <2> DEFINE m == MonthOf(day)
             r == [event |-> e, day |-> day, in |-> IF m \in partitions THEN m ELSE Default]
  <2>1. logged' = logged \cup {r} /\ insertsFailed' = insertsFailed
    BY <1>2 DEF DoWrite
  <2>2. r \in LogRow /\ r.event = e /\ r.day = day /\ (r.in # Default => InMonth(r.day, r.in))
    BY <1>0, DayHasMonth DEF LogRow, Default
  <2> HIDE DEF r
  <2>3. r \notin logged
    BY <1>0, <2>2
  <2>4. IsFiniteSet(logged') /\ Cardinality(logged') = Cardinality(logged) + 1
    BY <1>0, <2>1, <2>3, FS_AddElement
  <2>5. \A x \in logged' : x.event <= e /\ x.day <= day
    BY <1>0, <2>1, <2>2 DEF EventsInOrder
  <2>6. \A x, y \in logged' : x.event < y.event => x.day <= y.day
    BY <1>0, <2>1, <2>2 DEF EventsInOrder, EventsAccountedFor
  <2> QED BY <1>0, <2>1, <2>2, <2>4, <2>5, <2>6 DEF RowsInTheirMonth
<1> QED BY <1>1, <1>2

LEMMA WriteInv == ASSUME AuditInv, Write PROVE AuditInv'
<1> DEFINE e == accepted'
<1>0. /\ accepted \in Nat /\ drops \in Nat /\ gone \in Nat /\ insertsFailed \in Nat /\ day \in Nat
      /\ queue \in Seq(Nat) /\ Len(queue) \in Nat /\ Len(queue) <= QueueSize /\ QueueSize \in Nat
      /\ Cardinality(logged) \in Nat /\ IsFiniteSet(logged) /\ logged \subseteq LogRow
      /\ \A x \in logged : x.event \in Nat /\ x.day \in Nat
      /\ DOMAIN queue = 1..Len(queue) /\ \A i \in DOMAIN queue : queue[i] \in Nat
  BY AuditAssumption, FS_CardinalityType DEF AuditInv, AuditTypeOK, LogRow
<1>1. e = accepted + 1 /\ e \in Nat /\ UNCHANGED <<day, swept, running, partitions, gone>>
  BY <1>0 DEF Write
<1>2. \A x \in logged : x.event < e
  BY <1>0, <1>1 DEF AuditInv, EventsInOrder
<1>3. CASE QueueSize = 0
  <2>1. DoWrite(e) /\ UNCHANGED <<queue, drops>> /\ queue = <<>>
    BY <1>0, <1>3 DEF Write
  <2>2. /\ logged' \subseteq LogRow /\ IsFiniteSet(logged') /\ insertsFailed' \in Nat
        /\ Cardinality(logged') + insertsFailed' = Cardinality(logged) + insertsFailed + 1
        /\ \A x \in logged' : x.event <= e /\ x.day <= day
        /\ \A x \in logged' : x.in # Default => InMonth(x.day, x.in)
        /\ \A x, y \in logged' : x.event < y.event => x.day <= y.day
    BY <1>1, <1>2, <2>1, DoWriteRow
  <2>3. AuditTypeOK'
    BY <1>0, <1>1, <2>1, <2>2 DEF AuditInv, AuditTypeOK
  <2>4. EventsInOrder'
    BY <1>1, <2>1, <2>2 DEF EventsInOrder
  <2>5. RowsInTheirMonth'
    BY <2>2 DEF RowsInTheirMonth
  <2>6. Cardinality(logged') \in Nat
    BY <2>2, FS_CardinalityType
  <2>7. Cardinality(logged') + Len(queue') + drops' + insertsFailed' + gone' = accepted'
    BY <1>0, <1>1, <2>1, <2>2, <2>6 DEF AuditInv, EventsAccountedFor
  <2>8. EventsAccountedFor'
    BY <2>2, <2>7 DEF EventsAccountedFor
  <2> QED BY <2>3, <2>4, <2>5, <2>8 DEF AuditInv
<1>4. CASE QueueSize # 0 /\ Len(queue) < QueueSize
  <2>1. queue' = Append(queue, e) /\ UNCHANGED <<drops, logged, insertsFailed>>
    BY <1>4 DEF Write
  <2>2. /\ queue' \in Seq(Nat) /\ Len(queue') = Len(queue) + 1 /\ DOMAIN queue' = 1..(Len(queue) + 1)
        /\ \A i \in 1..Len(queue) : queue'[i] = queue[i]
        /\ queue'[Len(queue) + 1] = e
    BY <1>0, <1>1, <2>1, AppendProperties
  <2>3. AuditTypeOK'
    BY <1>0, <1>1, <1>4, <2>1, <2>2 DEF AuditInv, AuditTypeOK
  <2>4. EventsInOrder'
    <3>1. \A x \in logged' : x.event <= accepted' /\ x.day <= day'
      BY <1>0, <1>1, <2>1 DEF AuditInv, EventsInOrder
    <3>2. \A i \in DOMAIN queue' : queue'[i] <= accepted' /\ (i # Len(queue) + 1 => i \in DOMAIN queue)
      BY <1>0, <1>1, <2>2 DEF AuditInv, EventsInOrder
    <3>3. \A x \in logged', i \in DOMAIN queue' : x.event < queue'[i]
      BY <1>0, <1>2, <2>1, <2>2, <3>2 DEF AuditInv, EventsInOrder
    <3>4. ASSUME NEW i \in DOMAIN queue', NEW j \in DOMAIN queue', i < j PROVE queue'[i] < queue'[j]
      <4>1. Len(queue) \in Nat /\ i \in 1..Len(queue) /\ i \in DOMAIN queue /\ queue'[i] = queue[i]
        BY <1>0, <2>2, <3>4
      <4>2. CASE j = Len(queue) + 1
        <5>1. queue[i] <= accepted
          BY <4>1 DEF AuditInv, EventsInOrder
        <5>2. queue[i] \in Nat
          BY <1>0, <4>1
        <5> QED BY <1>0, <1>1, <2>2, <4>1, <4>2, <5>1, <5>2
      <4>3. CASE j # Len(queue) + 1
        <5>1. j \in 1..Len(queue) /\ j \in DOMAIN queue /\ queue'[j] = queue[j]
          BY <1>0, <2>2, <4>1, <4>3
        <5>2. queue[i] < queue[j]
          BY <3>4, <4>1, <5>1 DEF AuditInv, EventsInOrder
        <5> QED BY <4>1, <5>1, <5>2
      <4> QED BY <4>2, <4>3
    <3> QED BY <3>1, <3>2, <3>3, <3>4 DEF EventsInOrder
  <2>5. RowsInTheirMonth' /\ EventsAccountedFor'
    BY <1>0, <1>1, <2>1, <2>2 DEF AuditInv, RowsInTheirMonth, EventsAccountedFor
  <2> QED BY <2>3, <2>4, <2>5 DEF AuditInv
<1>5. CASE QueueSize # 0 /\ ~(Len(queue) < QueueSize)
  <2>1. drops' = drops + 1 /\ UNCHANGED <<queue, logged, insertsFailed>>
    BY <1>5 DEF Write
  <2>2. AuditTypeOK'
    BY <1>0, <1>1, <2>1 DEF AuditInv, AuditTypeOK
  <2>3. EventsInOrder'
    BY <1>0, <1>1, <2>1 DEF AuditInv, EventsInOrder
  <2>4. RowsInTheirMonth' /\ EventsAccountedFor'
    BY <1>0, <1>1, <2>1 DEF AuditInv, RowsInTheirMonth, EventsAccountedFor
  <2> QED BY <2>2, <2>3, <2>4 DEF AuditInv
<1> QED BY <1>3, <1>4, <1>5

LEMMA WriterInv == ASSUME AuditInv, WriterTakes PROVE AuditInv'
<1> DEFINE e == Head(queue)
<1>0. /\ accepted \in Nat /\ drops \in Nat /\ gone \in Nat /\ insertsFailed \in Nat
      /\ queue \in Seq(Nat) /\ Len(queue) \in Nat /\ Len(queue) <= QueueSize /\ QueueSize \in Nat
      /\ Cardinality(logged) \in Nat /\ DOMAIN queue = 1..Len(queue)
  BY AuditAssumption, FS_CardinalityType DEF AuditInv, AuditTypeOK
<1>1. queue # <<>> /\ DoWrite(e) /\ queue' = Tail(queue) /\ UNCHANGED <<day, swept, running, partitions, drops, accepted, gone>>
  BY DEF WriterTakes
<1>2. /\ e \in Nat /\ e = queue[1] /\ 1 \in DOMAIN queue
      /\ queue' \in Seq(Nat) /\ Len(queue') = Len(queue) - 1 /\ DOMAIN queue' = 1..(Len(queue) - 1)
      /\ \A i \in DOMAIN queue' : queue'[i] = queue[i + 1] /\ i + 1 \in DOMAIN queue
  BY <1>0, <1>1, HeadTailProperties, EmptySeq
<1>3. \A x \in logged : x.event < e
  BY <1>2 DEF AuditInv, EventsInOrder
<1>4. /\ logged' \subseteq LogRow /\ IsFiniteSet(logged') /\ insertsFailed' \in Nat
      /\ Cardinality(logged') + insertsFailed' = Cardinality(logged) + insertsFailed + 1
      /\ \A x \in logged' : x.event <= e /\ x.day <= day
      /\ \A x \in logged' : x.in # Default => InMonth(x.day, x.in)
      /\ \A x, y \in logged' : x.event < y.event => x.day <= y.day
  BY <1>1, <1>2, <1>3, DoWriteRow
<1>5. AuditTypeOK'
  BY <1>0, <1>1, <1>2, <1>4 DEF AuditInv, AuditTypeOK
<1>6. EventsInOrder'
  <2>1. \A x \in logged' : x.event \in Nat
    BY <1>4 DEF LogRow
  <2>2. \A i \in DOMAIN queue : queue[i] \in Nat /\ queue[i] <= accepted
    BY <1>0, ElementOfSeq DEF AuditInv, EventsInOrder
  <2>3. \A i \in DOMAIN queue' : e < queue'[i] /\ queue'[i] <= accepted'
    <3> TAKE i \in DOMAIN queue'
    <3>1. queue'[i] = queue[i + 1] /\ i + 1 \in DOMAIN queue /\ 1 \in DOMAIN queue /\ 1 < i + 1
      BY <1>0, <1>2
    <3>2. queue[1] < queue[i + 1]
      BY <3>1 DEF AuditInv, EventsInOrder
    <3> QED BY <1>1, <1>2, <2>2, <3>1, <3>2
  <2>4. \A x \in logged' : x.event <= accepted' /\ x.day <= day'
    BY <1>0, <1>1, <1>2, <1>4, <2>1, <2>2
  <2>5. \A x \in logged', i \in DOMAIN queue' : x.event < queue'[i]
    BY <1>2, <1>4, <2>1, <2>2, <2>3
  <2>6. \A i, j \in DOMAIN queue' : i < j => queue'[i] < queue'[j]
    BY <1>0, <1>2 DEF AuditInv, EventsInOrder
  <2> QED BY <2>3, <2>4, <2>5, <2>6 DEF EventsInOrder
<1>7. RowsInTheirMonth'
  BY <1>4 DEF RowsInTheirMonth
<1>8. Cardinality(logged') \in Nat
  BY <1>4, FS_CardinalityType
<1>9. Cardinality(logged') + Len(queue') + drops' + insertsFailed' + gone' = accepted'
  <2>1. Cardinality(logged) + Len(queue) + drops + insertsFailed + gone = accepted
    BY DEF AuditInv, EventsAccountedFor
  <2>2. UNCHANGED <<drops, gone, accepted>> /\ Len(queue') = Len(queue) - 1
    BY <1>1, <1>2
  <2>3. insertsFailed' \in Nat /\ Cardinality(logged') + insertsFailed' = Cardinality(logged) + insertsFailed + 1
    BY <1>4
  <2>4. drops' = drops /\ gone' = gone /\ accepted' = accepted
    BY <2>2
  <2>5. /\ Cardinality(logged) \in Nat /\ Cardinality(logged') \in Nat /\ Len(queue) \in Nat
        /\ drops \in Nat /\ insertsFailed \in Nat /\ insertsFailed' \in Nat /\ gone \in Nat
    BY <1>0, <1>8, <2>3
  <2>6. Cardinality(logged') + (Len(queue) - 1) + drops + insertsFailed' + gone
          = Cardinality(logged) + Len(queue) + drops + insertsFailed + gone
    BY <2>3, <2>5, SMTT(60)
  <2> QED BY <2>1, <2>2, <2>4, <2>6
<1>10. EventsAccountedFor'
  BY <1>4, <1>9 DEF EventsAccountedFor
<1> QED BY <1>5, <1>6, <1>7, <1>10 DEF AuditInv

\* What a sweep drops is of an expired month, whose last day is before the cutoff.
LEMMA SweepDropsExpired ==
  ASSUME AuditInv, NEW n \in 0..3, NEW kept, EnsurePartitions(n, kept)
  PROVE  /\ partitions' \subseteq Months /\ logged' \subseteq logged
         /\ \A x \in logged \ logged' : x.day < day - RetentionDays
<1> DEFINE after == partitions \cup Made(n)
           whole == n = 3 /\ Refused = {}
           old == IF whole THEN Expired(after) \ kept ELSE {}
<1>1. after \subseteq Months
  <2>1. \A i \in 0..2 : i \notin Refused => ToCreate[i] \in Months
    BY DEF Refused, Creatable
  <2>2. \A i \in 0..2 : (\A k \in Refused : i < k) => i \notin Refused
    OBVIOUS
  <2>3. Made(n) \subseteq Months
    BY <2>1, <2>2 DEF Made
  <2> QED BY <2>3 DEF AuditInv, AuditTypeOK
<1>2. old \subseteq Expired(Months) /\ partitions' = after \ old /\ logged' = {x \in logged : x.in \notin old}
  BY <1>1 DEF EnsurePartitions, Expired
<1> HIDE DEF after, old
<1>3. ASSUME NEW x \in logged \ logged' PROVE x.day < day - RetentionDays
  <2>1. x.in \in Expired(Months)
    BY <1>2, <1>3
  <2>2. x.in \in Months /\ x.in # Default /\ DaysBefore[x.in] + MonthLengths[x.in] + 1 < day - RetentionDays
    BY <2>1, AuditAssumption DEF Expired, Months, Default
  <2>3. x.day <= DaysBefore[x.in] + MonthLengths[x.in]
    BY <2>2 DEF AuditInv, RowsInTheirMonth, InMonth
  <2>4. x.day \in Nat /\ day \in Nat /\ RetentionDays \in Nat /\ DaysBefore[x.in] \in Nat /\ MonthLengths[x.in] \in Nat
    BY <2>2, AuditAssumption, DaysBeforeSteps DEF AuditInv, AuditTypeOK, LogRow
  <2> QED BY <2>2, <2>3, <2>4
<1> QED BY <1>1, <1>2, <1>3

LEMMA SweepInv ==
  ASSUME AuditInv, Sweep
  PROVE  AuditInv' /\ \A x \in logged \ logged' : x.day < day - RetentionDays
<1>1. partitions' \subseteq Months /\ logged' \subseteq logged /\ \A x \in logged \ logged' : x.day < day - RetentionDays
  BY SweepDropsExpired DEF Sweep, AuditInv, AuditTypeOK
<1>2. /\ UNCHANGED <<day, running, queue, drops, insertsFailed, accepted>> /\ swept' = day
      /\ gone' = gone + Cardinality(logged) - Cardinality(logged')
  BY DEF Sweep
<1>3. IsFiniteSet(logged') /\ Cardinality(logged') \in Nat /\ Cardinality(logged) \in Nat /\ Cardinality(logged') <= Cardinality(logged)
  BY <1>1, FS_Subset, FS_CardinalityType DEF AuditInv, AuditTypeOK
<1>4. gone' \in Nat
  BY <1>2, <1>3 DEF AuditInv, AuditTypeOK
<1>5. AuditTypeOK'
  BY <1>1, <1>2, <1>3, <1>4, AuditAssumption DEF AuditInv, AuditTypeOK
<1>6. EventsInOrder' /\ RowsInTheirMonth'
  BY <1>1, <1>2 DEF AuditInv, EventsInOrder, RowsInTheirMonth
<1>7. EventsAccountedFor'
  <2>1. Cardinality(logged') + Len(queue') + drops' + insertsFailed' + gone' = accepted'
    BY <1>2, <1>3, LenProperties DEF AuditInv, AuditTypeOK, EventsAccountedFor
  <2> QED BY <1>1, <2>1 DEF AuditInv, EventsAccountedFor
<1> QED BY <1>1, <1>5, <1>6, <1>7 DEF AuditInv

LEMMA StopInv == ASSUME AuditInv, Stop PROVE AuditInv'
<1>1. /\ queue' = <<>> /\ running' = FALSE /\ gone' = gone + Len(queue)
      /\ UNCHANGED <<day, swept, partitions, logged, drops, insertsFailed, accepted>>
  BY DEF Stop
<1>2. queue' \in Seq(Nat) /\ Len(queue') = 0 /\ DOMAIN queue' = {} /\ Len(queue) \in Nat /\ Cardinality(logged) \in Nat
  BY <1>1, EmptySeq, LenProperties, FS_CardinalityType DEF AuditInv, AuditTypeOK
<1>3. AuditTypeOK'
  <2>1. gone' \in Nat /\ Len(queue') <= QueueSize
    BY <1>1, <1>2, AuditAssumption DEF AuditInv, AuditTypeOK
  <2>2. running' \in BOOLEAN
    BY <1>1
  <2> QED BY <1>1, <1>2, <2>1, <2>2 DEF AuditInv, AuditTypeOK
<1>4. EventsInOrder' /\ RowsInTheirMonth'
  BY <1>1, <1>2 DEF AuditInv, EventsInOrder, RowsInTheirMonth
<1>5. EventsAccountedFor'
  BY <1>1, <1>2 DEF AuditInv, AuditTypeOK, EventsAccountedFor
<1> QED BY <1>3, <1>4, <1>5 DEF AuditInv

LEMMA ClockInv == ASSUME AuditInv, NextDay \/ Restart PROVE AuditInv'
<1>1. UNCHANGED <<partitions, logged, queue, drops, insertsFailed, accepted, gone>> /\ day' \in {day, day + 1} /\ day' <= MaxDay
      /\ swept' \in {swept, 0} /\ running' \in {running, TRUE}
  <2>1. day \in Nat /\ day <= MaxDay /\ MaxDay \in Nat
    BY AuditAssumption DEF AuditInv, AuditTypeOK
  <2>2. CASE NextDay
    BY <2>1, <2>2 DEF NextDay
  <2>3. CASE Restart
    BY <2>1, <2>3 DEF Restart
  <2> QED BY <2>2, <2>3
<1>2. AuditTypeOK'
  <2>1. running' \in BOOLEAN
    BY <1>1, Zenon DEF AuditInv, AuditTypeOK
  <2>2. day' \in 1..MaxDay /\ swept' \in Nat
    BY <1>1, AuditAssumption DEF AuditInv, AuditTypeOK
  <2> QED BY <1>1, <2>1, <2>2 DEF AuditInv, AuditTypeOK
<1>3. \A x \in logged' : x.day <= day'
  BY <1>1, AuditAssumption DEF AuditInv, AuditTypeOK, EventsInOrder, LogRow
<1>4. EventsInOrder' /\ RowsInTheirMonth' /\ EventsAccountedFor'
  BY <1>1, <1>3 DEF AuditInv, EventsInOrder, RowsInTheirMonth, EventsAccountedFor
<1> QED BY <1>2, <1>4 DEF AuditInv

\* The same day of a later month is in that month, if the month has such a day.
LEMMA SweepCovers == ASSUME AuditInv PROVE CoversMonths
<1> DEFINE m == MonthOf(day)
<1>1. day \in 1..MaxDay /\ day \in Nat /\ Len(MonthLengths) \in Nat
  BY AuditAssumption DEF AuditInv, AuditTypeOK
<1>2. m \in Months /\ m + 2 \in Months /\ InMonth(day, m)
  BY <1>1, DayHasMonth
<1> HIDE DEF m
<1>3. ASSUME NEW i \in 0..2, day - DaysBefore[m] <= MonthLengths[m + i]
      PROVE  ToCreate[i] = m + i
  <2>1. m + i \in Months
    BY <1>1, <1>2 DEF Months
  <2>2. DaysBefore[m] \in Nat /\ DaysBefore[m + i] \in Nat /\ MonthLengths[m + i] \in Nat
    BY <1>2, <2>1, DaysBeforeSteps
  <2> DEFINE d == DaysBefore[m + i] + (day - DaysBefore[m])
  <2>3. d \in Nat /\ InMonth(d, m + i)
    BY <1>1, <1>2, <1>3, <2>2 DEF InMonth
  <2>4. ToCreate[i] = MonthOf(d)
    BY DEF ToCreate, AddMonths, m
  <2> HIDE DEF d
  <2> QED BY <2>1, <2>3, <2>4, OneMonth
<1>4. SUFFICES ASSUME \A i \in 0..2 : ToCreate[i] \in partitions'
               PROVE  \A i \in 0..2 : day - DaysBefore[m] <= MonthLengths[m + i] => m + i \in partitions'
  BY DEF CoversMonths, m
<1> QED BY <1>3, <1>4

\* AuditTrail: whatever the order of requests, the writer, restarts and sweeps
\* (Write, startWriter, EnsurePartitions), every event is accounted for, a sweep drops
\* no row within the retention, and it covers the months it means to, for every
\* calendar, queue size and retention.
THEOREM AuditTrailKept == AuditSpec => AuditTrail
<1> DEFINE Step == /\ EventsAccountedFor'
                   /\ \A x \in logged \ logged' : x.day < day - RetentionDays
                   /\ swept' # swept => CoversMonths
<1>1. AuditInv /\ [AuditNext]_auditVars => AuditInv'
  <2> SUFFICES ASSUME AuditInv, [AuditNext]_auditVars PROVE AuditInv'
    OBVIOUS
  <2>1. CASE UNCHANGED auditVars
    BY <2>1 DEF auditVars, AuditInv, AuditTypeOK, EventsInOrder, RowsInTheirMonth, EventsAccountedFor
  <2> QED BY <2>1, SweepInv, ClockInv, WriteInv, WriterInv, StopInv DEF AuditNext
<1>2. AuditInv /\ AuditInv' /\ [AuditNext]_auditVars => [Step]_auditVars
  <2> SUFFICES ASSUME AuditInv, AuditInv', AuditNext PROVE Step
    BY DEF auditVars
  <2>1. EventsAccountedFor'
    BY DEF AuditInv
  <2>2. \A x \in logged \ logged' : x.day < day - RetentionDays
    <3>1. CASE Sweep
      BY <3>1, SweepInv
    <3>2. CASE NextDay \/ Write \/ WriterTakes \/ Stop \/ Restart
      BY <3>2 DEF NextDay, Write, WriterTakes, Stop, Restart, DoWrite
    <3> QED BY <3>1, <3>2 DEF AuditNext
  <2> QED BY <2>1, <2>2, SweepCovers
<1>3. AuditSpec => [][Step]_auditVars
  BY <1>1, <1>2, AuditInitInv, PTL DEF AuditSpec
<1> QED BY <1>3 DEF AuditTrail

------------------------------------------------------------------------------
(* The usage counters.                                                     *)

Counters == {"msgs", "rules"}
UsagePoint == [hour : 1..MaxHour, msgs : Nat, rules : Nat]

UsageTypeOK ==
  /\ hour \in 1..MaxHour /\ msgSeq \in 0..MaxSeq /\ ruleSeq \in 0..MaxSeq /\ ruleSeq <= msgSeq
  /\ baseline \in [primed : BOOLEAN, hour : 0..MaxHour, msg : 0..MaxSeq, rule : 0..MaxSeq]
  /\ snapshot \in [pc : {"rest", "stream", "consumer"}, tenants : SUBSET UsageTenants, hour : 0..MaxHour, msg : 0..MaxSeq]
  /\ point \in [UsageTenants -> UsagePoint \cup {NotMeasured}]
  /\ states \subseteq UsageTenants
  /\ appended \in [1..MaxHour -> [Counters -> Nat]]

\* What a snapshot or the baseline says of an hour was read in that hour or later.
HoursBegun ==
  /\ baseline.primed => baseline.hour \in 1..hour
  /\ snapshot.pc # "rest" => snapshot.hour \in 1..hour

\* The sequences are ahead of what was read of them by no more than what arrived since
\* the hour it was read for.
Arrivals ==
  /\ baseline.primed =>
       /\ msgSeq <= baseline.msg + Since("msgs")[baseline.hour]
       /\ ruleSeq <= baseline.rule + Since("rules")[baseline.hour]
  /\ snapshot.pc = "consumer" => msgSeq <= snapshot.msg + Since("msgs")[snapshot.hour]
  /\ snapshot.pc = "consumer" /\ baseline.primed /\ baseline.hour = snapshot.hour =>
       snapshot.msg <= baseline.msg + Since("msgs")[baseline.hour]

UsageInv == UsageTypeOK /\ HoursBegun /\ Arrivals /\ UsageIsMeasured

\* f[h] is the sum of column c of a from h on.
Sums(f, a, c) == f = [h \in 1..MaxHour |-> a[h][c] + IF h = MaxHour THEN 0 ELSE f[h + 1]]

LEMMA SumsExist == ASSUME NEW a, NEW c PROVE \E f : Sums(f, a, c)
<1> DEFINE Part(f, k) == f = [h \in (MaxHour - k + 1)..MaxHour |-> a[h][c] + IF h = MaxHour THEN 0 ELSE f[h + 1]]
           S == {k \in Nat : k <= MaxHour => \E f : Part(f, k)}
<1>0. MaxHour \in Nat
  BY UsageAssumption
<1>1. 0 \in S
  <2>1. (MaxHour - 0 + 1)..MaxHour = {}
    BY <1>0
  <2>2. Part([h \in {} |-> 0], 0)
    BY <2>1
  <2> QED BY <2>2
<1>2. ASSUME NEW k \in Nat, k \in S PROVE k + 1 \in S
  <2>1. SUFFICES ASSUME k + 1 <= MaxHour PROVE \E f : Part(f, k + 1)
    OBVIOUS
  <2>2. PICK f : Part(f, k)
    BY <1>0, <1>2, <2>1
  <2> DEFINE g == [h \in (MaxHour - (k + 1) + 1)..MaxHour |-> a[h][c] + IF h = MaxHour THEN 0 ELSE f[h + 1]]
  <2>3. ASSUME NEW h \in (MaxHour - k + 1)..MaxHour PROVE g[h] = f[h]
    <3>1. h \in (MaxHour - (k + 1) + 1)..MaxHour
      BY <1>0, <2>1
    <3>2. g[h] = a[h][c] + IF h = MaxHour THEN 0 ELSE f[h + 1]
      BY <3>1
    <3>3. f[h] = a[h][c] + IF h = MaxHour THEN 0 ELSE f[h + 1]
      BY <2>2
    <3> QED BY <3>2, <3>3
  <2>4. \A h \in (MaxHour - (k + 1) + 1)..MaxHour : h # MaxHour => h + 1 \in (MaxHour - k + 1)..MaxHour
    BY <1>0, <2>1
  <2>5. g = [h \in (MaxHour - (k + 1) + 1)..MaxHour |-> a[h][c] + IF h = MaxHour THEN 0 ELSE g[h + 1]]
    BY <2>3, <2>4
  <2>6. Part(g, k + 1)
    BY <2>5
  <2> HIDE DEF g, Part
  <2> QED BY <2>6
<1>3. Nat \subseteq S
  <2> HIDE DEF S
  <2> QED BY <1>1, <1>2, NatSetInduction
<1>4. MaxHour \in S /\ (MaxHour - MaxHour + 1)..MaxHour = 1..MaxHour
  BY <1>0, <1>3
<1> QED BY <1>4 DEF Sums

LEMMA SumsAreNat ==
  ASSUME NEW a \in [1..MaxHour -> [Counters -> Nat]], NEW c \in Counters, NEW f, Sums(f, a, c)
  PROVE  f \in [1..MaxHour -> Nat]
<1> DEFINE S == {k \in Nat : k < MaxHour => f[MaxHour - k] \in Nat}
<1>0. MaxHour \in Nat \ {0} /\ \A h \in 1..MaxHour : f[h] = a[h][c] + IF h = MaxHour THEN 0 ELSE f[h + 1]
  BY UsageAssumption DEF Sums
<1>1. 0 \in S
  BY <1>0
<1>2. ASSUME NEW k \in Nat, k \in S PROVE k + 1 \in S
  <2>1. SUFFICES ASSUME k + 1 < MaxHour PROVE f[MaxHour - (k + 1)] \in Nat
    OBVIOUS
  <2>2. MaxHour - (k + 1) \in 1..MaxHour /\ MaxHour - (k + 1) # MaxHour /\ MaxHour - (k + 1) + 1 = MaxHour - k
    BY <1>0, <2>1
  <2>3. f[MaxHour - k] \in Nat
    BY <1>0, <1>2, <2>1
  <2> QED BY <1>0, <2>2, <2>3
<1>3. Nat \subseteq S
  <2> HIDE DEF S
  <2> QED BY <1>1, <1>2, NatSetInduction
<1>4. \A h \in 1..MaxHour : f[h] \in Nat
  <2> TAKE h \in 1..MaxHour
  <2>1. MaxHour - h \in Nat /\ MaxHour - h < MaxHour /\ MaxHour - (MaxHour - h) = h
    BY <1>0
  <2> QED BY <1>3, <2>1
<1> QED BY <1>4 DEF Sums

\* b is a with n more in hour k.
Adds(a, b, c, k, n) == \A h \in 1..MaxHour : b[h][c] = IF h = k THEN a[h][c] + n ELSE a[h][c]

Raised(f, g, k, n) == \A h \in 1..MaxHour : g[h] = IF h <= k THEN f[h] + n ELSE f[h]

\* More of hour k is more since every hour up to k.
LEMMA SumsGrow ==
  ASSUME NEW a \in [1..MaxHour -> [Counters -> Nat]], NEW b \in [1..MaxHour -> [Counters -> Nat]],
         NEW c \in Counters, NEW f, NEW g, Sums(f, a, c), Sums(g, b, c), NEW k \in 1..MaxHour, NEW n \in Nat,
         Adds(a, b, c, k, n)
  PROVE  Raised(f, g, k, n)
<1> DEFINE P(h) == g[h] = IF h <= k THEN f[h] + n ELSE f[h]
           S == {j \in Nat : j < MaxHour => P(MaxHour - j)}
<1>0. /\ MaxHour \in Nat \ {0}
      /\ \A h \in 1..MaxHour : f[h] = a[h][c] + IF h = MaxHour THEN 0 ELSE f[h + 1]
      /\ \A h \in 1..MaxHour : g[h] = b[h][c] + IF h = MaxHour THEN 0 ELSE g[h + 1]
      /\ \A h \in 1..MaxHour : f[h] \in Nat /\ g[h] \in Nat /\ a[h][c] \in Nat
  <2>1. f \in [1..MaxHour -> Nat] /\ g \in [1..MaxHour -> Nat]
    BY SumsAreNat
  <2> QED BY <2>1, UsageAssumption DEF Sums
<1> USE DEF Adds
<1>1. 0 \in S
  BY <1>0
<1>2. ASSUME NEW j \in Nat, j \in S PROVE j + 1 \in S
  <2>1. SUFFICES ASSUME j + 1 < MaxHour PROVE P(MaxHour - (j + 1))
    OBVIOUS
  <2> DEFINE h == MaxHour - (j + 1)
  <2>2. h \in 1..MaxHour /\ h + 1 \in 1..MaxHour /\ h # MaxHour /\ h + 1 = MaxHour - j
    BY <1>0, <2>1
  <2>3. P(h + 1)
    BY <1>0, <1>2, <2>1, <2>2
  <2> HIDE DEF h
  <2>4. f[h] = a[h][c] + f[h + 1] /\ g[h] = b[h][c] + g[h + 1]
    BY <1>0, <2>2
  <2>5. P(h)
    BY <1>0, <2>2, <2>3, <2>4
  <2> QED BY <2>5 DEF h
<1>3. Nat \subseteq S
  <2> HIDE DEF S
  <2> QED BY <1>1, <1>2, NatSetInduction
<1> SUFFICES ASSUME NEW h \in 1..MaxHour PROVE P(h)
  BY DEF Raised
<1>4. MaxHour - h \in Nat /\ MaxHour - h < MaxHour /\ MaxHour - (MaxHour - h) = h
  BY <1>0
<1>5. P(MaxHour - (MaxHour - h))
  BY <1>3, <1>4
<1> QED BY <1>4, <1>5

LEMMA SinceSums == ASSUME NEW c PROVE Sums(Since(c), appended, c)
<1>1. \E f : Sums(f, appended, c)
  BY SumsExist
<1> QED BY <1>1 DEF Since, Sums

LEMMA SinceSumsNext == ASSUME NEW c PROVE Sums(Since(c)', appended', c)
<1>1. \E f : Sums(f, appended', c)
  BY SumsExist
<1> QED BY <1>1 DEF Since, Sums

LEMMA SinceNat ==
  ASSUME UsageTypeOK, NEW c \in Counters
  PROVE  Since(c) \in [1..MaxHour -> Nat]
<1>1. appended \in [1..MaxHour -> [Counters -> Nat]]
  BY DEF UsageTypeOK
<1> QED BY <1>1, SinceSums, SumsAreNat

LEMMA AppendedType ==
  ASSUME UsageTypeOK, NEW c \in Counters, appended' = Append1(c, hour)
  PROVE  /\ appended' \in [1..MaxHour -> [Counters -> Nat]]
         /\ \A d \in Counters, h \in 1..MaxHour :
              appended'[h][d] = IF d = c /\ h = hour THEN appended[h][d] + 1 ELSE appended[h][d]
BY DEF UsageTypeOK, Append1

\* An arrival counts since every hour begun.
LEMMA SinceArrived ==
  ASSUME UsageTypeOK, NEW c \in Counters, appended' = Append1(c, hour), NEW d \in Counters, NEW h \in 1..MaxHour
  PROVE  Since(d)'[h] = IF d = c /\ h <= hour THEN Since(d)[h] + 1 ELSE Since(d)[h]
<1> DEFINE n == IF d = c THEN 1 ELSE 0
<1>1. /\ appended \in [1..MaxHour -> [Counters -> Nat]] /\ appended' \in [1..MaxHour -> [Counters -> Nat]]
      /\ hour \in 1..MaxHour
  BY AppendedType DEF UsageTypeOK
<1>2. Sums(Since(d), appended, d) /\ Sums(Since(d)', appended', d)
  BY SinceSums, SinceSumsNext
<1>3. \A k \in 1..MaxHour : appended'[k][d] = IF k = hour THEN appended[k][d] + n ELSE appended[k][d]
  BY <1>1, AppendedType
<1>4. n \in Nat
  OBVIOUS
<1> DEFINE f == Since(d)
           g == Since(d)'
           a == appended
           b == appended'
<1> HIDE DEF n, f, g, a, b
<1>5. \A k \in 1..MaxHour : Since(d)'[k] = IF k <= hour THEN Since(d)[k] + n ELSE Since(d)[k]
  <2>1. /\ a \in [1..MaxHour -> [Counters -> Nat]] /\ b \in [1..MaxHour -> [Counters -> Nat]]
        /\ Sums(f, a, d) /\ Sums(g, b, d)
        /\ Adds(a, b, d, hour, n)
    BY <1>1, <1>2, <1>3 DEF a, b, f, g, Adds
  <2>2. Raised(f, g, hour, n)
    BY <1>1, <1>4, <2>1, SumsGrow
  <2> QED BY <2>2 DEF f, g, Raised
<1>6. Since(d)[h] \in Nat
  BY SinceNat
<1> QED BY <1>5, <1>6 DEF n

LEMMA SinceKept == ASSUME UNCHANGED appended, NEW c PROVE Since(c)' = Since(c)
BY DEF Since

------------------------------------------------------------------------------
LEMMA UsageInitInv == UsageInit => UsageInv
<1> SUFFICES ASSUME UsageInit PROVE UsageInv
  OBVIOUS
<1>1. UsageTypeOK
  <2>1. appended \in [1..MaxHour -> [Counters -> Nat]]
    BY DEF UsageInit, Counters
  <2>2. hour \in 1..MaxHour /\ msgSeq \in 0..MaxSeq /\ ruleSeq \in 0..MaxSeq /\ ruleSeq <= msgSeq
    BY UsageAssumption DEF UsageInit
  <2>3. baseline \in [primed : BOOLEAN, hour : 0..MaxHour, msg : 0..MaxSeq, rule : 0..MaxSeq]
    BY UsageAssumption DEF UsageInit, Unprimed
  <2>4. snapshot \in [pc : {"rest", "stream", "consumer"}, tenants : SUBSET UsageTenants, hour : 0..MaxHour, msg : 0..MaxSeq]
    BY UsageAssumption DEF UsageInit, Resting
  <2>5. point \in [UsageTenants -> UsagePoint \cup {NotMeasured}] /\ states \subseteq UsageTenants
    BY DEF UsageInit
  <2> QED BY <2>1, <2>2, <2>3, <2>4, <2>5 DEF UsageTypeOK
<1>2. HoursBegun /\ Arrivals /\ UsageIsMeasured
  BY DEF UsageInit, Unprimed, Resting, HoursBegun, Arrivals, UsageIsMeasured
<1> QED BY <1>1, <1>2 DEF UsageInv

\* What was published stays within what has arrived, of which there is ever more.
LEMMA PublishedStays ==
  ASSUME UsageInv, UNCHANGED point,
         \A c \in Counters, h \in 1..MaxHour : Since(c)'[h] \in Nat /\ Since(c)[h] <= Since(c)'[h]
  PROVE  UsageIsMeasured'
<1> SUFFICES ASSUME NEW t \in UsageTenants, point[t] # NotMeasured
             PROVE  point[t].msgs <= Since("msgs")'[point[t].hour] /\ point[t].rules <= Since("rules")'[point[t].hour]
  BY DEF UsageIsMeasured
<1>1. point[t].hour \in 1..MaxHour /\ point[t].msgs \in Nat /\ point[t].rules \in Nat
  BY DEF UsageInv, UsageTypeOK, UsagePoint
<1>2. "msgs" \in Counters /\ "rules" \in Counters
  BY DEF Counters
<1>3. Since("msgs")[point[t].hour] \in Nat /\ Since("rules")[point[t].hour] \in Nat
  BY <1>1, <1>2, SinceNat DEF UsageInv
<1> QED BY <1>1, <1>2, <1>3 DEF UsageInv, UsageIsMeasured

LEMMA ArrivesInv ==
  ASSUME UsageInv, NEW c \in Counters, appended' = Append1(c, hour),
         msgSeq' = IF c = "msgs" THEN msgSeq + 1 ELSE msgSeq,
         ruleSeq' = IF c = "rules" THEN ruleSeq + 1 ELSE ruleSeq,
         msgSeq' <= MaxSeq, ruleSeq' <= msgSeq',
         UNCHANGED <<hour, baseline, snapshot, snapshots, point, states, faults>>
  PROVE  UsageInv'
<1>0. /\ hour \in 1..MaxHour /\ msgSeq \in 0..MaxSeq /\ ruleSeq \in 0..MaxSeq /\ MaxSeq \in Nat /\ MaxHour \in Nat
      /\ baseline.msg \in 0..MaxSeq /\ baseline.rule \in 0..MaxSeq /\ snapshot.msg \in 0..MaxSeq
      /\ "msgs" \in Counters /\ "rules" \in Counters /\ "msgs" # "rules"
  BY UsageAssumption DEF UsageInv, UsageTypeOK, Counters
<1>1. \A d \in Counters, h \in 1..MaxHour :
         Since(d)[h] \in Nat /\ Since(d)'[h] = IF d = c /\ h <= hour THEN Since(d)[h] + 1 ELSE Since(d)[h]
  BY SinceArrived, SinceNat DEF UsageInv
<1>2. UsageTypeOK'
  <2>1. appended' \in [1..MaxHour -> [Counters -> Nat]]
    BY AppendedType DEF UsageInv
  <2>2. msgSeq' \in 0..MaxSeq /\ ruleSeq' \in 0..MaxSeq
    BY <1>0
  <2> QED BY <2>1, <2>2 DEF UsageInv, UsageTypeOK
<1>3. HoursBegun'
  BY DEF UsageInv, HoursBegun
<1>4. Arrivals'
  <2>1. ASSUME baseline.primed
        PROVE  /\ msgSeq' <= baseline.msg + Since("msgs")'[baseline.hour]
               /\ ruleSeq' <= baseline.rule + Since("rules")'[baseline.hour]
    <3>1. baseline.hour \in 1..MaxHour /\ baseline.hour <= hour
      BY <1>0, <2>1 DEF UsageInv, HoursBegun
    <3>2. /\ Since("msgs")[baseline.hour] \in Nat /\ Since("rules")[baseline.hour] \in Nat
          /\ Since("msgs")'[baseline.hour] = IF c = "msgs" THEN Since("msgs")[baseline.hour] + 1 ELSE Since("msgs")[baseline.hour]
          /\ Since("rules")'[baseline.hour] = IF c = "rules" THEN Since("rules")[baseline.hour] + 1 ELSE Since("rules")[baseline.hour]
      BY <1>0, <1>1, <3>1
    <3>3. msgSeq <= baseline.msg + Since("msgs")[baseline.hour] /\ ruleSeq <= baseline.rule + Since("rules")[baseline.hour]
      BY <2>1 DEF UsageInv, Arrivals
    <3> QED BY <1>0, <3>2, <3>3
  <2>2. ASSUME snapshot.pc = "consumer"
        PROVE  msgSeq' <= snapshot.msg + Since("msgs")'[snapshot.hour]
    <3>1. snapshot.hour \in 1..MaxHour /\ snapshot.hour <= hour
      BY <1>0, <2>2 DEF UsageInv, HoursBegun
    <3>2. /\ Since("msgs")[snapshot.hour] \in Nat
          /\ Since("msgs")'[snapshot.hour] = IF c = "msgs" THEN Since("msgs")[snapshot.hour] + 1 ELSE Since("msgs")[snapshot.hour]
      BY <1>0, <1>1, <3>1
    <3>3. msgSeq <= snapshot.msg + Since("msgs")[snapshot.hour]
      BY <2>2 DEF UsageInv, Arrivals
    <3> QED BY <1>0, <3>2, <3>3
  <2>3. ASSUME snapshot.pc = "consumer", baseline.primed, baseline.hour = snapshot.hour
        PROVE  snapshot.msg <= baseline.msg + Since("msgs")'[baseline.hour]
    <3>1. baseline.hour \in 1..MaxHour /\ baseline.hour <= hour
      BY <1>0, <2>3 DEF UsageInv, HoursBegun
    <3>2. Since("msgs")[baseline.hour] \in Nat /\ Since("msgs")'[baseline.hour] >= Since("msgs")[baseline.hour] /\ Since("msgs")'[baseline.hour] \in Nat
      BY <1>0, <1>1, <3>1
    <3>3. snapshot.msg <= baseline.msg + Since("msgs")[baseline.hour]
      BY <2>3 DEF UsageInv, Arrivals
    <3> QED BY <1>0, <3>2, <3>3
  <2> QED BY <2>1, <2>2, <2>3 DEF Arrivals
<1>5. UsageIsMeasured'
  <2>1. \A d \in Counters, h \in 1..MaxHour : Since(d)'[h] \in Nat /\ Since(d)[h] <= Since(d)'[h]
    BY <1>1
  <2> QED BY <2>1, PublishedStays
<1> QED BY <1>2, <1>3, <1>4, <1>5 DEF UsageInv

\* A difference that does not wrap: sequences stay below 2^Width.
LEMMA MinusIsDifference ==
  ASSUME NEW x \in 0..MaxSeq, NEW y \in 0..MaxSeq, y <= x
  PROVE  Minus(x, y) = x - y
<1> DEFINE w == 2^Width
<1>1. w \in Nat /\ MaxSeq \in Nat /\ x - y \in Nat /\ x - y < w
  BY UsageAssumption
<1>2. Minus(x, y) = (x + w - y) % w
  BY DEF Minus
<1> HIDE DEF w
<1>3. x + w - y = (x - y) + w
  BY <1>1
<1>4. ((x - y) + w) % w = x - y
  <2> DEFINE z == x - y
  <2>1. z \in Nat /\ z < w
    BY <1>1
  <2> HIDE DEF z
  <2>2. (z + w) % w = z
    BY <1>1, <2>1
  <2> QED BY <2>2 DEF z
<1> QED BY <1>2, <1>3, <1>4

\* The snapshot goes on to the next tenant or ends.
LEMMA OnwardType ==
  ASSUME UsageTypeOK, NEW t, Onward(t)
  PROVE  /\ snapshot' \in [pc : {"rest", "stream", "consumer"}, tenants : SUBSET UsageTenants, hour : 0..MaxHour, msg : 0..MaxSeq]
         /\ snapshot'.pc # "consumer"
         /\ snapshot'.pc # "rest" => snapshot'.hour = hour
<1> DEFINE left == snapshot.tenants \ {t}
<1>1. left \in SUBSET UsageTenants /\ hour \in 0..MaxHour /\ 0 \in 0..MaxSeq /\ 0 \in 0..MaxHour
  BY UsageAssumption DEF UsageTypeOK
<1>2. snapshot' = IF left = {} THEN Resting ELSE [pc |-> "stream", tenants |-> left, hour |-> hour, msg |-> 0]
  BY DEF Onward
<1> HIDE DEF left
<1> QED BY <1>1, <1>2 DEF Resting

LEMMA SinceSame ==
  ASSUME UsageTypeOK, UNCHANGED appended
  PROVE  \A c \in Counters, h \in 1..MaxHour : Since(c)'[h] \in Nat /\ Since(c)[h] = Since(c)'[h] /\ Since(c)[h] <= Since(c)'[h]
<1> TAKE c \in Counters, h \in 1..MaxHour
<1>1. Since(c)' = Since(c)
  BY SinceKept
<1>2. Since(c)[h] \in Nat
  BY SinceNat
<1> QED BY <1>1, <1>2

LEMMA RecreatedInv == ASSUME UsageInv, Recreated PROVE UsageInv'
<1>0. /\ msgSeq' \in 0..MaxSeq /\ ruleSeq' \in 0..MaxSeq /\ ruleSeq' <= msgSeq' /\ msgSeq' <= msgSeq /\ ruleSeq' <= ruleSeq
      /\ UNCHANGED <<hour, baseline, snapshot, snapshots, point, states, appended>>
      /\ msgSeq \in 0..MaxSeq /\ ruleSeq \in 0..MaxSeq /\ baseline.msg \in 0..MaxSeq /\ baseline.rule \in 0..MaxSeq /\ snapshot.msg \in 0..MaxSeq
      /\ "msgs" \in Counters /\ "rules" \in Counters /\ hour \in 1..MaxHour /\ MaxHour \in Nat
  BY UsageAssumption DEF UsageInv, UsageTypeOK, Recreated, Counters
<1>1. UsageTypeOK'
  BY <1>0 DEF UsageInv, UsageTypeOK
<1>2. HoursBegun'
  BY <1>0 DEF UsageInv, HoursBegun
<1>3. Arrivals'
  <2>1. Since("msgs")' = Since("msgs") /\ Since("rules")' = Since("rules")
    BY <1>0, SinceKept
  <2>2. \A c \in Counters, h \in 1..MaxHour : Since(c)[h] \in Nat
    BY SinceNat DEF UsageInv
  <2>3. baseline.primed =>
          /\ msgSeq' <= baseline.msg + Since("msgs")[baseline.hour]
          /\ ruleSeq' <= baseline.rule + Since("rules")[baseline.hour]
    <3> SUFFICES ASSUME baseline.primed
                 PROVE  /\ msgSeq' <= baseline.msg + Since("msgs")[baseline.hour]
                        /\ ruleSeq' <= baseline.rule + Since("rules")[baseline.hour]
      OBVIOUS
    <3>1. baseline.hour \in 1..MaxHour
      BY <1>0 DEF UsageInv, HoursBegun
    <3>2. Since("msgs")[baseline.hour] \in Nat /\ Since("rules")[baseline.hour] \in Nat
      BY <1>0, <2>2, <3>1
    <3> QED BY <1>0, <3>2 DEF UsageInv, Arrivals
  <2>4. snapshot.pc = "consumer" => msgSeq' <= snapshot.msg + Since("msgs")[snapshot.hour]
    <3> SUFFICES ASSUME snapshot.pc = "consumer" PROVE msgSeq' <= snapshot.msg + Since("msgs")[snapshot.hour]
      OBVIOUS
    <3>1. snapshot.hour \in 1..MaxHour
      BY <1>0 DEF UsageInv, HoursBegun
    <3>2. Since("msgs")[snapshot.hour] \in Nat
      BY <1>0, <2>2, <3>1
    <3> QED BY <1>0, <3>2 DEF UsageInv, Arrivals
  <2> QED BY <1>0, <2>1, <2>3, <2>4 DEF UsageInv, Arrivals
<1>4. UsageIsMeasured'
  BY <1>0, SinceSame, PublishedStays DEF UsageInv
<1> QED BY <1>1, <1>2, <1>3, <1>4 DEF UsageInv

\* Neither the sequences nor what was read of them change, or there is less to say of them.
LEMMA QuietInv ==
  ASSUME UsageInv, NextHour \/ Reboot \/ WriteSnapshot \/ StreamLastSeq \/ \E t \in UsageTenants : NotMeasuredFor(t)
  PROVE  UsageInv'
<1>0. /\ "msgs" \in Counters /\ "rules" \in Counters /\ hour \in 1..MaxHour /\ MaxHour \in Nat
      /\ MaxSeq \in Nat /\ msgSeq \in 0..MaxSeq /\ ruleSeq \in 0..MaxSeq
      /\ UNCHANGED <<msgSeq, ruleSeq, appended>>
  BY UsageAssumption DEF UsageInv, UsageTypeOK, NextHour, Reboot, WriteSnapshot, StreamLastSeq, NotMeasuredFor, Counters
<1>1. Since("msgs")' = Since("msgs") /\ Since("rules")' = Since("rules")
  BY <1>0, SinceKept
<1>2. CASE NextHour
  <2>0. hour' \in 1..MaxHour /\ hour < hour' /\ UNCHANGED <<baseline, snapshot, point, states>>
    BY <1>0, <1>2 DEF NextHour
  <2>1. UsageTypeOK'
    BY <1>0, <2>0 DEF UsageInv, UsageTypeOK
  <2>2. HoursBegun'
    BY <1>0, <2>0 DEF UsageInv, HoursBegun
  <2>3. Arrivals'
    BY <1>0, <1>1, <2>0 DEF UsageInv, Arrivals
  <2>4. UsageIsMeasured'
    BY <1>1, <2>0 DEF UsageInv, UsageIsMeasured
  <2> QED BY <2>1, <2>2, <2>3, <2>4 DEF UsageInv
<1>3. CASE Reboot
  <2>0. baseline' = Unprimed /\ snapshot' = Resting /\ states' \subseteq UsageTenants /\ UNCHANGED <<hour, point>>
    BY <1>3 DEF Reboot, UsageInv, UsageTypeOK
  <2>1. UsageTypeOK'
    <3>1. baseline' \in [primed : BOOLEAN, hour : 0..MaxHour, msg : 0..MaxSeq, rule : 0..MaxSeq]
      BY <1>0, <2>0 DEF Unprimed
    <3>2. snapshot' \in [pc : {"rest", "stream", "consumer"}, tenants : SUBSET UsageTenants, hour : 0..MaxHour, msg : 0..MaxSeq]
      BY <1>0, <2>0 DEF Resting
    <3> QED BY <1>0, <2>0, <3>1, <3>2 DEF UsageInv, UsageTypeOK
  <2>2. HoursBegun' /\ Arrivals'
    BY <2>0 DEF HoursBegun, Arrivals, Unprimed, Resting
  <2>4. UsageIsMeasured'
    BY <1>1, <2>0 DEF UsageInv, UsageIsMeasured
  <2> QED BY <2>1, <2>2, <2>4 DEF UsageInv
<1>4. CASE WriteSnapshot
  <2>0. /\ snapshot' = [pc |-> "stream", tenants |-> states, hour |-> hour, msg |-> 0]
        /\ UNCHANGED <<hour, baseline, point, states>>
    BY <1>4 DEF WriteSnapshot
  <2>1. UsageTypeOK'
    BY <1>0, <2>0 DEF UsageInv, UsageTypeOK
  <2>2. HoursBegun'
    BY <1>0, <2>0 DEF UsageInv, HoursBegun
  <2>3. Arrivals'
    BY <1>0, <1>1, <2>0 DEF UsageInv, Arrivals
  <2>4. UsageIsMeasured'
    BY <1>1, <2>0 DEF UsageInv, UsageIsMeasured
  <2> QED BY <2>1, <2>2, <2>3, <2>4 DEF UsageInv
<1>5. CASE StreamLastSeq
  <2>0. /\ snapshot.pc = "stream"
        /\ snapshot' = [snapshot EXCEPT !.pc = "consumer", !.msg = msgSeq]
        /\ UNCHANGED <<hour, baseline, point, states>>
    BY <1>5 DEF StreamLastSeq
  <2>1. UsageTypeOK'
    BY <1>0, <2>0 DEF UsageInv, UsageTypeOK
  <2>2. snapshot'.pc = "consumer" /\ snapshot'.msg = msgSeq /\ snapshot'.hour = snapshot.hour
    BY <2>0 DEF UsageInv, UsageTypeOK
  <2>3. HoursBegun'
    BY <1>0, <2>0, <2>2 DEF UsageInv, HoursBegun
  <2>4. Arrivals'
    <3>1. snapshot.hour \in 1..MaxHour
      BY <1>0, <2>0 DEF UsageInv, HoursBegun
    <3>2. Since("msgs")[snapshot.hour] \in Nat
      BY <1>0, <3>1, SinceNat DEF UsageInv
    <3>3. msgSeq <= msgSeq + Since("msgs")[snapshot.hour]
      BY <1>0, <3>2
    <3> QED BY <1>0, <1>1, <2>0, <2>2, <3>3 DEF UsageInv, Arrivals
  <2>5. UsageIsMeasured'
    BY <1>1, <2>0 DEF UsageInv, UsageIsMeasured
  <2> QED BY <2>1, <2>3, <2>4, <2>5 DEF UsageInv
<1>6. ASSUME NEW t \in UsageTenants, NotMeasuredFor(t) PROVE UsageInv'
  <2>0. point' = [point EXCEPT ![t] = NotMeasured] /\ Onward(t) /\ UNCHANGED <<hour, baseline, states>>
    BY <1>6 DEF NotMeasuredFor
  <2>1. /\ snapshot' \in [pc : {"rest", "stream", "consumer"}, tenants : SUBSET UsageTenants, hour : 0..MaxHour, msg : 0..MaxSeq]
        /\ snapshot'.pc # "consumer"
        /\ snapshot'.pc # "rest" => snapshot'.hour = hour
    BY <2>0, OnwardType DEF UsageInv
  <2>2. UsageTypeOK'
    BY <1>0, <2>0, <2>1 DEF UsageInv, UsageTypeOK
  <2>3. HoursBegun'
    BY <1>0, <2>0, <2>1 DEF UsageInv, HoursBegun
  <2>4. Arrivals'
    BY <1>0, <1>1, <2>0, <2>1 DEF UsageInv, Arrivals
  <2>5. UsageIsMeasured'
    BY <1>1, <2>0 DEF UsageInv, UsageTypeOK, UsageIsMeasured
  <2> QED BY <2>2, <2>3, <2>4, <2>5 DEF UsageInv
<1> QED BY <1>2, <1>3, <1>4, <1>5, <1>6

\* hourBaseline.since: the numbers of the next tenant, from the baseline or as the new one.
LEMMA DeliveredInv == ASSUME UsageInv, NEW t \in UsageTenants, ConsumerDelivered(t) PROVE UsageInv'
<1> DEFINE again == Rebaselines(snapshot.hour, snapshot.msg, ruleSeq)
           p == [hour |-> snapshot.hour,
                 msgs |-> IF again THEN 0 ELSE Minus(snapshot.msg, baseline.msg),
                 rules |-> IF again THEN 0 ELSE Minus(ruleSeq, baseline.rule)]
<1>0. /\ snapshot.pc = "consumer"
      /\ baseline' = IF again THEN [primed |-> TRUE, hour |-> snapshot.hour, msg |-> snapshot.msg, rule |-> ruleSeq] ELSE baseline
      /\ point' = [point EXCEPT ![t] = p]
      /\ Onward(t)
      /\ UNCHANGED <<hour, msgSeq, ruleSeq, states, appended>>
  BY DEF ConsumerDelivered
<1>1. /\ "msgs" \in Counters /\ "rules" \in Counters /\ hour \in 1..MaxHour /\ MaxHour \in Nat /\ MaxSeq \in Nat
      /\ msgSeq \in 0..MaxSeq /\ ruleSeq \in 0..MaxSeq
      /\ baseline.msg \in 0..MaxSeq /\ baseline.rule \in 0..MaxSeq /\ snapshot.msg \in 0..MaxSeq
  BY UsageAssumption DEF UsageInv, UsageTypeOK, Counters
<1>2. Since("msgs")' = Since("msgs") /\ Since("rules")' = Since("rules")
  BY <1>0, SinceKept
<1>3. snapshot.hour \in 1..MaxHour /\ snapshot.hour \in 1..hour
  BY <1>0, <1>1 DEF UsageInv, HoursBegun
<1>4. Since("msgs")[snapshot.hour] \in Nat /\ Since("rules")[snapshot.hour] \in Nat
  BY <1>1, <1>3, SinceNat DEF UsageInv
<1>5. /\ snapshot' \in [pc : {"rest", "stream", "consumer"}, tenants : SUBSET UsageTenants, hour : 0..MaxHour, msg : 0..MaxSeq]
      /\ snapshot'.pc # "consumer"
      /\ snapshot'.pc # "rest" => snapshot'.hour = hour
  BY <1>0, OnwardType DEF UsageInv
\* What is published is what arrived since the baseline.
<1>6. ASSUME ~again
      PROVE  /\ baseline.primed /\ baseline.hour = snapshot.hour
             /\ Minus(snapshot.msg, baseline.msg) \in Nat /\ Minus(snapshot.msg, baseline.msg) <= Since("msgs")[snapshot.hour]
             /\ Minus(ruleSeq, baseline.rule) \in Nat /\ Minus(ruleSeq, baseline.rule) <= Since("rules")[snapshot.hour]
  <2>1. baseline.primed /\ baseline.hour = snapshot.hour
    BY <1>6 DEF Rebaselines, TurnsOver
  <2>2. baseline.msg <= snapshot.msg /\ baseline.rule <= ruleSeq
    BY <1>1, <1>6 DEF Rebaselines, MovedBack
  <2>3. snapshot.msg <= baseline.msg + Since("msgs")[snapshot.hour] /\ ruleSeq <= baseline.rule + Since("rules")[snapshot.hour]
    BY <1>0, <2>1 DEF UsageInv, Arrivals
  <2>4. Minus(snapshot.msg, baseline.msg) = snapshot.msg - baseline.msg /\ Minus(ruleSeq, baseline.rule) = ruleSeq - baseline.rule
    BY <1>1, <2>2, MinusIsDifference
  <2> QED BY <1>1, <1>4, <2>1, <2>2, <2>3, <2>4
<1>7. /\ p.hour = snapshot.hour /\ p.msgs \in Nat /\ p.rules \in Nat
      /\ p.msgs <= Since("msgs")[snapshot.hour] /\ p.rules <= Since("rules")[snapshot.hour]
      /\ p \in UsagePoint
  BY <1>3, <1>4, <1>6 DEF UsagePoint
<1> HIDE DEF p
<1>8. UsageTypeOK'
  <2>1. baseline' \in [primed : BOOLEAN, hour : 0..MaxHour, msg : 0..MaxSeq, rule : 0..MaxSeq]
    <3>1. snapshot.hour \in 0..MaxHour
      BY <1>3
    <3> QED BY <1>0, <1>1, <3>1 DEF UsageInv, UsageTypeOK
  <2>2. point' \in [UsageTenants -> UsagePoint \cup {NotMeasured}]
    BY <1>0, <1>7 DEF UsageInv, UsageTypeOK
  <2> QED BY <1>0, <1>1, <1>5, <2>1, <2>2 DEF UsageInv, UsageTypeOK
<1>9. HoursBegun'
  BY <1>0, <1>1, <1>3, <1>5 DEF UsageInv, HoursBegun
<1>10. Arrivals'
  <2>1. CASE again
    <3>1. baseline'.primed /\ baseline'.hour = snapshot.hour /\ baseline'.msg = snapshot.msg /\ baseline'.rule = ruleSeq
      BY <1>0, <2>1
    <3>2. msgSeq <= snapshot.msg + Since("msgs")[snapshot.hour]
      BY <1>0 DEF UsageInv, Arrivals
    <3>3. ruleSeq <= ruleSeq + Since("rules")[snapshot.hour]
      BY <1>1, <1>4
    <3> HIDE DEF again
    <3> QED BY <1>0, <1>2, <1>5, <3>1, <3>2, <3>3 DEF Arrivals
  <2>2. CASE ~again
    <3>1. baseline' = baseline
      BY <1>0, <2>2
    <3> HIDE DEF again
    <3> QED BY <1>0, <1>2, <1>5, <3>1 DEF UsageInv, Arrivals
  <2> QED BY <2>1, <2>2
<1>11. UsageIsMeasured'
  <2> SUFFICES ASSUME NEW u \in UsageTenants, point'[u] # NotMeasured
               PROVE  point'[u].msgs <= Since("msgs")[point'[u].hour] /\ point'[u].rules <= Since("rules")[point'[u].hour]
    BY <1>2 DEF UsageIsMeasured
  <2>1. CASE u = t
    <3>1. point'[u] = p
      BY <1>0, <2>1 DEF UsageInv, UsageTypeOK
    <3> QED BY <1>7, <3>1
  <2>2. CASE u # t
    <3>1. point'[u] = point[u]
      BY <1>0, <2>2 DEF UsageInv, UsageTypeOK
    <3> QED BY <3>1 DEF UsageInv, UsageIsMeasured
  <2> QED BY <2>1, <2>2
<1> QED BY <1>8, <1>9, <1>10, <1>11 DEF UsageInv

\* hourBaseline.since and StreamLastSeq: whatever the order of snapshots, restarts, recreated
\* streams and turns of the hour, what is published for an hour never exceeds what arrived
\* since that hour began, and no unsigned difference wraps.
THEOREM UsageStaysMeasured == UsageSpec => []UsageIsMeasured
<1>1. UsageInv /\ [UsageNext]_usageVars => UsageInv'
  <2> SUFFICES ASSUME UsageInv, [UsageNext]_usageVars PROVE UsageInv'
    OBVIOUS
  <2>0. /\ msgSeq \in 0..MaxSeq /\ ruleSeq \in 0..MaxSeq /\ ruleSeq <= msgSeq /\ MaxSeq \in Nat
        /\ "msgs" \in Counters /\ "rules" \in Counters /\ "msgs" # "rules"
    BY UsageAssumption DEF UsageInv, UsageTypeOK, Counters
  <2>1. CASE MessageArrives
    <3>1. /\ appended' = Append1("msgs", hour) /\ msgSeq' = msgSeq + 1 /\ ruleSeq' = ruleSeq /\ msgSeq < MaxSeq
          /\ UNCHANGED <<hour, baseline, snapshot, snapshots, point, states, faults>>
      BY <2>1 DEF MessageArrives
    <3>2. msgSeq' <= MaxSeq /\ ruleSeq' <= msgSeq'
      BY <2>0, <3>1
    <3> QED BY <2>0, <3>1, <3>2, ArrivesInv
  <2>2. CASE RuleEvaluated
    <3>1. /\ appended' = Append1("rules", hour) /\ ruleSeq' = ruleSeq + 1 /\ msgSeq' = msgSeq /\ ruleSeq < msgSeq
          /\ UNCHANGED <<hour, baseline, snapshot, snapshots, point, states, faults>>
      BY <2>2 DEF RuleEvaluated
    <3>2. msgSeq' <= MaxSeq /\ ruleSeq' <= msgSeq'
      BY <2>0, <3>1
    <3> QED BY <2>0, <3>1, <3>2, ArrivesInv
  <2>3. CASE UNCHANGED usageVars
    <3>1. Since("msgs")' = Since("msgs") /\ Since("rules")' = Since("rules")
      BY <2>3, SinceKept DEF usageVars
    <3> QED BY <2>3, <3>1 DEF usageVars, UsageInv, UsageTypeOK, HoursBegun, Arrivals, UsageIsMeasured
  <2> QED BY <2>1, <2>2, <2>3, RecreatedInv, QuietInv, DeliveredInv DEF UsageNext
<1>2. UsageInv => UsageIsMeasured
  BY DEF UsageInv
<1> QED BY <1>1, <1>2, UsageInitInv, PTL DEF UsageSpec

------------------------------------------------------------------------------
(* The listings.                                                           *)

ListingType ==
  [scope : {"own", "shared", "every"}, sort : {"unique", "tied"}, count : {"ignored", "required", "same"},
   paging : {"offset", "cursor", "whole", "first"}]
\* Only the listing by the key of the table pages with a cursor.
Sound(l) == l \in ListingType /\ (l.paging = "cursor" => l.sort = "unique")

LEMMA ListingsSound == \A l \in Listings : Sound(l)
<1> USE DEF Listing, Offset, Whole, EntityQuery
<1> DEFINE T == {l \in ListingType : Sound(l)}
<1> SUFFICES Listings \subseteq T
  OBVIOUS
<1>1. \A s \in {"own", "shared", "every"}, k \in {"unique", "tied"}, c \in {"ignored", "required", "same"} :
        Offset(s, k, c) \subseteq T
  BY DEF ListingType, Sound
<1>2. \A s \in {"own", "every"}, k \in {"unique", "tied"} : Whole(s, k) \subseteq T /\ Listing(s, k, "same", "first") \subseteq T
  BY DEF ListingType, Sound
<1>3. \A k \in {"unique", "tied"} : EntityQuery(k) \subseteq T
  BY <1>2
<1>4. HandleList \subseteq T
  BY DEF ListingType, Sound, HandleList
<1> HIDE DEF T, Listing, Offset, Whole, EntityQuery
<1>5. /\ listDeviceInfos \subseteq T /\ HandleDeviceTypes \subseteq T /\ ListByTenant \subseteq T /\ ListByCustomer \subseteq T
      /\ ListCustomers \subseteq T /\ HandleAlarmsQueryFind \subseteq T /\ handleAlarmsByDevice \subseteq T
      /\ HandleTenantsList \subseteq T /\ TenantProfiles \subseteq T /\ OtaPackages \subseteq T /\ Images \subseteq T
      /\ Resources \subseteq T /\ TenantResources \subseteq T /\ AlarmComments \subseteq T
  BY <1>1, <1>2 DEF listDeviceInfos, HandleDeviceTypes, ListByTenant, ListByCustomer, ListCustomers,
       HandleAlarmsQueryFind, handleAlarmsByDevice, HandleTenantsList, TenantProfiles, OtaPackages, Images, Resources,
       TenantResources, AlarmComments
<1>6. /\ listNotificationTargets \subseteq T /\ listNotificationTemplates \subseteq T /\ listNotificationRules \subseteq T
      /\ listNotificationRequests \subseteq T /\ HandleAuditLogs \subseteq T /\ AuditByDimension \subseteq T
      /\ listOAuth2Clients \subseteq T /\ listAssetInfos \subseteq T /\ listEntityViewInfos \subseteq T
      /\ HandleDeviceProfileInfos \subseteq T /\ HandleAssetProfileInfos \subseteq T /\ HandleDeviceProfileNames \subseteq T
      /\ HandleTenantDeviceProfiles \subseteq T /\ HandleTenantAssetProfiles \subseteq T /\ HandleTenantAssets \subseteq T
  BY <1>1, <1>2 DEF listNotificationTargets, listNotificationTemplates, listNotificationRules, listNotificationRequests,
       HandleAuditLogs, AuditByDimension, listOAuth2Clients, listAssetInfos, listEntityViewInfos, HandleDeviceProfileInfos,
       HandleAssetProfileInfos, HandleDeviceProfileNames, HandleTenantDeviceProfiles, HandleTenantAssetProfiles,
       HandleTenantAssets
<1>7. /\ HandleTenantEntityViews \subseteq T /\ HandleTenantCustomers \subseteq T /\ HandleAlarmTypes \subseteq T
      /\ HandleRuleChains \subseteq T /\ listUsers \subseteq T /\ HandleTenantDashboardsByID \subseteq T
      /\ HandleTenantUsersByID \subseteq T /\ WidgetTypes \subseteq T /\ WidgetBundles \subseteq T /\ BundlesFlat \subseteq T
      /\ WidgetTypesInfos \subseteq T /\ TwinModels \subseteq T /\ TwinPolicies \subseteq T
      /\ handleDeviceTypeFilter \subseteq T /\ handleAssetTypeFilter \subseteq T /\ handleEntityViewTypeFilter \subseteq T
      /\ handleEntityNameFilter \subseteq T
  BY <1>1, <1>2, <1>3 DEF HandleTenantEntityViews, HandleTenantCustomers, HandleAlarmTypes, HandleRuleChains, listUsers,
       HandleTenantDashboardsByID, HandleTenantUsersByID, WidgetTypes, WidgetBundles, BundlesFlat, WidgetTypesInfos,
       TwinModels, TwinPolicies, handleDeviceTypeFilter, handleAssetTypeFilter, handleEntityViewTypeFilter,
       handleEntityNameFilter
<1> QED BY <1>4, <1>5, <1>6, <1>7, SMTT(60) DEF Listings

\* The rows of a table that a listing selects.
Matches(l, f, x) ==
  /\ l.scope = "own" => x.tenant = Viewer
  /\ l.scope = "shared" => x.tenant \in {Viewer, SystemTenant}
  /\ f => x.hit
Hits(T, l, f) == {x \in T : Matches(l, f, x)}

LEMMA SelectedHits == ASSUME NEW l, NEW f, Sound(l) PROVE Selected(l, f) = Hits(table, l, f)
<1> l.scope \in {"own", "shared", "every"}
  BY DEF Sound, ListingType
<1> QED BY DEF Selected, InScope, Hits, Matches

\* The answer of a statement is a list of the rows, each once and in order.
LEMMA OrderedIsList ==
  ASSUME NEW l, NEW S, IsFiniteSet(S), NEW s \in Ordered(l, S)
  PROVE  /\ s \in Seq(S) /\ Len(s) = Cardinality(S) /\ Cardinality(S) \in Nat
         /\ \A i, j \in 1..Len(s) : i # j => s[i] # s[j]
         /\ \A i, j \in 1..Len(s) : i < j => SortKey(l, s[i]) <= SortKey(l, s[j])
         /\ ToSet(s) = S
         /\ \A x \in S : \E i \in 1..Len(s) : s[i] = x
<1> DEFINE n == Cardinality(S)
<1>1. n \in Nat
  BY FS_CardinalityType
<1>2. s \in [1..n -> S] /\ (\A i, j \in 1..n : i # j => s[i] # s[j])
      /\ (\A i, j \in DOMAIN s : i < j => SortKey(l, s[i]) <= SortKey(l, s[j]))
  BY DEF Ordered, SetToSeqs
<1>3. s \in Injection(1..n, S)
  BY <1>2 DEF Injection, IsInjective
<1>4. Cardinality(1..n) = n
  BY <1>1, FS_Interval
<1>5. s \in Surjection(1..n, S)
  BY <1>3, <1>4, FS_Injection
<1>6. \A x \in S : \E i \in 1..n : s[i] = x
  BY <1>5 DEF Surjection
<1> HIDE DEF n
<1>7. s \in Seq(S) /\ Len(s) = n /\ DOMAIN s = 1..n
  BY <1>1, <1>2
<1>8. ToSet(s) = S
  BY <1>2, <1>6, <1>7 DEF ToSet
<1> QED BY <1>1, <1>2, <1>6, <1>7, <1>8 DEF n

\* Rows that the sort tells apart come in one order only.
LEMMA OneOrder ==
  ASSUME NEW l, l.sort = "unique", NEW S \in SUBSET ListRows, NEW s \in Ordered(l, S), NEW r \in Ordered(l, S)
  PROVE  s = r
<1> DEFINE n == Cardinality(S)
           K == {k \in Nat : \A i \in 1..k : i <= n => s[i] = r[i]}
<1>1. IsFiniteSet(S) /\ n \in Nat
  BY ListingsAssumption, FS_Subset, FS_CardinalityType
<1>2. /\ s \in Seq(S) /\ Len(s) = n /\ r \in Seq(S) /\ Len(r) = n
      /\ \A x \in S : \E i \in 1..n : s[i] = x
      /\ \A x \in S : \E i \in 1..n : r[i] = x
      /\ \A i, j \in 1..n : i # j => s[i] # s[j] /\ r[i] # r[j]
  BY <1>1, OrderedIsList
<1>3. \A i, j \in 1..n : i < j => s[i].id <= s[j].id /\ r[i].id <= r[j].id
  BY <1>1, OrderedIsList DEF SortKey
<1>4. \A x, y \in S : x.id \in Nat /\ (x.id <= y.id /\ y.id <= x.id => x = y)
  BY ListingsAssumption
<1>5. \A i \in 1..n : s[i] \in S /\ r[i] \in S
  BY <1>2
<1> HIDE DEF n
<1>6. 0 \in K
  OBVIOUS
<1>7. ASSUME NEW k \in Nat, k \in K PROVE k + 1 \in K
  <2>1. SUFFICES ASSUME k + 1 <= n PROVE s[k + 1] = r[k + 1]
    BY <1>7
  <2>2. k + 1 \in 1..n /\ \A i \in 1..n : i < k + 1 => s[i] = r[i]
    BY <1>1, <1>7, <2>1
  <2>3. PICK i \in 1..n : r[i] = s[k + 1]
    BY <1>2, <1>5, <2>2
  <2>4. PICK j \in 1..n : s[j] = r[k + 1]
    BY <1>2, <1>5, <2>2
  <2>5. ~(i < k + 1) /\ ~(j < k + 1)
    <3>1. ASSUME i < k + 1 PROVE FALSE
      <4>1. s[i] = s[k + 1] /\ i # k + 1
        BY <2>2, <2>3, <3>1
      <4> QED BY <1>2, <2>2, <4>1
    <3>2. ASSUME j < k + 1 PROVE FALSE
      <4>1. r[j] = r[k + 1] /\ j # k + 1
        BY <2>2, <2>4, <3>2
      <4> QED BY <1>2, <2>2, <4>1
    <3> QED BY <3>1, <3>2
  <2>6. r[k + 1].id <= r[i].id /\ s[k + 1].id <= s[j].id
    <3>1. CASE i = k + 1
      BY <1>3, <1>4, <1>5, <2>2, <2>3, <2>4, <2>5, <3>1
    <3>2. CASE j = k + 1
      BY <1>3, <1>4, <1>5, <2>2, <2>3, <2>4, <2>5, <3>2
    <3>3. CASE k + 1 < i /\ k + 1 < j
      BY <1>3, <2>2, <3>3
    <3> QED BY <1>1, <2>2, <2>5, <3>1, <3>2, <3>3
  <2> QED BY <1>4, <1>5, <2>2, <2>3, <2>4, <2>6
<1>8. Nat \subseteq K
  <2> HIDE DEF K
  <2> QED BY <1>6, <1>7, NatSetInduction
<1>9. n \in K
  BY <1>1, <1>8
<1> QED BY <1>2, <1>9

\* TotalPages: the page that has no next one ends behind the last row, and only it.
LEMMA LastPageIsFull ==
  ASSUME NEW n \in Nat, NEW size \in Nat \ {0}, NEW page \in Nat, ~(page + 1 < TotalPages(n, size))
  PROVE  n <= (page + 1) * size
<1> DEFINE q == (n + size - 1) \div size
<1>1. q \in Nat /\ q * size <= n + size - 1 /\ n + size - 1 < (q + 1) * size
  OBVIOUS
<1>2. q <= page + 1
  BY <1>1 DEF TotalPages
<1> HIDE DEF q
<1>3. n <= q * size
  BY <1>1
<1>4. q * size <= (page + 1) * size
  BY <1>1, <1>2
<1>5. q * size \in Nat /\ (page + 1) * size \in Nat
  BY <1>1
<1> QED BY <1>3, <1>4, <1>5

\* The pages so far and the next one are the first rows of the list.
FirstRows(s, n) == SubSeq(s, 1, Least(n, Len(s)))

LEMMA PagesJoin ==
  ASSUME NEW S, NEW s \in Seq(S), NEW o \in Nat, NEW n \in Nat
  PROVE  FirstRows(s, o) \o Slice(s, o, n) = FirstRows(s, o + n)
<1> DEFINE m == Len(s)
           a == FirstRows(s, o)
           b == Slice(s, o, n)
           c == FirstRows(s, o + n)
<1>0. m \in Nat
  OBVIOUS
<1>1. CASE o + n <= m
  <2>1. a = SubSeq(s, 1, o) /\ b = SubSeq(s, o + 1, o + n) /\ c = SubSeq(s, 1, o + n)
    BY <1>1 DEF FirstRows, Slice, Least
  <2> QED BY <1>1, <2>1
<1>2. CASE o <= m /\ m < o + n
  <2>1. a = SubSeq(s, 1, o) /\ b = SubSeq(s, o + 1, m) /\ c = SubSeq(s, 1, m)
    BY <1>2 DEF FirstRows, Slice, Least
  <2> HIDE DEF a, b, c
  <2>2. 1 \in 1..(m + 1) /\ o \in (1 - 1)..m /\ m \in o..m
    BY <1>0, <1>2
  <2>3. a \o b = c
    BY <2>1, <2>2, ConcatAdjacentSubSeq
  <2> QED BY <2>3 DEF a, b, c
<1>3. CASE m < o
  <2>1. a = s /\ b = <<>> /\ c = s
    BY <1>3 DEF FirstRows, Slice, Least
  <2> QED BY <2>1
<1> QED BY <1>0, <1>1, <1>2, <1>3

Walks ==
  [pc : {"count", "fetch", "over"}, listing : Listings, filtered : BOOLEAN, size : Nat \ {0}, page : Nat, total : Nat,
   got : Seq(ListRows), edited : BOOLEAN, failed : BOOLEAN, lasting : SUBSET ListRows]

\* The rows that last are selected; if nobody edits the table, they are all that is.
LastingOK(T, w) ==
  /\ w.lasting \subseteq Hits(T, w.listing, w.filtered)
  /\ ~w.edited => w.lasting = Hits(T, w.listing, w.filtered) /\ ToSet(w.got) \subseteq w.lasting

TotalOK(w) ==
  w.pc = "fetch" /\ ~w.edited /\ ~w.failed /\ w.listing.count # "same" => w.total = Cardinality(w.lasting)

Rising(s) == \A i, j \in 1..Len(s) : i < j => s[i].id < s[j].id
\* A walk with a cursor has what lasted up to its last row.
CursorOK(w) ==
  w.listing.paging = "cursor" =>
    /\ Rising(w.got)
    /\ w.got # <<>> => \A x \in w.lasting : x.id <= w.got[Len(w.got)].id => x \in ToSet(w.got)
    /\ w.pc = "over" /\ ~w.failed => w.lasting \subseteq ToSet(w.got)

\* A walk by page numbers has the first rows of the one order there is.
PagesOK(w) ==
  ~w.edited /\ w.listing.paging = "offset" /\ w.listing.sort = "unique" =>
    /\ w.page = 0 => w.got = <<>>
    /\ w.page # 0 => \E s \in Ordered(w.listing, w.lasting) : w.got = FirstRows(s, w.page * w.size)

EntireOK(w) ==
  /\ w.listing.paging = "whole" /\ w.pc # "over" => w.got = <<>>
  /\ w.pc = "over" /\ ~w.failed /\ ~w.edited
       /\ (w.listing.paging = "whole" \/ (w.listing.paging = "offset" /\ w.listing.sort = "unique"))
     => w.got \in Ordered(w.listing, w.lasting)

WalkOK(T, w) == LastingOK(T, w) /\ TotalOK(w) /\ CursorOK(w) /\ PagesOK(w) /\ EntireOK(w)

ListingsInv ==
  /\ table \in SUBSET ListRows
  /\ walk = Away \/ (walk \in Walks /\ WalkOK(table, walk))

LEMMA HitsFinite ==
  ASSUME NEW T \in SUBSET ListRows, NEW l, NEW f
  PROVE  Hits(T, l, f) \in SUBSET ListRows /\ IsFiniteSet(Hits(T, l, f)) /\ Cardinality(Hits(T, l, f)) \in Nat
<1>1. Hits(T, l, f) \in SUBSET ListRows
  BY DEF Hits
<1> QED BY <1>1, ListingsAssumption, FS_Subset, FS_CardinalityType

LEMMA ToSetConcat ==
  ASSUME NEW S, NEW s \in Seq(S), NEW r \in Seq(S)
  PROVE  ToSet(s \o r) = ToSet(s) \cup ToSet(r)
<1>1. /\ s \o r \in Seq(S) /\ Len(s \o r) = Len(s) + Len(r)
      /\ \A i \in 1..(Len(s) + Len(r)) : (s \o r)[i] = IF i <= Len(s) THEN s[i] ELSE r[i - Len(s)]
  BY ConcatProperties
<1>2. Len(s) \in Nat /\ Len(r) \in Nat /\ DOMAIN s = 1..Len(s) /\ DOMAIN r = 1..Len(r) /\ DOMAIN (s \o r) = 1..(Len(s) + Len(r))
  BY <1>1, LenProperties
<1> DEFINE c == s \o r
<1> HIDE DEF c
<1>3. ASSUME NEW x \in ToSet(c) PROVE x \in ToSet(s) \cup ToSet(r)
  <2>1. PICK i \in 1..(Len(s) + Len(r)) : x = c[i]
    BY <1>2, <1>3 DEF ToSet, c
  <2>2. CASE i <= Len(s)
    BY <1>1, <1>2, <2>1, <2>2 DEF ToSet, c
  <2>3. CASE i > Len(s)
    <3>1. i - Len(s) \in 1..Len(r) /\ x = r[i - Len(s)]
      BY <1>1, <1>2, <2>1, <2>3 DEF c
    <3> QED BY <1>2, <3>1 DEF ToSet
  <2> QED BY <1>2, <2>2, <2>3
<1>4. ASSUME NEW x \in ToSet(s) PROVE x \in ToSet(c)
  <2>1. PICK i \in 1..Len(s) : x = s[i]
    BY <1>2, <1>4 DEF ToSet
  <2>2. i \in 1..(Len(s) + Len(r)) /\ c[i] = x
    BY <1>1, <1>2, <2>1 DEF c
  <2> QED BY <1>2, <2>2 DEF ToSet, c
<1>5. ASSUME NEW x \in ToSet(r) PROVE x \in ToSet(c)
  <2>1. PICK i \in 1..Len(r) : x = r[i]
    BY <1>2, <1>5 DEF ToSet
  <2>2. Len(s) + i \in 1..(Len(s) + Len(r)) /\ ~(Len(s) + i <= Len(s)) /\ (Len(s) + i) - Len(s) = i
    BY <1>2
  <2>3. c[Len(s) + i] = x
    BY <1>1, <2>1, <2>2 DEF c
  <2> QED BY <1>2, <2>2, <2>3 DEF ToSet, c
<1> QED BY <1>3, <1>4, <1>5 DEF c

\* LIMIT n OFFSET o
LEMMA SliceType ==
  ASSUME NEW S, NEW s \in Seq(S), NEW o \in Nat, NEW n \in Nat
  PROVE  /\ Slice(s, o, n) \in Seq(S) /\ ToSet(Slice(s, o, n)) \subseteq S
<1>1. Len(s) \in Nat /\ \A i \in 1..Len(s) : s[i] \in S
  BY LenProperties, ElementOfSeq
<1>2. Least(o + n, Len(s)) \in Int /\ Least(o + n, Len(s)) <= Len(s) /\ o + 1 \in Int
  BY <1>1 DEF Least
<1>3. \A i \in (o + 1)..Least(o + n, Len(s)) : s[i] \in S
  BY <1>1, <1>2
<1>4. Slice(s, o, n) \in Seq(S)
  BY <1>2, <1>3, SubSeqProperties DEF Slice
<1> QED BY <1>4, LenProperties DEF ToSet

AfterAnswer(w, p, pc) == [w EXCEPT !.pc = pc, !.page = @ + 1, !.got = @ \o p]
Kept(T, w, p, pc, q) ==
  /\ q \in Walks /\ q.pc = pc /\ q.page = w.page + 1 /\ q.got = w.got \o p
  /\ q.listing = w.listing /\ q.filtered = w.filtered /\ q.size = w.size /\ q.edited = w.edited
  /\ q.failed = w.failed /\ q.lasting = w.lasting
  /\ LastingOK(T, q) /\ TotalOK(q)

\* One more answer: what the client has, it has of the rows selected.
LEMMA AnswerKeeps ==
  ASSUME NEW T \in SUBSET ListRows, NEW w \in Walks, WalkOK(T, w), w.pc = "fetch",
         NEW p \in Seq(Hits(T, w.listing, w.filtered)), NEW pc \in {"count", "over"}, NEW q,
         q = AfterAnswer(w, p, pc)
  PROVE  Kept(T, w, p, pc, q)
<1> DEFINE S == Hits(T, w.listing, w.filtered)
<1>1. S \in SUBSET ListRows
  BY HitsFinite
<1>2. p \in Seq(ListRows) /\ w.got \in Seq(ListRows) /\ ToSet(p) \subseteq S
  BY <1>1, SeqMonotonic DEF Walks, ToSet
<1>3. w.got \o p \in Seq(ListRows) /\ ToSet(w.got \o p) = ToSet(w.got) \cup ToSet(p)
  BY <1>2, ToSetConcat
<1> HIDE DEF S
<1>4. /\ q.pc = pc /\ q.page = w.page + 1 /\ q.got = w.got \o p
      /\ q.listing = w.listing /\ q.filtered = w.filtered /\ q.size = w.size /\ q.edited = w.edited
      /\ q.failed = w.failed /\ q.lasting = w.lasting /\ q.total = w.total
  BY DEF Walks, AfterAnswer
<1>5. q \in Walks
  <2>1. w.page + 1 \in Nat
    BY DEF Walks
  <2> QED BY <1>3, <2>1 DEF Walks, AfterAnswer
<1>6. LastingOK(T, q)
  BY <1>2, <1>3, <1>4 DEF WalkOK, LastingOK, S
<1>7. TotalOK(q)
  BY <1>4 DEF TotalOK
<1> QED BY <1>4, <1>5, <1>6, <1>7 DEF Kept

LEMMA OffsetPageKeeps ==
  ASSUME NEW T \in SUBSET ListRows, NEW w \in Walks, WalkOK(T, w), w.pc = "fetch", w.listing.paging = "offset",
         NEW s \in Ordered(w.listing, Hits(T, w.listing, w.filtered)),
         NEW pc \in {"count", "over"},
         pc = "over" => ~(w.page + 1 < TotalPages(IF w.listing.count = "same"
                                                     THEN Cardinality(Hits(T, w.listing, w.filtered)) ELSE w.total, w.size)),
         NEW q,
         q = AfterAnswer(w, Slice(s, w.page * w.size, w.size), pc)
  PROVE  q \in Walks /\ WalkOK(T, q)
<1> DEFINE S == Hits(T, w.listing, w.filtered)
           o == w.page * w.size
           p == Slice(s, o, w.size)
<1>1. S \in SUBSET ListRows /\ IsFiniteSet(S) /\ Cardinality(S) \in Nat
  BY HitsFinite
<1>2. s \in Seq(S) /\ Len(s) = Cardinality(S)
  BY <1>1, OrderedIsList
<1>3. w.page \in Nat /\ w.size \in Nat \ {0}
  BY DEF Walks
<1>4. o \in Nat
  BY <1>3
<1>5. p \in Seq(S)
  <2> HIDE DEF S, o
  <2> QED BY <1>2, <1>3, <1>4, SliceType
<1>a. Kept(T, w, p, pc, q)
  BY <1>5, AnswerKeeps
<1>6. /\ q \in Walks /\ q.pc = pc /\ q.page = w.page + 1 /\ q.got = w.got \o p
      /\ q.listing = w.listing /\ q.filtered = w.filtered /\ q.size = w.size /\ q.edited = w.edited
      /\ q.failed = w.failed /\ q.lasting = w.lasting
      /\ LastingOK(T, q) /\ TotalOK(q)
  BY <1>a DEF Kept
<1> HIDE DEF S, o, p
<1>7. ASSUME ~w.edited, w.listing.sort = "unique" PROVE q.got = FirstRows(s, (w.page + 1) * w.size) /\ w.lasting = S
  <2>1. w.lasting = S
    BY <1>7 DEF WalkOK, LastingOK, S
  <2>2. w.got = FirstRows(s, o)
    <3>1. CASE w.page = 0
      <4>1. w.got = <<>>
        BY <1>7, <3>1 DEF WalkOK, PagesOK
      <4>2. Least(0, Len(s)) = 0
        BY <1>1, <1>2 DEF Least
      <4>3. FirstRows(s, 0) = <<>>
        BY <4>2, SubSeqEmpty DEF FirstRows
      <4>4. o = 0
        BY <1>3, <3>1 DEF o
      <4> QED BY <4>1, <4>3, <4>4
    <3>2. CASE w.page # 0
      <4>1. PICK r \in Ordered(w.listing, w.lasting) : w.got = FirstRows(r, o)
        BY <1>7, <3>2 DEF WalkOK, PagesOK, o
      <4>2. s \in Ordered(w.listing, S) /\ r \in Ordered(w.listing, S)
        BY <2>1, <4>1 DEF S
      <4>3. r = s
        BY <1>1, <1>7, <4>2, OneOrder
      <4> QED BY <4>1, <4>3
    <3> QED BY <3>1, <3>2
  <2>3. w.got \o p = FirstRows(s, o + w.size)
    BY <1>2, <1>3, <1>4, <2>2, PagesJoin DEF p
  <2>4. o + w.size = (w.page + 1) * w.size
    BY <1>3 DEF o
  <2> QED BY <1>6, <2>1, <2>3, <2>4
<1>8. PagesOK(q)
  <2> SUFFICES ASSUME ~q.edited, q.listing.sort = "unique"
               PROVE  q.page # 0 /\ \E r \in Ordered(q.listing, q.lasting) : q.got = FirstRows(r, q.page * q.size)
    BY DEF PagesOK
  <2>1. q.got = FirstRows(s, q.page * q.size) /\ q.lasting = S
    BY <1>6, <1>7
  <2>2. s \in Ordered(q.listing, q.lasting)
    BY <1>6, <2>1 DEF S
  <2>3. q.page # 0
    BY <1>3, <1>6
  <2> QED BY <2>1, <2>2, <2>3
<1>9. EntireOK(q)
  <2> SUFFICES ASSUME q.pc = "over", ~q.failed, ~q.edited, q.listing.sort = "unique"
               PROVE  q.got \in Ordered(q.listing, q.lasting)
    BY <1>6 DEF EntireOK
  <2>1. q.got = FirstRows(s, (w.page + 1) * w.size) /\ w.lasting = S
    BY <1>6, <1>7
  <2>2. pc = "over"
    BY <1>6
  <2>3. w.listing.count # "same" => w.total = Cardinality(S)
    BY <1>6, <2>1 DEF WalkOK, TotalOK
  <2>4. ~(w.page + 1 < TotalPages(Cardinality(S), w.size))
    BY <2>2, <2>3 DEF S
  <2>5. Len(s) <= (w.page + 1) * w.size
    BY <1>1, <1>2, <1>3, <2>4, LastPageIsFull
  <2> DEFINE k == (w.page + 1) * w.size
  <2>6. k \in Nat
    BY <1>3
  <2> HIDE DEF k
  <2>7. Least(k, Len(s)) = Len(s)
    BY <1>1, <1>2, <2>5, <2>6 DEF Least, k
  <2>8. FirstRows(s, k) = s
    BY <1>2, <2>7, SubSeqFull DEF FirstRows
  <2> QED BY <1>6, <2>1, <2>8 DEF k, S
<1>10. CursorOK(q)
  BY <1>6 DEF CursorOK
<1> QED BY <1>6, <1>8, <1>9, <1>10 DEF WalkOK

LEMMA WholeAnswerKeeps ==
  ASSUME NEW T \in SUBSET ListRows, NEW w \in Walks, WalkOK(T, w), w.pc = "fetch", w.listing.paging = "whole",
         NEW s \in Ordered(w.listing, Hits(T, w.listing, w.filtered)), NEW q,
         q = AfterAnswer(w, s, "over")
  PROVE  q \in Walks /\ WalkOK(T, q)
<1> DEFINE S == Hits(T, w.listing, w.filtered)
<1>1. s \in Seq(S)
  BY HitsFinite, OrderedIsList
<1>a. Kept(T, w, s, "over", q)
  BY <1>1, AnswerKeeps
<1>2. /\ q \in Walks /\ q.pc = "over" /\ q.got = w.got \o s
      /\ q.listing = w.listing /\ q.filtered = w.filtered /\ q.edited = w.edited /\ q.lasting = w.lasting
      /\ LastingOK(T, q) /\ TotalOK(q)
  BY <1>a DEF Kept
<1>3. w.got = <<>>
  BY DEF WalkOK, EntireOK
<1>4. q.got = s
  BY <1>1, <1>2, <1>3, ConcatEmptySeq
<1>5. ~q.edited => q.lasting = S
  BY <1>2 DEF LastingOK
<1>6. EntireOK(q)
  BY <1>2, <1>4, <1>5 DEF EntireOK
<1>7. CursorOK(q) /\ PagesOK(q)
  BY <1>2 DEF CursorOK, PagesOK
<1> QED BY <1>2, <1>6, <1>7 DEF WalkOK

LEMMA FirstPageKeeps ==
  ASSUME NEW T \in SUBSET ListRows, NEW w \in Walks, WalkOK(T, w), w.pc = "fetch", w.listing.paging = "first",
         NEW s \in Ordered(w.listing, Hits(T, w.listing, w.filtered)), NEW q,
         q = AfterAnswer(w, Slice(s, 0, w.size), "over")
  PROVE  q \in Walks /\ WalkOK(T, q)
<1> DEFINE S == Hits(T, w.listing, w.filtered)
<1>1. s \in Seq(S)
  BY HitsFinite, OrderedIsList
<1>2. w.size \in Nat
  BY DEF Walks
<1>3. Slice(s, 0, w.size) \in Seq(S)
  <2> HIDE DEF S
  <2> QED BY <1>1, <1>2, SliceType
<1>a. Kept(T, w, Slice(s, 0, w.size), "over", q)
  BY <1>3, AnswerKeeps
<1>4. /\ q \in Walks /\ q.pc = "over" /\ q.listing = w.listing
      /\ LastingOK(T, q) /\ TotalOK(q)
  BY <1>a DEF Kept
<1>5. CursorOK(q) /\ PagesOK(q) /\ EntireOK(q)
  BY <1>4 DEF CursorOK, PagesOK, EntireOK
<1> QED BY <1>4, <1>5 DEF WalkOK

RowsBehind(T, w) == {x \in Hits(T, w.listing, w.filtered) : w.got # <<>> => w.got[Len(w.got)].id < x.id}

LEMMA CursorPageKeeps ==
  ASSUME NEW T \in SUBSET ListRows, NEW w \in Walks, WalkOK(T, w), w.pc = "fetch", w.listing.paging = "cursor",
         NEW s \in Ordered(w.listing, RowsBehind(T, w)),
         NEW pc \in {"count", "over"}, pc = "over" => ~(Len(s) > w.size),
         NEW q, q = AfterAnswer(w, Slice(s, 0, w.size), pc)
  PROVE  q \in Walks /\ WalkOK(T, q)
<1> DEFINE C == RowsBehind(T, w)
           p == Slice(s, 0, w.size)
           m == Least(w.size, Len(s))
           n == Len(w.got)
<1>0. Hits(T, w.listing, w.filtered) \in SUBSET ListRows
  BY HitsFinite
<1>1. C \in SUBSET ListRows /\ C \subseteq Hits(T, w.listing, w.filtered) /\ IsFiniteSet(C)
  <2>1. C \subseteq Hits(T, w.listing, w.filtered)
    BY DEF RowsBehind
  <2> QED BY <1>0, <2>1, ListingsAssumption, FS_Subset
<1>2. /\ s \in Seq(C) /\ Len(s) \in Nat
      /\ \A i, j \in 1..Len(s) : i # j => s[i] # s[j]
      /\ \A x \in C : \E i \in 1..Len(s) : s[i] = x
  BY <1>1, OrderedIsList, LenProperties
<1>3. \A i, j \in 1..Len(s) : i < j => s[i].id <= s[j].id
  <2>1. w.listing.sort = "unique"
    BY ListingsSound DEF Walks, Sound
  <2> QED BY <1>1, <2>1, OrderedIsList DEF SortKey
<1>4. \A x, y \in ListRows : x.id \in Nat /\ (x.id = y.id => x = y)
  BY ListingsAssumption
<1>5. \A i \in 1..Len(s) : s[i] \in C /\ s[i] \in ListRows
  BY <1>1, <1>2, ElementOfSeq
<1>6. w.size \in Nat \ {0} /\ w.got \in Seq(ListRows) /\ n \in Nat /\ \A i \in 1..n : w.got[i] \in ListRows
  BY LenProperties, ElementOfSeq DEF Walks
<1>7. m \in Nat /\ m <= Len(s) /\ m <= w.size
  BY <1>2, <1>6 DEF Least
<1> HIDE DEF C, p, m, n
<1>8. /\ p \in Seq(C) /\ Len(p) = m /\ \A i \in 1..m : p[i] = s[i]
  <2>1. p = SubSeq(s, 1, m)
    <3>1. p = SubSeq(s, 0 + 1, Least(0 + w.size, Len(s)))
      BY DEF p, Slice
    <3>2. 0 + w.size = w.size /\ 0 + 1 = 1
      BY <1>6
    <3> QED BY <3>1, <3>2 DEF m
  <2>2. \A i \in 1..m : s[i] \in C
    BY <1>2, <1>5, <1>7
  <2>3. SubSeq(s, 1, m) \in Seq(C) /\ Len(SubSeq(s, 1, m)) = (IF 1 <= m THEN m - 1 + 1 ELSE 0)
        /\ \A i \in 1..(m - 1 + 1) : SubSeq(s, 1, m)[i] = s[1 + i - 1]
    BY <1>7, <2>2, SubSeqProperties
  <2> QED BY <1>7, <2>1, <2>3
<1>9. p \in Seq(Hits(T, w.listing, w.filtered)) /\ p \in Seq(ListRows)
  BY <1>0, <1>1, <1>8, SeqMonotonic
<1>10. Kept(T, w, p, pc, q)
  BY <1>9, AnswerKeeps DEF p
<1>11. /\ q \in Walks /\ q.pc = pc /\ q.got = w.got \o p
       /\ q.listing = w.listing /\ q.edited = w.edited /\ q.failed = w.failed /\ q.lasting = w.lasting
       /\ LastingOK(T, q) /\ TotalOK(q)
  BY <1>10 DEF Kept
<1>12. /\ Len(q.got) = n + m
       /\ \A i \in 1..n : q.got[i] = w.got[i]
       /\ \A i \in 1..m : q.got[n + i] = s[i]
       /\ ToSet(q.got) = ToSet(w.got) \cup ToSet(p)
  <2>1. Len(w.got \o p) = n + m
        /\ \A i \in 1..(n + m) : (w.got \o p)[i] = IF i <= n THEN w.got[i] ELSE p[i - n]
    BY <1>6, <1>8, <1>9, ConcatProperties DEF n
  <2>2. ToSet(w.got \o p) = ToSet(w.got) \cup ToSet(p)
    BY <1>6, <1>9, ToSetConcat
  <2>3. \A i \in 1..m : n + i \in 1..(n + m) /\ ~(n + i <= n) /\ (n + i) - n = i
    BY <1>6, <1>7
  <2>4. \A i \in 1..n : i \in 1..(n + m) /\ i <= n
    BY <1>6, <1>7
  <2>5. \A i \in 1..n : q.got[i] = w.got[i]
    BY <1>11, <2>1, <2>4
  <2>6. \A i \in 1..m : q.got[n + i] = s[i]
    BY <1>8, <1>11, <2>1, <2>3
  <2> QED BY <1>11, <2>1, <2>2, <2>5, <2>6
<1>13. /\ Rising(w.got)
       /\ w.got # <<>> => \A x \in w.lasting : x.id <= w.got[n].id => x \in ToSet(w.got)
       /\ w.lasting \subseteq Hits(T, w.listing, w.filtered)
  BY DEF WalkOK, CursorOK, LastingOK, n
\* What is not among the rows of before is behind them.
<1>14. ASSUME NEW x \in w.lasting, x \notin ToSet(w.got) PROVE \E i \in 1..Len(s) : s[i] = x
  <2>1. x \in Hits(T, w.listing, w.filtered) /\ x \in ListRows
    BY <1>0, <1>13
  <2>2. w.got # <<>> => w.got[n].id < x.id
    <3>1. w.got # <<>> => n \in 1..n
      BY <1>6, EmptySeq DEF n
    <3>2. w.got # <<>> => w.got[n].id \in Nat
      BY <1>4, <1>6, <3>1
    <3>3. x.id \in Nat
      BY <1>4, <2>1
    <3> QED BY <1>13, <1>14, <3>2, <3>3
  <2>3. x \in C
    BY <2>1, <2>2 DEF C, RowsBehind, n
  <2> QED BY <1>2, <2>3
<1>15. \A i \in 1..m : s[i] \in ToSet(p)
  BY <1>8, LenProperties DEF ToSet
<1>16. Rising(q.got)
  <2> SUFFICES ASSUME NEW i \in 1..(n + m), NEW j \in 1..(n + m), i < j PROVE q.got[i].id < q.got[j].id
    BY <1>12 DEF Rising
  <2>1. CASE j <= n
    <3>1. i \in 1..n /\ j \in 1..n
      BY <1>6, <1>7, <2>1
    <3> QED BY <1>12, <1>13, <3>1 DEF Rising, n
  <2>2. CASE i <= n /\ j > n
    <3>1. i \in 1..n /\ j - n \in 1..m /\ n + (j - n) = j /\ n \in 1..n
      BY <1>6, <1>7, <2>2
    <3>2. q.got[i] = w.got[i] /\ q.got[j] = s[j - n]
      BY <1>12, <3>1
    <3>3. j - n \in 1..Len(s)
      BY <1>2, <1>7, <3>1
    <3>4. s[j - n] \in C /\ s[j - n] \in ListRows
      BY <1>5, <3>3
    <3>5. w.got # <<>>
      BY <1>6, <3>1, EmptySeq DEF n
    <3>6. w.got[n].id < s[j - n].id
      BY <3>4, <3>5 DEF C, RowsBehind, n
    <3>7. w.got[i].id \in Nat /\ w.got[n].id \in Nat /\ s[j - n].id \in Nat
      BY <1>4, <1>6, <3>1, <3>4
    <3>8. w.got[i].id <= w.got[n].id
      <4>1. CASE i = n
        BY <3>7, <4>1
      <4>2. CASE i < n
        <5>1. w.got[i].id < w.got[n].id
          BY <1>13, <3>1, <4>2 DEF Rising, n
        <5> QED BY <3>7, <5>1
      <4> QED BY <1>6, <3>1, <4>1, <4>2
    <3> QED BY <3>2, <3>6, <3>7, <3>8
  <2>3. CASE i > n
    <3>1. i - n \in 1..m /\ j - n \in 1..m /\ n + (i - n) = i /\ n + (j - n) = j /\ i - n < j - n /\ i - n # j - n
      BY <1>6, <1>7, <2>3
    <3>2. i - n \in 1..Len(s) /\ j - n \in 1..Len(s)
      <4>1. \A k \in 1..m : k \in 1..Len(s)
        BY <1>2, <1>7
      <4> QED BY <3>1, <4>1
    <3>3. q.got[i] = s[i - n] /\ q.got[j] = s[j - n]
      BY <1>12, <3>1
    <3>4. s[i - n].id <= s[j - n].id /\ s[i - n] # s[j - n]
      BY <1>2, <1>3, <3>1, <3>2
    <3>5. s[i - n] \in ListRows /\ s[j - n] \in ListRows
      BY <1>5, <3>2
    <3>6. s[i - n].id \in Nat /\ s[j - n].id \in Nat /\ s[i - n].id # s[j - n].id
      BY <1>4, <3>4, <3>5
    <3> QED BY <3>3, <3>4, <3>6
  <2> QED BY <1>6, <2>1, <2>2, <2>3
<1>17. ASSUME q.got # <<>>, NEW x \in q.lasting, x.id <= q.got[Len(q.got)].id PROVE x \in ToSet(q.got)
  <2>1. SUFFICES ASSUME x \notin ToSet(w.got) PROVE x \in ToSet(p)
    BY <1>12
  <2>2. x \in w.lasting
    BY <1>11
  <2>3. PICK i \in 1..Len(s) : s[i] = x
    BY <1>14, <2>1, <2>2
  <2>4. CASE i <= m
    <3>1. i \in 1..m
      BY <1>7, <2>4
    <3> QED BY <1>15, <2>3, <3>1
  <2>5. CASE i > m
    <3>1. m # 0
      BY <1>2, <1>6, <2>5 DEF m, Least
    <3>2. m \in 1..m /\ m \in 1..Len(s) /\ m < i
      BY <1>2, <1>7, <2>5, <3>1
    <3>3. q.got[Len(q.got)] = s[m]
      BY <1>12, <3>2
    <3>4. s[m].id <= s[i].id /\ s[m] # s[i]
      BY <1>2, <1>3, <3>2
    <3>5. s[m] \in ListRows /\ s[i] \in ListRows
      BY <1>5, <3>2
    <3>6. s[m].id \in Nat /\ s[i].id \in Nat /\ s[m].id # s[i].id
      BY <1>4, <3>4, <3>5
    <3>7. s[i].id <= s[m].id
      BY <1>17, <2>3, <3>3
    <3> QED BY <3>4, <3>6, <3>7
  <2> QED BY <1>7, <2>4, <2>5
<1>18. ASSUME q.pc = "over", NEW x \in q.lasting PROVE x \in ToSet(q.got)
  <2>1. SUFFICES ASSUME x \notin ToSet(w.got) PROVE x \in ToSet(p)
    BY <1>12
  <2>2. x \in w.lasting
    BY <1>11
  <2>3. PICK i \in 1..Len(s) : s[i] = x
    BY <1>14, <2>1, <2>2
  <2>4. ~(Len(s) > w.size)
    BY <1>11, <1>18
  <2>5. m = Len(s)
    BY <1>2, <1>6, <2>4 DEF m, Least
  <2> QED BY <1>15, <2>3, <2>5
<1>19. CursorOK(q)
  BY <1>16, <1>17, <1>18 DEF CursorOK
<1>20. PagesOK(q) /\ EntireOK(q)
  BY <1>11 DEF PagesOK, EntireOK
<1> QED BY <1>11, <1>19, <1>20 DEF WalkOK

------------------------------------------------------------------------------
LEMMA AwayIsNoWalk == \A w \in Walks : w # Away
BY DEF Walks, Away

LEMMA AskInv ==
  ASSUME ListingsInv, NEW l \in Listings, NEW f \in BOOLEAN, NEW size \in PageSizes, Ask(l, f, size)
  PROVE  ListingsInv'
<1> DEFINE S == Selected(l, f)
           w == [pc |-> "count", listing |-> l, filtered |-> f, size |-> size, page |-> 0, total |-> 0,
                 got |-> <<>>, edited |-> FALSE, failed |-> FALSE, lasting |-> S]
<1>1. table \in SUBSET ListRows /\ table' = table /\ walk' = w
  BY DEF Ask, ListingsInv
<1>2. S = Hits(table, l, f)
  BY SelectedHits, ListingsSound
<1>3. S \in SUBSET ListRows
  BY <1>1, <1>2, HitsFinite
<1> HIDE DEF S
<1>4. w.got = <<>> /\ w.got \in Seq(ListRows) /\ Len(w.got) = 0 /\ ToSet(w.got) = {}
  BY EmptySeq DEF ToSet
<1>5. w \in Walks
  <2>1. size \in Nat \ {0}
    BY ListingsAssumption
  <2> QED BY <1>3, <2>1 DEF Walks
<1>6. /\ w.pc = "count" /\ w.page = 0 /\ w.listing = l /\ w.filtered = f /\ w.lasting = S
  OBVIOUS
<1> HIDE DEF w
<1>7. LastingOK(table, w)
  BY <1>2, <1>4, <1>6 DEF LastingOK
<1>8. TotalOK(w) /\ PagesOK(w) /\ EntireOK(w)
  BY <1>4, <1>6 DEF TotalOK, PagesOK, EntireOK
<1>9. CursorOK(w)
  BY <1>4, <1>6 DEF CursorOK, Rising
<1> QED BY <1>1, <1>5, <1>7, <1>8, <1>9 DEF ListingsInv, WalkOK

\* The count, or the end, changes none of what the client has.
LEMMA SameRows ==
  ASSUME NEW T \in SUBSET ListRows, NEW w \in Walks, WalkOK(T, w), w.pc # "over",
         NEW pc \in {"fetch", "over"}, NEW total \in Nat, NEW failed \in BOOLEAN,
         NEW q, q = [w EXCEPT !.pc = pc, !.total = total, !.failed = failed],
         w.failed => failed, pc = "over" => failed,
         pc = "fetch" /\ ~failed /\ w.listing.count # "same" => total = Cardinality(Hits(T, w.listing, w.filtered))
  PROVE  q \in Walks /\ WalkOK(T, q)
<1>1. /\ q.pc = pc /\ q.total = total /\ q.failed = failed /\ q.page = w.page /\ q.got = w.got /\ q.size = w.size
      /\ q.listing = w.listing /\ q.filtered = w.filtered /\ q.edited = w.edited /\ q.lasting = w.lasting
      /\ q \in Walks
  BY DEF Walks
<1>2. LastingOK(T, q)
  BY <1>1 DEF WalkOK, LastingOK
<1>3. TotalOK(q)
  BY <1>1 DEF WalkOK, LastingOK, TotalOK
<1>4. CursorOK(q)
  BY <1>1 DEF WalkOK, CursorOK
<1>5. PagesOK(q)
  BY <1>1 DEF WalkOK, PagesOK
<1>6. EntireOK(q)
  BY <1>1 DEF WalkOK, EntireOK
<1> QED BY <1>1, <1>2, <1>3, <1>4, <1>5, <1>6 DEF WalkOK

LEMMA CountInv == ASSUME ListingsInv, CountRows PROVE ListingsInv'
<1> DEFINE S == Selected(walk.listing, walk.filtered)
<1>1. /\ table \in SUBSET ListRows /\ table' = table /\ walk.pc = "count"
      /\ walk \in Walks /\ WalkOK(table, walk)
  BY DEF CountRows, ListingsInv, Away
<1>2. walk.listing \in Listings /\ walk.listing.count \in {"ignored", "required", "same"} /\ walk.failed \in BOOLEAN
  BY <1>1, ListingsSound DEF Walks, Sound, ListingType
<1>3. S = Hits(table, walk.listing, walk.filtered) /\ Cardinality(S) \in Nat
  BY <1>1, <1>2, SelectedHits, ListingsSound, HitsFinite
<1>4. \E pc \in {"fetch", "over"}, total \in Nat, failed \in BOOLEAN :
        /\ walk' = [walk EXCEPT !.pc = pc, !.total = total, !.failed = failed]
        /\ walk.failed => failed
        /\ pc = "over" => failed
        /\ pc = "fetch" /\ ~failed /\ walk.listing.count # "same" => total = Cardinality(S)
  <2>1. CASE walk.listing.count = "same"
    BY <1>2, <2>1 DEF CountRows
  <2>2. CASE walk.listing.count = "ignored"
    <3>1. \/ walk' = [walk EXCEPT !.pc = "fetch", !.total = Cardinality(S), !.failed = @ \/ FALSE]
          \/ walk' = [walk EXCEPT !.pc = "fetch", !.total = 0, !.failed = @ \/ TRUE]
      BY <2>2 DEF CountRows
    <3> HIDE DEF S
    <3> QED BY <1>2, <1>3, <3>1
  <2>3. CASE walk.listing.count = "required"
    <3>1. \/ walk' = [walk EXCEPT !.pc = "fetch", !.total = Cardinality(S), !.failed = @ \/ FALSE]
          \/ walk' = [walk EXCEPT !.pc = "over", !.failed = @ \/ TRUE]
      BY <2>3 DEF CountRows, Over
    <3>2. [walk EXCEPT !.pc = "over", !.failed = @ \/ TRUE] = [walk EXCEPT !.pc = "over", !.total = walk.total, !.failed = TRUE]
      BY <1>1 DEF Walks
    <3>3. walk.total \in Nat
      BY <1>1 DEF Walks
    <3> HIDE DEF S
    <3> QED BY <1>2, <1>3, <3>1, <3>2, <3>3
  <2> QED BY <1>2, <2>1, <2>2, <2>3
<1>5. walk' \in Walks /\ WalkOK(table, walk')
  BY <1>1, <1>3, <1>4, SameRows
<1> QED BY <1>1, <1>5 DEF ListingsInv

LEMMA FetchInv == ASSUME ListingsInv, FetchPage PROVE ListingsInv'
<1> DEFINE S == Hits(table, walk.listing, walk.filtered)
           n == Cardinality(S)
<1>1. /\ table \in SUBSET ListRows /\ table' = table /\ walk.pc = "fetch"
      /\ walk \in Walks /\ WalkOK(table, walk)
  BY DEF FetchPage, ListingsInv, Away
<1>2. Selected(walk.listing, walk.filtered) = S
  BY <1>1, SelectedHits, ListingsSound DEF Walks
<1>3. walk' \in Walks /\ WalkOK(table, walk')
  <2>1. CASE OffsetPage
    <3> DEFINE total == IF walk.listing.count = "same" THEN n ELSE walk.total
               more == walk.page + 1 < TotalPages(total, walk.size)
               pc == IF more THEN "count" ELSE "over"
    <3>1. PICK s \in Ordered(walk.listing, S) :
            walk' = AfterAnswer(walk, Slice(s, walk.page * walk.size, walk.size), pc)
      BY <1>2, <2>1 DEF OffsetPage, Answered, AfterAnswer
    <3>2. pc \in {"count", "over"} /\ (pc = "over" => ~more)
      OBVIOUS
    <3> HIDE DEF pc
    <3> QED BY <1>1, <2>1, <3>1, <3>2, OffsetPageKeeps DEF OffsetPage
  <2>2. CASE CursorPage
    <3>1. RowsBehind(table, walk) = {x \in S : walk.got # <<>> => Last(walk.got).id < x.id}
      BY DEF RowsBehind, Last
    <3>2. PICK s \in Ordered(walk.listing, RowsBehind(table, walk)) :
            walk' = AfterAnswer(walk, Slice(s, 0, walk.size), IF Len(s) > walk.size THEN "count" ELSE "over")
      BY <1>2, <2>2, <3>1 DEF CursorPage, Answered, AfterAnswer
    <3> DEFINE pc == IF Len(s) > walk.size THEN "count" ELSE "over"
    <3>3. pc \in {"count", "over"} /\ (pc = "over" => ~(Len(s) > walk.size)) /\ walk' = AfterAnswer(walk, Slice(s, 0, walk.size), pc)
      BY <3>2
    <3> HIDE DEF pc
    <3> QED BY <1>1, <2>2, <3>2, <3>3, CursorPageKeeps DEF CursorPage
  <2>3. CASE WholeAnswer
    <3>1. PICK s \in Ordered(walk.listing, S) : walk' = AfterAnswer(walk, s, "over")
      BY <1>2, <2>3 DEF WholeAnswer, Answered, AfterAnswer
    <3> QED BY <1>1, <2>3, <3>1, WholeAnswerKeeps DEF WholeAnswer
  <2>4. CASE FirstPage
    <3>1. PICK s \in Ordered(walk.listing, S) : walk' = AfterAnswer(walk, Slice(s, 0, walk.size), "over")
      BY <1>2, <2>4 DEF FirstPage, Answered, AfterAnswer
    <3> QED BY <1>1, <2>4, <3>1, FirstPageKeeps DEF FirstPage
  <2>5. CASE walk' = Over(TRUE)
    <3>1. walk' = [walk EXCEPT !.pc = "over", !.total = walk.total, !.failed = TRUE] /\ walk.total \in Nat
      BY <1>1, <2>5 DEF Over, Walks
    <3> QED BY <1>1, <3>1, SameRows
  <2> QED BY <2>1, <2>2, <2>3, <2>4, <2>5 DEF FetchPage
<1> QED BY <1>1, <1>3 DEF ListingsInv

LEMMA EditInv == ASSUME ListingsInv, NEW x \in ListRows, EditTable(x) PROVE ListingsInv'
<1>1. table \in SUBSET ListRows /\ table' \in SUBSET ListRows /\ \A y \in ListRows : y # x => (y \in table <=> y \in table')
  BY DEF EditTable, ListingsInv
<1>2. CASE walk = Away
  BY <1>1, <1>2 DEF EditTable, ListingsInv
<1>3. CASE walk # Away
  <2> DEFINE w == walk
             q == [w EXCEPT !.edited = TRUE, !.lasting = @ \ {x}]
  <2>1. w \in Walks /\ WalkOK(table, w) /\ walk' = q
    BY <1>3 DEF ListingsInv, EditTable
  <2>2. /\ q.pc = w.pc /\ q.total = w.total /\ q.failed = w.failed /\ q.page = w.page /\ q.got = w.got /\ q.size = w.size
        /\ q.listing = w.listing /\ q.filtered = w.filtered /\ q.edited = TRUE /\ q.lasting = w.lasting \ {x}
        /\ q \in Walks
    BY <2>1 DEF Walks
  <2> HIDE DEF q, w
  <2>3. LastingOK(table', q)
    BY <1>1, <2>1, <2>2 DEF WalkOK, LastingOK, Hits
  <2>4. TotalOK(q) /\ PagesOK(q)
    BY <2>2 DEF TotalOK, PagesOK
  <2>5. CursorOK(q)
    BY <2>1, <2>2 DEF WalkOK, CursorOK
  <2>6. EntireOK(q)
    BY <2>1, <2>2 DEF WalkOK, EntireOK
  <2> QED BY <1>1, <2>1, <2>2, <2>3, <2>4, <2>5, <2>6 DEF ListingsInv, WalkOK
<1> QED BY <1>2, <1>3

LEMMA WalksAreRight == ListingsInv => WalksFindAll
<1> SUFFICES ASSUME ListingsInv, walk.pc = "over", ~walk.failed, walk.listing.paging # "first" PROVE WalksFindAll
  BY DEF WalksFindAll
<1> DEFINE l == walk.listing
           once == \A i, j \in DOMAIN walk.got : i < j => SortKey(l, walk.got[i]) <= SortKey(l, walk.got[j])
                                                        /\ walk.got[i] # walk.got[j]
<1>1. walk \in Walks /\ WalkOK(table, walk)
  BY DEF ListingsInv, Away
<1>2. Sound(l) /\ walk.got \in Seq(ListRows) /\ DOMAIN walk.got = 1..Len(walk.got) /\ walk.lasting \in SUBSET ListRows
  BY <1>1, ListingsSound, LenProperties DEF Walks
<1>3. ~walk.edited => ToSet(walk.got) \subseteq walk.lasting
  BY <1>1 DEF WalkOK, LastingOK
<1>4. ASSUME l.paging = "cursor" PROVE once /\ walk.lasting \subseteq ToSet(walk.got)
  <2>1. walk.lasting \subseteq ToSet(walk.got) /\ Rising(walk.got)
    BY <1>1, <1>4 DEF WalkOK, CursorOK
  <2>2. l.sort = "unique"
    BY <1>2, <1>4 DEF Sound
  <2>3. \A i \in 1..Len(walk.got) : walk.got[i].id \in Nat
    BY <1>2, ElementOfSeq, ListingsAssumption
  <2>4. ASSUME NEW i \in 1..Len(walk.got), NEW j \in 1..Len(walk.got), i < j
        PROVE  SortKey(l, walk.got[i]) <= SortKey(l, walk.got[j]) /\ walk.got[i] # walk.got[j]
    <3>1. walk.got[i].id < walk.got[j].id
      BY <2>1, <2>4 DEF Rising
    <3>2. walk.got[i].id \in Nat /\ walk.got[j].id \in Nat
      BY <2>3
    <3> QED BY <2>2, <3>1, <3>2 DEF SortKey
  <2> HIDE DEF l
  <2> QED BY <1>2, <2>1, <2>4
<1>5. ASSUME l.paging # "cursor", ~walk.edited, l.sort = "unique" \/ l.paging = "whole"
      PROVE  once /\ walk.lasting \subseteq ToSet(walk.got)
  <2>1. l.paging \in {"offset", "whole"}
    BY <1>2, <1>5 DEF Sound, ListingType
  <2>2. walk.got \in Ordered(l, walk.lasting)
    BY <1>1, <1>5, <2>1 DEF WalkOK, EntireOK
  <2>3. IsFiniteSet(walk.lasting)
    BY <1>2, ListingsAssumption, FS_Subset
  <2> HIDE DEF l
  <2>4. /\ \A i, j \in 1..Len(walk.got) : i # j => walk.got[i] # walk.got[j]
        /\ \A i, j \in 1..Len(walk.got) : i < j => SortKey(l, walk.got[i]) <= SortKey(l, walk.got[j])
        /\ ToSet(walk.got) = walk.lasting
    BY <2>2, <2>3, OrderedIsList
  <2>5. \A i, j \in 1..Len(walk.got) : i < j => i # j
    BY <1>2, LenProperties
  <2> QED BY <1>2, <2>4, <2>5
<1> HIDE DEF once
<1>6. WalksFindAll <=>
        /\ l.paging = "cursor" \/ (~walk.edited /\ (l.sort = "unique" \/ l.paging = "whole")) =>
             once /\ walk.lasting \subseteq ToSet(walk.got)
        /\ ~walk.edited => ToSet(walk.got) \subseteq walk.lasting
  BY DEF WalksFindAll, once
<1> QED BY <1>3, <1>4, <1>5, <1>6

\* The listings of the REST API: a walk that ends, with no statement failed, has every row
\* that matched once and in order, if nobody edited the table and the sort tells rows apart;
\* with a cursor (HandleList of the twins) it does so whatever is edited meanwhile.
THEOREM WalksAlwaysFindAll == ListingsSpec => []WalksFindAll
<1>1. ListingsInit => ListingsInv
  BY DEF ListingsInit, ListingsInv
<1>2. ListingsInv /\ [ListingsNext]_listVars => ListingsInv'
  <2> SUFFICES ASSUME ListingsInv, [ListingsNext]_listVars PROVE ListingsInv'
    OBVIOUS
  <2>1. CASE UNCHANGED listVars
    BY <2>1 DEF listVars, ListingsInv
  <2>2. CASE Forget
    BY <2>2 DEF Forget, ListingsInv
  <2> QED BY <2>1, <2>2, CountInv, FetchInv, EditInv, AskInv DEF ListingsNext
<1> QED BY <1>1, <1>2, WalksAreRight, PTL DEF ListingsSpec
=============================================================================
