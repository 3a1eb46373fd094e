--------------------------- MODULE KeyDictionary ---------------------------
(***************************************************************************)
(* The dictionary of telemetry and attribute keys (keydict.go): a table    *)
(* that gives each key its number, and a cache of it in every replica.     *)
(* The lock of the cache is held across the statements, so that a replica  *)
(* inserts one key at a time; replicas meet in the table.                  *)
(***************************************************************************)
EXTENDS Naturals, FiniteSets

CONSTANTS
  Processes,      \* replicas of the program
  DictKeys,
  Lookers,        \* goroutines that ask for a key
  ProcessOf,      \* the replica each runs in
  Unknown,        \* -1: no number
  MaxLookups      \* bound: the sequence of the table

\* -1 is no number of the sequence (it starts at 1).
ASSUME KeyAssumption ==
  /\ ProcessOf \in [Lookers -> Processes]
  /\ Unknown \notin Nat /\ Unknown \notin Lookers

VARIABLES
  dictionary,  \* table key_dictionary: the number of each key
  sequence,    \* numbers drawn; an insert that conflicts draws one too
  keyDict,     \* the cache of each replica
  holder,      \* who holds its lock
  look         \* [pc, key, id] of each goroutine

keyVars == <<dictionary, sequence, keyDict, holder, look>>

NoLook == [pc |-> "idle", key |-> Unknown, id |-> Unknown]
Cached(l) == keyDict[ProcessOf[l]][look[l].key]
Free(l) == holder[ProcessOf[l]] = Unknown

Answer(l, id) == look' = [look EXCEPT ![l] = [NoLook EXCEPT !.id = id]]
Proceed(l, pc) == look' = [look EXCEPT ![l].pc = pc]
Release(l) == holder' = [holder EXCEPT ![ProcessOf[l]] = Unknown]
Cache(l, id) == keyDict' = [keyDict EXCEPT ![ProcessOf[l]][look[l].key] = id]

\* LoadKeyDictionary at boot, or the query fails and the cache stays empty.
LoadKeyDictionary(p) ==
  /\ \A l \in Lookers : ProcessOf[l] = p => look[l].pc = "idle"
  /\ keyDict' = [keyDict EXCEPT ![p] = [k \in DictKeys |-> Unknown]]
     \/ keyDict' = [keyDict EXCEPT ![p] = dictionary]
  /\ UNCHANGED <<dictionary, sequence, holder, look>>

\* GetOrInsertKeyID: the look under the read lock.
GetOrInsertKeyID(l, k) ==
  /\ look[l].pc = "idle"
  /\ holder[ProcessOf[l]] = Unknown
  /\ LET id == keyDict[ProcessOf[l]][k]
     IN  look' = [look EXCEPT ![l] = IF id # Unknown THEN [NoLook EXCEPT !.id = id]
                                     ELSE [pc |-> "lock", key |-> k, id |-> Unknown]]
  /\ UNCHANGED <<dictionary, sequence, keyDict, holder>>

\* The write lock and the second look.
TakeLock(l) ==
  /\ look[l].pc = "lock" /\ Free(l)
  /\ IF Cached(l) # Unknown
       THEN Answer(l, Cached(l)) /\ UNCHANGED holder
       ELSE Proceed(l, "insert") /\ holder' = [holder EXCEPT ![ProcessOf[l]] = l]
  /\ UNCHANGED <<dictionary, sequence, keyDict>>

Fails(l) ==
  /\ look[l].pc \in {"insert", "select"}
  /\ Answer(l, Unknown) /\ Release(l)
  /\ UNCHANGED <<dictionary, sequence, keyDict>>

\* ON CONFLICT DO NOTHING RETURNING: the number, or no row.
TakesAnyNumber(l) ==
  /\ Answer(l, sequence + 1) /\ Cache(l, sequence + 1) /\ Release(l)
  /\ UNCHANGED dictionary
Conflicts(l) == Proceed(l, "select") /\ UNCHANGED <<dictionary, keyDict, holder>>
InsertKey(l) ==
  /\ look[l].pc = "insert" /\ sequence < MaxLookups
  /\ sequence' = sequence + 1
  /\ IF dictionary[look[l].key] # Unknown
       THEN Conflicts(l)
       ELSE /\ dictionary' = [dictionary EXCEPT ![look[l].key] = sequence + 1]
            /\ Answer(l, sequence + 1) /\ Cache(l, sequence + 1) /\ Release(l)

SelectKey(l) ==
  LET id == dictionary[look[l].key]
  IN  /\ look[l].pc = "select"
      /\ Answer(l, id) /\ Cache(l, id) /\ Release(l)
      /\ UNCHANGED <<dictionary, sequence>>

KeyInit ==
  /\ dictionary = [k \in DictKeys |-> Unknown] /\ sequence = 0
  /\ keyDict = [p \in Processes |-> [k \in DictKeys |-> Unknown]]
  /\ holder = [p \in Processes |-> Unknown]
  /\ look = [l \in Lookers |-> NoLook]

KeyNext ==
  \/ \E p \in Processes : LoadKeyDictionary(p)
  \/ \E l \in Lookers : TakeLock(l) \/ Fails(l) \/ InsertKey(l) \/ SelectKey(l)
  \/ \E l \in Lookers, k \in DictKeys : GetOrInsertKeyID(l, k)

KeySpec == KeyInit /\ [][KeyNext]_keyVars

-----------------------------------------------------------------------------
\* A key has one number in every replica, two keys never the same one, and it is
\* the number of the table: otherwise a value saved by one replica is read under
\* another name by the next.
KeysHaveOneNumber ==
  /\ \A p \in Processes, k \in DictKeys : keyDict[p][k] \in {Unknown, dictionary[k]}
  /\ \A j, k \in DictKeys : dictionary[j] = dictionary[k] /\ j # k => dictionary[j] = Unknown
=============================================================================
