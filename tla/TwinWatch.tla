----------------------------- MODULE TwinWatch -----------------------------
(***************************************************************************)
(* From the twin document to a live WebSocket session.                     *)
(*                                                                         *)
(* Each flow-core replica watches the KV bucket (internal/twinstore/nats.go *)
(* Watch) and pushes what changed between the document it saw last and the *)
(* one delivered (twin_state.go).  A session subscribes to the entity, is  *)
(* sent the attributes Postgres holds, and from then on receives the       *)
(* pushes (internal/ws/ws.go).  The journal event of an attribute save is  *)
(* a second push of the same values (internal/ws/journal.go).              *)
(*                                                                         *)
(* The bucket keeps one revision per key: a watcher that lags is delivered *)
(* the current document and not the ones in between, and a new watcher     *)
(* starts with the current one.  One replica, one session and the entity   *)
(* of TwinStore; what other entities do to the replica's map of last       *)
(* documents is Forget.                                                    *)
(***************************************************************************)
EXTENDS TwinStore

CONSTANTS
  WatchFaults,  \* which faults hit the watch and the journal
  MaxPending    \* bound of the changes channel (32 in the code)

AllWatchFaults == {"watchCloses", "forget", "journalGap", "readError"}

ASSUME WatchAssumption ==
  /\ WatchFaults \subseteq AllWatchFaults
  /\ MaxPending \in Nat \ {0}

VARIABLES
  up,       \* the KV watcher is subscribed
  seen,     \* revision it delivered last, 0 after a subscribe
  changes,  \* the changes channel: documents not yet compared
  last,     \* last[entity]: the diff base, per key
  sub,      \* the session: "none", "registered", "read", "sent",
            \* or "unread": its initial payload never comes
  snapshot, \* attribute values its initial payload carries
  watched,  \* per key, the value the watch last pushed to the session
  view,     \* per attribute, the value either channel last pushed to it
  heard     \* per saver, what became of its journal event here

watchVars == <<up, seen, changes, last, sub, snapshot, watched, view, heard>>
liveVars == <<vars, watchVars>>

WatchFault(kind) == /\ kind \in WatchFaults
                    /\ faults < MaxFaults
                    /\ faults' = faults + 1
                    /\ UNCHANGED <<clock, pg, doc, rev, req, journal, stream, acked, sink>>

NoBase == Empty.values

LiveInit ==
  /\ Init
  /\ up = TRUE /\ seen = 0 /\ changes = <<>> /\ last = NoBase
  /\ sub = "none"
  /\ snapshot = [k \in AttrKeys |-> Absent]
  /\ watched = [k \in Keys |-> Absent]
  /\ view = [k \in AttrKeys |-> Absent]
  /\ heard = [w \in Savers |-> "no"]

------------------------------------------------------------------------------
(* The watch.                                                              *)

Present(d) == {k \in Keys : d.values[k].val # Absent}

ChangedIfNewerTs(d) == {k \in Present(d) : last[k].ts < d.values[k].ts} \* mutant

(* changedTelemetry, changedAttributes: new, or another (ts, value).       *)
Changed(d) == {k \in Present(d) : last[k] # d.values[k]}

(* mergeLastState: keys the document does not have keep their old entry.   *)
Folded(d) == [k \in Keys |-> IF k \in Present(d) THEN d.values[k] ELSE last[k]]

RegisteredAfterSend == sub = "sent"                               \* mutant
Registered == sub # "none"

Deliver ==
  /\ up /\ seen < rev /\ Len(changes) < MaxPending
  /\ changes' = Append(changes, doc)
  /\ seen' = rev
  /\ UNCHANGED <<vars, up, last, sub, snapshot, watched, view, heard>>

(* One iteration of watchTwinStateChanges: diff, fold, broadcast.          *)
ApplyTwinChange ==
  /\ changes # <<>>
  /\ LET d == Head(changes)
         pushed == IF Registered THEN Changed(d) ELSE {}
     IN  /\ watched' = [k \in Keys |-> IF k \in pushed THEN d.values[k].val ELSE watched[k]]
         /\ view' = [k \in AttrKeys |-> IF k \in pushed THEN d.values[k].val ELSE view[k]]
         /\ last' = Folded(d)
  /\ changes' = Tail(changes)
  /\ UNCHANGED <<vars, up, seen, sub, snapshot, heard>>

(* The consumer dies; what the channel holds is still read before the loop *)
(* notices and subscribes again.                                           *)
WatchCloses ==
  /\ up /\ up' = FALSE
  /\ WatchFault("watchCloses")
  /\ UNCHANGED <<seen, changes, last, sub, snapshot, watched, view, heard>>

Resubscribe ==
  /\ ~up /\ changes = <<>>
  /\ up' = TRUE /\ seen' = 0
  /\ UNCHANGED <<vars, changes, last, sub, snapshot, watched, view, heard>>

(* boundLastStates evicts this entity while it folds another one's change. *)
Forget ==
  /\ last # NoBase /\ last' = NoBase
  /\ WatchFault("forget")
  /\ UNCHANGED <<up, seen, changes, sub, snapshot, watched, view, heard>>

------------------------------------------------------------------------------
(* The session.                                                            *)

Subscribe ==
  /\ sub = "none" /\ sub' = "registered"
  /\ UNCHANGED <<vars, up, seen, changes, last, snapshot, watched, view, heard>>

(* sendInitialAttributes, in a goroutine of its own: read, then write.     *)
ReadAttributes ==
  /\ sub = "registered" /\ sub' = "read"
  /\ snapshot' = pg
  /\ UNCHANGED <<vars, up, seen, changes, last, watched, view, heard>>

(* The query fails: the goroutine logs it and ends, the session gets no    *)
(* initial payload and stays subscribed.                                   *)
ReadAttributesFails ==
  /\ sub = "registered" /\ sub' = "unread"
  /\ WatchFault("readError")
  /\ UNCHANGED <<up, seen, changes, last, snapshot, watched, view, heard>>

SendInitialAttributes ==
  /\ sub = "read" /\ sub' = "sent"
  /\ UNCHANGED <<vars, up, seen, changes, last, snapshot, watched, view, heard>>

(* routeJournalEvent.  Events of different replicas, or of requests that   *)
(* overlap, arrive in any order.                                           *)
RouteJournalEvent(w) ==
  /\ w \in journal /\ heard[w] = "no"
  /\ heard' = [heard EXCEPT ![w] = "yes"]
  /\ view' = [k \in AttrKeys |-> IF Registered /\ k \in req[w].keys THEN w ELSE view[k]]
  /\ UNCHANGED <<vars, up, seen, changes, last, sub, snapshot, watched>>

(* The subscription is down when the event passes: core NATS keeps none.   *)
JournalGap(w) ==
  /\ w \in journal /\ heard[w] = "no"
  /\ WatchFault("journalGap")
  /\ heard' = [heard EXCEPT ![w] = "lost"]
  /\ UNCHANGED <<up, seen, changes, last, sub, snapshot, watched, view>>

------------------------------------------------------------------------------
WatchStep == Deliver \/ ApplyTwinChange \/ Resubscribe
SnapshotStep == ReadAttributes \/ SendInitialAttributes

LiveNext ==
  \/ Next /\ UNCHANGED watchVars
  \/ WatchStep \/ WatchCloses \/ Forget
  \/ Subscribe \/ SnapshotStep \/ ReadAttributesFails
  \/ \E w \in Savers : RouteJournalEvent(w) \/ JournalGap(w)

LiveSpec == LiveInit /\ [][LiveNext]_liveVars

(* The watch loop, the snapshot goroutine and the journal's callback run   *)
(* whenever they can; clients and faults owe nothing.                      *)
LiveFairness ==
  /\ \A w \in Writers : WF_liveVars(RequestStep(w) /\ UNCHANGED watchVars)
  /\ WF_liveVars(SinkStep /\ UNCHANGED watchVars)
  /\ WF_liveVars(Deliver) /\ WF_liveVars(ApplyTwinChange) /\ WF_liveVars(Resubscribe)
  /\ WF_liveVars(SnapshotStep)
  /\ \A w \in Savers : WF_liveVars(RouteJournalEvent(w))

FairLiveSpec == LiveSpec /\ LiveFairness

------------------------------------------------------------------------------
(* Properties.                                                             *)
WatchIdle == up /\ seen = rev /\ changes = <<>>

(* The subscription is registered before the initial payload is read, so   *)
(* nothing falls between the two: once the watch has caught up, the value  *)
(* both stores hold for an attribute was in the initial payload or is the  *)
(* last one pushed.                                                        *)
NothingMissed ==
  (WatchIdle /\ sub = "sent") => \A k \in AttrKeys :
    (pg[k] # Absent /\ doc.values[k].val = pg[k]) =>
      pg[k] \in {snapshot[k], watched[k]}

(* Whatever revisions the watch skips, wherever it is cut off and whatever *)
(* it forgets, the last value it pushed for a key becomes and stays the    *)
(* one in the document ("worst case a change missed during the gap         *)
(* re-broadcasts once", twin_state.go).                                    *)
ViewConverges ==
  <>[](\A k \in Keys : (watched[k] # Absent /\ k \in Present(doc)) =>
         watched[k] = doc.values[k].val)

(* A session subscribed while a save is under way is shown the saved       *)
(* value, also when the merge into the document gave up: then the journal  *)
(* is the only channel that carries it.                                    *)
EverySaveIsShown ==
  \A w \in Savers, k \in AttrKeys :
    (Registered /\ req[w].pc = "save" /\ k \in req[w].keys)
      ~> \/ view[k] = w
         \/ req[w].pc \in {"rejected", "crashed"}
         \/ heard[w] = "lost"

(* And every request ends, and every sample is acknowledged, beside it.    *)
SavesAreShown == EverySaveIsShown /\ WorkEnds
=============================================================================
