------------------------------ MODULE AuditLog ------------------------------
(***************************************************************************)
(* The audit log (audit.go): a bounded queue that never makes a request    *)
(* wait, one writer that drains it, and the monthly partitions of the      *)
(* table, made ahead and dropped after the retention by a daily sweep.     *)
(*                                                                         *)
(* Time is a number of days.  The table has a DEFAULT partition, which     *)
(* takes the rows of a month that has none; Postgres then refuses to       *)
(* create that month.  Rows of one month and partition are alike, so only  *)
(* the days of the rows are kept.                                          *)
(***************************************************************************)
EXTENDS Naturals, Sequences, FiniteSets

CONSTANTS
  MonthLengths,    \* the calendar: the number of days of each month
  FirstDays,       \* days on which the process may be started first
  QueueSize,       \* AUDIT_LOG_QUEUE_SIZE
  RetentionDays,
  MaxEvents, MaxDay \* bounds

ASSUME AuditAssumption ==
  /\ MonthLengths \in Seq(Nat \ {0}) /\ QueueSize \in Nat /\ RetentionDays \in Nat \ {0}
  /\ FirstDays \subseteq 1..MaxDay /\ MaxDay \in Nat

VARIABLES
  day,         \* the wall clock
  swept,       \* the day of the last sweep, 0 before the first
  running,     \* is the process up
  partitions,  \* months that have a partition
  logged,        \* rows in the table: [event, day, in], in a month or Default
  queue,       \* events waiting for the writer
  drops,       \* the counter of dropped events
  insertsFailed, \* inserts that failed, which are logged
  accepted,    \* events passed to Write
  gone         \* events lost with an expired partition or a stopped process (history)

auditVars == <<day, swept, running, partitions, logged, queue, drops, insertsFailed, accepted, gone>>

-----------------------------------------------------------------------------
(* The calendar.                                                           *)

Months == 1..Len(MonthLengths)
Default == 0
\* The number of days before each month.
DaysBefore[m \in Months] == IF m = 1 THEN 0 ELSE DaysBefore[m - 1] + MonthLengths[m - 1]
MonthOf(d) == CHOOSE m \in Months : DaysBefore[m] < d /\ d <= DaysBefore[m] + MonthLengths[m]
\* time.AddDate(0, i, 0): the same day of a later month, where a day that month
\* does not have runs on into the next one.
AddMonths(d, i) == LET m == MonthOf(d) IN DaysBefore[m + i] + (d - DaysBefore[m])

\* The calendar goes on for two months after the last day.
ASSUME CalendarAssumption ==
  Len(MonthLengths) > 2 /\ MaxDay <= DaysBefore[Len(MonthLengths) - 1]

-----------------------------------------------------------------------------
(* Partitions.                                                             *)

Waiting(m) == \E x \in logged : x.in = Default /\ MonthOf(x.day) = m
\* createMonthPartition: IF NOT EXISTS, and refused for rows in the default one.
Creatable(ms) == {m \in ms : m \in partitions \/ ~Waiting(m)}

\* The months of the loop, of which the database answers n statements: the first
\* that fails ends the sweep.
ToCreate == [i \in 0..2 |-> MonthOf(AddMonths(day, i))]
Refused == LET creatable == Creatable(Months) IN {i \in 0..2 : ToCreate[i] \notin creatable}
Made(n) == LET refused == Refused IN {ToCreate[i] : i \in {j \in 0..2 : j < n /\ \A k \in refused : j < k}}

\* A partition goes when its upper bound is before the cutoff.
ExpiredByStart(ms) == {m \in ms : DaysBefore[m] + 1 < day - RetentionDays}
Expired(ms) == {m \in ms : DaysBefore[m] + MonthLengths[m] + 1 < day - RetentionDays}

\* EnsurePartitions at boot and every day.  After the three months the expired ones
\* are dropped, each by a statement whose failure is only logged: kept are those of
\* them it did not drop, all of them when they cannot be listed.
EnsurePartitions(n, kept) ==
  LET whole == n = 3 /\ Refused = {}
      after == partitions \cup Made(n)
      old   == IF whole THEN Expired(after) \ kept ELSE {}
  IN  /\ partitions' = after \ old
      /\ logged' = {x \in logged : x.in \notin old}

Sweep ==
  /\ running /\ swept # day
  /\ \E n \in 0..3, kept \in SUBSET Expired(partitions) : EnsurePartitions(n, kept)
  /\ swept' = day
  /\ gone' = gone + Cardinality(logged) - Cardinality(logged')
  /\ UNCHANGED <<day, running, queue, drops, insertsFailed, accepted>>

NextDay ==
  /\ day < MaxDay
  /\ running => swept = day
  /\ day' = day + 1
  /\ UNCHANGED <<swept, running, partitions, logged, queue, drops, insertsFailed, accepted, gone>>

-----------------------------------------------------------------------------
(* Events.                                                                 *)

\* doWrite: the row gets the time of the insert; an error is logged.
DoWrite(e) ==
  LET m == MonthOf(day)
  IN  \/ /\ logged' = logged \cup {[event |-> e, day |-> day, in |-> IF m \in partitions THEN m ELSE Default]}
         /\ UNCHANGED insertsFailed
      \/ /\ insertsFailed' = insertsFailed + 1
         /\ UNCHANGED logged

\* Write: written at once without a queue, else queued, or dropped and counted.
Write ==
  /\ running /\ swept # 0 /\ accepted < MaxEvents
  /\ accepted' = accepted + 1
  /\ IF QueueSize = 0
       THEN DoWrite(accepted') /\ UNCHANGED <<queue, drops>>
       ELSE /\ IF Len(queue) < QueueSize
                 THEN queue' = Append(queue, accepted') /\ UNCHANGED drops
                 ELSE drops' = drops + 1 /\ UNCHANGED queue
            /\ UNCHANGED <<logged, insertsFailed>>
  /\ UNCHANGED <<day, swept, running, partitions, gone>>

WriterTakes ==
  /\ running /\ queue # <<>>
  /\ DoWrite(Head(queue))
  /\ queue' = Tail(queue)
  /\ UNCHANGED <<day, swept, running, partitions, drops, accepted, gone>>

\* The process stops, with what is in its queue, and starts with a sweep.
Stop ==
  /\ running
  /\ running' = FALSE /\ queue' = <<>> /\ gone' = gone + Len(queue)
  /\ UNCHANGED <<day, swept, partitions, logged, drops, insertsFailed, accepted>>
Restart ==
  /\ ~running
  /\ running' = TRUE /\ swept' = 0
  /\ UNCHANGED <<day, partitions, logged, queue, drops, insertsFailed, accepted, gone>>

-----------------------------------------------------------------------------
AuditInit ==
  /\ day \in FirstDays
  /\ swept = 0 /\ running = TRUE
  /\ partitions = {} /\ logged = {} /\ queue = <<>>
  /\ drops = 0 /\ insertsFailed = 0 /\ accepted = 0 /\ gone = 0

AuditNext == Sweep \/ NextDay \/ Write \/ WriterTakes \/ Stop \/ Restart

AuditSpec == AuditInit /\ [][AuditNext]_auditVars

-----------------------------------------------------------------------------
\* Every event that Write took is in the table, in the queue, counted as dropped or
\* logged as failed, or went with its partition or its process; and the times of
\* the rows follow the order of the events.
EventsAccountedFor ==
  /\ Cardinality(logged) + Len(queue) + drops + insertsFailed + gone = accepted
  /\ \A x, y \in logged : x.event < y.event => x.day <= y.day

\* A sweep that leaves all it meant to create has partitions "covering current + next
\* 2 months" (audit.go), but for a month that does not have today's day: on the last
\* days of a long month AddDate runs past a short one.
CoversMonths ==
  LET m == MonthOf(day)
      reached == {i \in 0..2 : day - DaysBefore[m] <= MonthLengths[m + i]}
  IN  (\A i \in 0..2 : ToCreate[i] \in partitions') => \A i \in reached : m + i \in partitions'

\* However requests, the writer, restarts and the daily sweep interleave: no event
\* is lost unaccounted, the sweep drops no row within the retention, and it covers
\* this month and those ahead that have its day.
AuditTrail ==
  [][/\ EventsAccountedFor'
     /\ \A x \in logged \ logged' : x.day < day - RetentionDays
     /\ swept' # swept => CoversMonths]_auditVars
=============================================================================
