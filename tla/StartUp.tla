------------------------------ MODULE StartUp ------------------------------
(***************************************************************************)
(* What a replica does to the database when it starts (postgres.go,        *)
(* migrations.go, bootstrap/): one goroutine migrates the schema, and when *)
(* it has ended, or ten seconds have passed, the replica serves and seeds  *)
(* the catalogues in the background.  Replicas start together, crash and   *)
(* start again.                                                            *)
(*                                                                         *)
(* A catalogue is the rows its loader seeds.  Migrations 5 and 6 delete    *)
(* SCADA symbols of an older shape, for the loader to seed them again;     *)
(* applied twice, the migrations change nothing more.                      *)
(***************************************************************************)
EXTENDS Naturals, Sequences, FiniteSets

CONSTANTS
  Starters,      \* replicas
  RowCount,      \* rows of a catalogue, in the order of its files
  LatestSchema,  \* the last migration; 2 stands for 5 and 6
  MaxMishaps,    \* bound: crashes, failed statements and timeouts
  Unlocked

ASSUME StartUpAssumption ==
  /\ RowCount \in Nat \ {0}
  /\ LatestSchema \in Nat /\ LatestSchema >= 2
  /\ MaxMishaps \in Nat
  /\ Unlocked \notin Starters

VARIABLES
  schema, dirty, \* schema_migrations; version 0 is no row
  migrator,      \* who holds the advisory lock of the migrations
  migration,     \* the goroutine of each start: read, force, lock, up, over
  startup,       \* [pc, todo, row, flawed]: the seeding of each start
  rows,          \* how many rows there are of each item of each catalogue
  outdated,      \* the SCADA symbols stored have the older shape
  mishaps

startUpVars == <<schema, dirty, migrator, migration, startup, rows, outdated, mishaps>>

\* LoadSystem, then LoadDemo: the order of the loaders.
LoadSystem == <<"widgets", "dashboards", "symbols", "symbolWidgets", "images", "templates", "demoDashboards">>
LoadDemo == <<"demo">>
Catalogues == {LoadSystem[i] : i \in DOMAIN LoadSystem} \cup {"demo"}

Items == 1..RowCount
Down == [pc |-> "down", todo |-> <<>>, row |-> 1, flawed |-> FALSE]
Mishap == mishaps < MaxMishaps /\ mishaps' = mishaps + 1

-----------------------------------------------------------------------------
(* Migrations.                                                             *)

\* The version is read without the lock; hasBootstrappedSchema says no when its
\* query fails, and then Up starts from the empty baseline.
ReadVersion(p) ==
  /\ migration[p] = "read"
  /\ \E bootstrapped \in BOOLEAN :
       migration' = [migration EXCEPT ![p] = IF schema = 0 /\ bootstrapped THEN "force" ELSE "lock"]
  /\ UNCHANGED <<schema, dirty, migrator, startup, rows, outdated, mishaps>>

\* Force(1), also over what another start has migrated in between.
ForceBaseline(p) ==
  /\ migration[p] = "force" /\ migrator = Unlocked
  /\ schema' = 1 /\ dirty' = FALSE
  /\ migration' = [migration EXCEPT ![p] = "lock"]
  /\ UNCHANGED <<migrator, startup, rows, outdated, mishaps>>

\* Up refuses a dirty schema: an error that the start only logs.
LockForUp(p) ==
  /\ migration[p] = "lock" /\ migrator = Unlocked
  /\ migrator' = IF dirty THEN Unlocked ELSE p
  /\ migration' = [migration EXCEPT ![p] = IF dirty THEN "over" ELSE "up"]
  /\ UNCHANGED <<schema, dirty, startup, rows, outdated, mishaps>>

ClearsSymbols == schema + 1 = 2 /\ outdated

Up(p) ==
  /\ migration[p] = "up"
  /\ schema' = IF schema < LatestSchema THEN schema + 1 ELSE schema
  /\ rows' = IF ClearsSymbols THEN [rows EXCEPT !["symbols"] = [i \in Items |-> 0]] ELSE rows
  /\ outdated' = (outdated /\ ~ClearsSymbols)
  /\ migrator' = IF schema = LatestSchema THEN Unlocked ELSE migrator
  /\ migration' = IF schema = LatestSchema THEN [migration EXCEPT ![p] = "over"] ELSE migration
  /\ UNCHANGED <<dirty, startup, mishaps>>

\* runMigrationsWithStartupTimeout: the start goes on after the migrations or
\* without them, and then they go on in the background.
Serve(p) ==
  /\ startup[p].pc = "migrating"
  /\ IF migration[p] = "over" THEN UNCHANGED mishaps ELSE Mishap
  /\ startup' = [startup EXCEPT ![p] = [pc |-> "probe", todo |-> LoadSystem \o LoadDemo, row |-> 1,
                                        flawed |-> migration[p] # "over" \/ dirty]]
  /\ UNCHANGED <<schema, dirty, migrator, migration, rows, outdated>>

-----------------------------------------------------------------------------
(* Loaders.  Each reads its files and logs what fails.                     *)

Turn(p, catalogue, pc) == startup[p].pc = pc /\ Head(startup[p].todo) = catalogue
Goto(p, pc) == startup' = [startup EXCEPT ![p].pc = pc]
Filled(catalogue) == \E i \in Items : rows[catalogue][i] > 0

\* p goes on with the next loader, or has seeded everything.
NextLoader(s, flaw) ==
  [pc |-> IF Len(s.todo) = 1 THEN "seeded" ELSE "probe", todo |-> Tail(s.todo), row |-> 1,
   flawed |-> s.flawed \/ flaw]
LoaderEnds(p, flaw) == startup' = [startup EXCEPT ![p] = NextLoader(@, flaw)]

\* p goes on with the next row of its loader.
NextRow(s, flaw) ==
  IF s.row = RowCount THEN NextLoader(s, flaw)
  ELSE [pc |-> "row", todo |-> s.todo, row |-> s.row + 1, flawed |-> s.flawed \/ flaw]
RowEnds(p, flaw) == startup' = [startup EXCEPT ![p] = NextRow(@, flaw)]

\* A loader that skips what has rows already.
SkipsFilled(p, catalogue, pc) ==
  /\ Turn(p, catalogue, "probe")
  /\ IF Filled(catalogue) THEN LoaderEnds(p, FALSE) ELSE Goto(p, pc)
  /\ UNCHANGED <<rows, outdated, mishaps>>

\* The inserts of a transaction wait for those of another one on the same keys.
InsertsAll(p, catalogue) ==
  /\ Turn(p, catalogue, "insert")
  /\ \A q \in Starters : ~Turn(q, catalogue, "commit")
  /\ Goto(p, "commit")
  /\ UNCHANGED <<rows, outdated, mishaps>>

\* The commit, which may fail, and then nothing is stored.
Commits(p, catalogue, stored) ==
  /\ Turn(p, catalogue, "commit")
  /\ \/ LoaderEnds(p, FALSE) /\ rows' = [rows EXCEPT ![catalogue] = stored] /\ UNCHANGED mishaps
     \/ LoaderEnds(p, TRUE) /\ Mishap /\ UNCHANGED rows
  /\ outdated' = (outdated /\ (catalogue = "symbols" => rows' = rows))

\* What ON CONFLICT DO NOTHING leaves.
Completed(catalogue) == [i \in Items |-> IF rows[catalogue][i] = 0 THEN 1 ELSE rows[catalogue][i]]

\* The links name ids of this transaction: where the rows are another's, they
\* violate their foreign key, the transaction is aborted, and stores nothing.
Linked(catalogue) == IF Filled(catalogue) THEN rows[catalogue] ELSE Completed(catalogue)

\* A row in a statement of its own.
RowWritten(p, catalogue, count) ==
  /\ \/ RowEnds(p, FALSE) /\ rows' = [rows EXCEPT ![catalogue][startup[p].row] = count] /\ UNCHANGED mishaps
     \/ RowEnds(p, TRUE) /\ Mishap /\ UNCHANGED rows
  /\ UNCHANGED outdated

\* A dashboard is looked up by its title and then inserted, or it is there: no
\* constraint keeps titles apart.
ByTitle(p, catalogue) ==
  \/ Turn(p, catalogue, "probe") /\ Goto(p, "row") /\ UNCHANGED <<rows, outdated, mishaps>>
  \/ /\ Turn(p, catalogue, "row")
     /\ IF rows[catalogue][startup[p].row] = 0 THEN Goto(p, "absent") ELSE RowEnds(p, FALSE)
     /\ UNCHANGED <<rows, outdated, mishaps>>
  \/ Turn(p, catalogue, "absent") /\ RowWritten(p, catalogue, rows[catalogue][startup[p].row] + 1)

\* Without a transaction, which the code must not do.
WidgetsRowByRow(p) ==
  \/ SkipsFilled(p, "widgets", "row")
  \/ Turn(p, "widgets", "row") /\ RowWritten(p, "widgets", 1)
loadSystemWidgets(p) ==
  \/ SkipsFilled(p, "widgets", "insert")
  \/ InsertsAll(p, "widgets")
  \/ Commits(p, "widgets", Linked("widgets"))

loadSystemDashboards(p) == ByTitle(p, "dashboards")

loadScadaSymbols(p) ==
  \/ SkipsFilled(p, "symbols", "insert")
  \/ InsertsAll(p, "symbols")
  \/ Commits(p, "symbols", Completed("symbols"))

\* The widget of a symbol is cloned from a template among the system widgets.
loadScadaSymbolWidgets(p) ==
  \/ Filled("widgets") /\ SkipsFilled(p, "symbolWidgets", "insert")
  \/ /\ Turn(p, "symbolWidgets", "probe") /\ ~Filled("widgets")
     /\ LoaderEnds(p, FALSE)
     /\ UNCHANGED <<rows, outdated, mishaps>>
  \/ InsertsAll(p, "symbolWidgets")
  \/ Commits(p, "symbolWidgets", Linked("symbolWidgets"))

\* The images are inserted in the order in which Go walks a map, another one in
\* each process: two transactions may wait for each other, and Postgres aborts one.
AbortedByDeadlock(p, catalogue) ==
  /\ Turn(p, catalogue, "insert")
  /\ \E q \in Starters : Turn(q, catalogue, "commit")
  /\ LoaderEnds(p, TRUE)
  /\ UNCHANGED <<rows, outdated, mishaps>>

\* At every start, for images that are new.
loadSystemImages(p) ==
  \/ Turn(p, "images", "probe") /\ Goto(p, "insert") /\ UNCHANGED <<rows, outdated, mishaps>>
  \/ InsertsAll(p, "images") \/ AbortedByDeadlock(p, "images")
  \/ Commits(p, "images", Completed("images"))

\* Skipped when it has rows, yet written row by row.
loadOAuth2Templates(p) ==
  \/ SkipsFilled(p, "templates", "row")
  \/ Turn(p, "templates", "row") /\ RowWritten(p, "templates", 1)

\* A dashboard that is found is overwritten with the one of the file.
loadDemoDashboards(p) == ByTitle(p, "demoDashboards")

\* Every row is written at every start, so that a partial seed is completed.
seedDemo(p) ==
  \/ Turn(p, "demo", "probe") /\ Goto(p, "row") /\ UNCHANGED <<rows, outdated, mishaps>>
  \/ Turn(p, "demo", "row") /\ RowWritten(p, "demo", 1)

Load(p) ==
  /\ \/ loadSystemWidgets(p) \/ loadSystemDashboards(p) \/ loadScadaSymbols(p) \/ loadScadaSymbolWidgets(p)
     \/ loadSystemImages(p) \/ loadOAuth2Templates(p) \/ loadDemoDashboards(p) \/ seedDemo(p)
  /\ UNCHANGED <<schema, dirty, migrator, migration>>

-----------------------------------------------------------------------------
\* Migrations and loaders end with the process; its lock and its transaction go
\* with the connection, and a migration that was under way leaves the schema dirty.
Crash(p) ==
  /\ startup[p].pc # "down" /\ Mishap
  /\ startup' = [startup EXCEPT ![p] = Down]
  /\ migration' = [migration EXCEPT ![p] = "over"]
  /\ migrator' = IF migrator = p THEN Unlocked ELSE migrator
  /\ \/ UNCHANGED <<schema, dirty>>
     \/ migrator = p /\ schema < LatestSchema /\ schema' = schema + 1 /\ dirty' = TRUE
  /\ UNCHANGED <<rows, outdated>>

Start(p) ==
  /\ startup[p].pc = "down"
  /\ startup' = [startup EXCEPT ![p].pc = "migrating"]
  /\ migration' = [migration EXCEPT ![p] = "read"]
  /\ UNCHANGED <<schema, dirty, migrator, rows, outdated, mishaps>>

\* A new installation, and one whose symbols an older version has seeded.
StartUpInit ==
  /\ \/ schema = 0 /\ rows = [c \in Catalogues |-> [i \in Items |-> 0]]
     \/ schema = 1 /\ rows = [c \in Catalogues |-> [i \in Items |-> IF c = "symbols" THEN 1 ELSE 0]]
  /\ outdated = (schema = 1) /\ dirty = FALSE /\ migrator = Unlocked /\ mishaps = 0
  /\ migration = [p \in Starters |-> "over"]
  /\ startup = [p \in Starters |-> Down]

StartUpNext ==
  \E p \in Starters :
    \/ ReadVersion(p) \/ ForceBaseline(p) \/ LockForUp(p) \/ Up(p)
    \/ Serve(p) \/ Load(p) \/ Crash(p) \/ Start(p)

StartUpSpec == StartUpInit /\ [][StartUpNext]_startUpVars

-----------------------------------------------------------------------------
\* However many replicas start at once and whichever of them crash, a start that
\* migrated in time and met no failed statement or deadlock leaves every catalogue whole, the
\* OAuth2 templates aside, and the SCADA symbols in their present shape; what is
\* seeded in a transaction is there once.
SeedsWhole ==
  \A p \in Starters : startup[p].pc = "seeded" /\ ~startup[p].flawed =>
    /\ \A c \in Catalogues \ {"templates"}, i \in Items : rows[c][i] > 0
    /\ \A c \in {"widgets", "symbols", "symbolWidgets", "images"}, i \in Items : rows[c][i] = 1
    /\ ~outdated
=============================================================================
