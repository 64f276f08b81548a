------------------------------- MODULE InitDb -------------------------------
(***************************************************************************)
(* scripts/init_db.py: the script that creates the role and the database,  *)
(* migrates the schema (alembic) and applies the seeds, one psql after     *)
(* another.  It may be interrupted between any two of them, and it is run  *)
(* again, with other options, on the same day or on another.               *)
(***************************************************************************)
EXTENDS Naturals, FiniteSets

CONSTANTS MaxDay, MaxBins   \* bounds: the days that pass, the copies of the bins

ASSUME InitDbAssumption == MaxDay \in Nat \ {0} /\ MaxBins \in Nat

Seed == {"factors", "bins", "vehicles"}

VARIABLES
  db,     \* the database server: what psql and alembic have committed
  day,    \* the date, which is the default of valid_from
  files,  \* the seeds that are there
  args,   \* the options of the current run of the script
  pc      \* where it is, or how it ended

vars == <<db, day, files, args, pc>>

\* A database without a table.  Factors are unique by pair and day, so that the
\* days they were seeded on are all there is to know; bins are not unique;
\* vehicles are, by plate, and refer to a factor or to none.
Empty == [exists |-> TRUE, postgis |-> FALSE, migrated |-> FALSE,
          factors |-> {}, bins |-> 0, vehicles |-> "none"]
Absent == [Empty EXCEPT !.exists = FALSE]

Ended == {"ok", "refused", "interrupted"}

Init ==
  /\ db \in [server : {Absent, Empty, [Empty EXCEPT !.postgis = TRUE]}, role : BOOLEAN]
  /\ day = 1
  /\ files \in {Seed, Seed \ {"factors"}, Seed \ {"bins"}}
  /\ args = [reset |-> FALSE, skipCreate |-> FALSE, skipSeeds |-> FALSE]
  /\ pc = "interrupted"

Sets(server) == db' = [db EXCEPT !.server = server]
Goto(place) == pc' = place /\ UNCHANGED <<day, files, args>>

Start ==
  /\ pc \in Ended
  /\ args' \in [reset : BOOLEAN, skipCreate : BOOLEAN, skipSeeds : BOOLEAN]
  /\ pc' = IF args'.skipCreate THEN "migrate" ELSE "role"
  /\ UNCHANGED <<db, day, files>>

\* The role is created, or there already; the password of one that was there,
\* which may be another than the URL's, and who owns the database are left out.
EnsureRole ==
  /\ pc = "role"
  /\ db' = [db EXCEPT !.role = TRUE]
  /\ Goto(IF args.reset THEN "drop" ELSE "create")

\* Mutant: a database that exists is left as it is.
DropNever == pc = "drop" /\ UNCHANGED db /\ Goto("create")

Drop == pc = "drop" /\ Sets(Absent) /\ Goto("create")

Create ==
  /\ pc = "create"
  /\ Sets(IF db.server.exists THEN db.server ELSE Empty)
  /\ Goto("postgis")

EnsurePostgis ==
  /\ pc = "postgis"
  /\ Sets([db.server EXCEPT !.postgis = TRUE])
  /\ Goto("migrate")

\* Mutant: vehicles are seeded before the factors they refer to.
AfterSwapped(step) == CASE step = "migrate" -> "vehicles"
                        [] step = "vehicles" -> "factors"
                        [] step = "factors" -> "bins"
                        [] step = "bins" -> "ok"

\* SEEDS_ORDER
After(step) == CASE step = "migrate" -> "factors"
                 [] step = "factors" -> "bins"
                 [] step = "bins" -> "vehicles"
                 [] step = "vehicles" -> "ok"

\* Mutant: whether alembic succeeded is not checked.
MigrateRegardless ==
  /\ pc = "migrate"
  /\ UNCHANGED db
  /\ Goto(IF args.skipSeeds THEN "ok" ELSE After("migrate"))

\* alembic upgrade head: all revisions in one transaction, as the owner, who
\* cannot create the extension.
Migrate ==
  /\ pc = "migrate"
  /\ IF db.server.exists /\ db.role /\ db.server.postgis
       THEN /\ Sets([db.server EXCEPT !.migrated = TRUE])
            /\ Goto(IF args.skipSeeds THEN "ok" ELSE After("migrate"))
       ELSE UNCHANGED db /\ Goto("refused")

\* Mutant: psql is run without ON_ERROR_STOP.
ApplyStubborn(seed, allowed, server) ==
  /\ pc = seed
  /\ IF seed \in files /\ allowed THEN Sets(server) ELSE UNCHANGED db
  /\ Goto(After(seed))

\* One statement, committed or refused as a whole; a file that is missing is
\* left out.
Apply(seed, allowed, server) ==
  /\ pc = seed
  /\ IF seed \notin files THEN UNCHANGED db /\ Goto(After(seed))
     ELSE IF allowed THEN Sets(server) /\ Goto(After(seed))
     ELSE UNCHANGED db /\ Goto("refused")

SeedFactors ==
  Apply("factors", day \notin db.server.factors,
        [db.server EXCEPT !.factors = @ \cup {day}])

SeedBins ==
  /\ db.server.bins < MaxBins
  /\ Apply("bins", TRUE, [db.server EXCEPT !.bins = @ + 1])

\* The factor is looked up by a subquery, which may find none.
SeedVehicles ==
  Apply("vehicles", db.server.vehicles = "none",
        [db.server EXCEPT !.vehicles = IF db.server.factors = {} THEN "unlinked" ELSE "linked"])

\* psql cannot be started, the connection breaks, the database to be dropped is
\* in use, or the script is stopped.
Interrupt == pc \notin Ended /\ UNCHANGED db /\ Goto("interrupted")

NextDay ==
  /\ day < MaxDay /\ day' = day + 1
  /\ UNCHANGED <<db, files, args, pc>>

\* The vehicles of the seed are deleted through the API.
DeleteVehicles ==
  /\ pc \in Ended /\ db.server.vehicles # "none"
  /\ Sets([db.server EXCEPT !.vehicles = "none"])
  /\ UNCHANGED <<day, files, args, pc>>

Next ==
  \/ Start \/ EnsureRole \/ Drop \/ Create \/ EnsurePostgis \/ Migrate
  \/ SeedFactors \/ SeedBins \/ SeedVehicles
  \/ Interrupt \/ NextDay \/ DeleteVehicles

Spec == Init /\ [][Next]_vars

-----------------------------------------------------------------------------
(* Properties *)

\* Tables are filled only in a database that is there and migrated.
TypeOK ==
  /\ db \in [server : [exists : BOOLEAN, postgis : BOOLEAN, migrated : BOOLEAN,
                      factors : SUBSET (1 .. day), bins : 0 .. MaxBins,
                      vehicles : {"none", "linked", "unlinked"}],
            role : BOOLEAN]
  /\ day \in 1 .. MaxDay /\ files \subseteq Seed
  /\ args \in [reset : BOOLEAN, skipCreate : BOOLEAN, skipSeeds : BOOLEAN]
  /\ pc \in Ended \cup Seed \cup {"role", "drop", "create", "postgis", "migrate"}
  /\ db.server # Absent => db.server.exists
  /\ db.server.factors # {} \/ db.server.bins > 0 \/ db.server.vehicles # "none"
       => db.server.migrated /\ db.server.postgis /\ db.role

\* A run that says it has initialised the database has: whatever earlier runs,
\* complete or interrupted, had left behind.  The sample vehicles have a factor,
\* so that plans for them are possible.  A seed whose file is missing is skipped
\* with a warning, and the run ends as usual: of such runs nothing is said.
SuccessIsComplete ==
  pc = "ok" /\ ~ args.skipSeeds /\ files = Seed =>
    /\ db.server.migrated /\ db.server.factors # {} /\ db.server.bins > 0
    /\ db.server.vehicles # "unlinked"

\* The bins, which nothing keeps unique, are there no more often than the
\* factors: they double only in a run on another day, and with the factors.
BinsFollowFactors ==
  files = Seed => db.server.bins <= Cardinality(db.server.factors)

\* With --reset, what earlier runs left behind, on whatever day, is never what
\* the script is refused for: it runs through, unless something interrupts it.
\* With --skip-create-db as well, the script drops nothing and may be refused.
ResetIsNeverRefused == pc = "refused" => ~ args.reset \/ args.skipCreate
=============================================================================
