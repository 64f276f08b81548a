---------------------------- MODULE InitDb_proofs ----------------------------
(***************************************************************************)
(* What a run of the set-up script finds and leaves, for any number of     *)
(* days, runs and interruptions.                                           *)
(***************************************************************************)
EXTENDS InitDb, FiniteSetTheorems, TLAPS

Server == db.server

\* Where the script applies seeds, the database is there and migrated.
Reached ==
  /\ pc \in Seed => Server.exists /\ Server.migrated /\ Server.postgis /\ db.role
  /\ pc = "postgis" => Server.exists
  /\ pc = "ok" => Server.migrated

\* What the seeds applied so far have brought, when all of them are there.
SeedsInOrder ==
  files = Seed =>
    /\ Server.bins <= Cardinality(Server.factors)
    /\ pc = "bins" => Server.bins < Cardinality(Server.factors)
    /\ pc \in {"bins", "vehicles"} => Server.factors # {}
    /\ pc = "vehicles" => Server.bins > 0
    /\ pc = "ok" /\ ~ args.skipSeeds => Server.factors # {} /\ Server.bins > 0
    /\ Server.vehicles # "unlinked"

\* After a reset, each step finds what the ones before it made, and no more.
CleanAfterReset ==
  args.reset /\ ~ args.skipCreate =>
    /\ pc # "refused"
    /\ pc \in {"drop", "create", "postgis", "migrate"} => db.role
    /\ pc = "create" => ~ Server.exists
    /\ pc \in {"postgis", "migrate"} => Server.exists
    /\ pc = "migrate" => Server.postgis
    /\ pc \in {"create", "postgis", "migrate", "factors"} => Server.factors = {}
    /\ pc \in {"create", "postgis", "migrate"} \cup Seed => Server.vehicles = "none"

Invariant == TypeOK /\ Reached /\ SeedsInOrder /\ CleanAfterReset

\* The tables of a database that was never seeded have their types.
LEMMA BlankTables ==
  \A server \in {Absent, Empty, [Empty EXCEPT !.postgis = TRUE]} :
    server \in [exists : BOOLEAN, postgis : BOOLEAN, migrated : BOOLEAN,
               factors : SUBSET (1 .. day), bins : 0 .. MaxBins,
               vehicles : {"none", "linked", "unlinked"}]
<1>1. {} \in SUBSET (1 .. day) /\ 0 \in 0 .. MaxBins
  BY InitDbAssumption
<1> DEFINE Tables == [exists : BOOLEAN, postgis : BOOLEAN, migrated : BOOLEAN,
                      factors : SUBSET (1 .. day), bins : 0 .. MaxBins,
                      vehicles : {"none", "linked", "unlinked"}]
<1>2. Empty \in Tables
  BY <1>1 DEF Empty
<1>3. \A server \in Tables : [server EXCEPT !.exists = FALSE] \in Tables
                            /\ [server EXCEPT !.postgis = TRUE] \in Tables
  OBVIOUS
<1>4. Absent \in Tables /\ [Empty EXCEPT !.postgis = TRUE] \in Tables
  BY <1>2, <1>3 DEF Absent
<1> HIDE DEF Tables
<1>5. \A server \in {Absent, Empty, [Empty EXCEPT !.postgis = TRUE]} : server \in Tables
  BY <1>2, <1>4
<1> QED
  BY <1>5 DEF Tables

\* A database that was never seeded satisfies the invariant.
LEMMA InitHolds == Init => Invariant
<1> SUFFICES ASSUME Init PROVE Invariant
  OBVIOUS
<1> USE InitDbAssumption DEF Init, Absent, Empty
<1>1. TypeOK
  <2>1. db.server \in {Absent, Empty, [Empty EXCEPT !.postgis = TRUE]} /\ day = 1
    OBVIOUS
  <2>2. db.server \in [exists : BOOLEAN, postgis : BOOLEAN, migrated : BOOLEAN,
                       factors : SUBSET (1 .. day), bins : 0 .. MaxBins,
                       vehicles : {"none", "linked", "unlinked"}]
    BY <2>1, BlankTables
  <2>3. db = [server |-> db.server, role |-> db.role] /\ db.role \in BOOLEAN
    OBVIOUS
  <2> QED
    BY <2>2, <2>3 DEF TypeOK, Ended, Seed
<1>2. Reached /\ CleanAfterReset
  BY DEF Reached, CleanAfterReset, Seed
<1>3. SeedsInOrder
  BY FS_EmptySet DEF SeedsInOrder, Server, Seed
<1> QED
  BY <1>1, <1>2, <1>3 DEF Invariant

\* The factors of a further day make one more.
LEMMA FactorsCounted ==
  ASSUME TypeOK
  PROVE  /\ Cardinality(Server.factors) \in Nat
         /\ day \notin Server.factors =>
              Cardinality(Server.factors \cup {day}) = Cardinality(Server.factors) + 1
<1>1. Server.factors \in SUBSET (1 .. day) /\ day \in Nat
  BY InitDbAssumption DEF TypeOK, Server
<1>2. IsFiniteSet(Server.factors)
  <2>1. IsFiniteSet(1 .. day)
    BY <1>1, FS_Interval
  <2> QED
    BY <1>1, <2>1, FS_Subset
<1> QED
  BY <1>2, FS_CardinalityType, FS_AddElement

\* Each step of the script, and what happens between its runs, keeps the invariant.
LEMMA StartStep == Invariant /\ Start => Invariant'
<1> SUFFICES ASSUME Invariant, Start PROVE Invariant'
  OBVIOUS
<1> USE InitDbAssumption DEF Invariant, Start, Ended, Seed, Absent, Empty, Server
<1>1. TypeOK'
  BY DEF TypeOK, Reached
<1>2. Reached'
  BY DEF TypeOK, Reached
<1>3. SeedsInOrder'
  BY FactorsCounted, FS_EmptySet DEF TypeOK, Reached, SeedsInOrder
<1>4. CleanAfterReset'
  BY DEF TypeOK, Reached, CleanAfterReset
<1> QED
  BY <1>1, <1>2, <1>3, <1>4 DEF Invariant

LEMMA EnsureRoleStep == Invariant /\ EnsureRole => Invariant'
<1> SUFFICES ASSUME Invariant, EnsureRole PROVE Invariant'
  OBVIOUS
<1> USE InitDbAssumption DEF Invariant, EnsureRole, Goto, Ended, Seed, Absent, Empty, Server
<1>1. TypeOK'
  BY DEF TypeOK, Reached
<1>2. Reached'
  BY DEF TypeOK, Reached
<1>3. SeedsInOrder'
  BY FactorsCounted, FS_EmptySet DEF TypeOK, Reached, SeedsInOrder
<1>4. CleanAfterReset'
  BY DEF TypeOK, Reached, CleanAfterReset
<1> QED
  BY <1>1, <1>2, <1>3, <1>4 DEF Invariant

LEMMA DropStep == Invariant /\ Drop => Invariant'
<1> SUFFICES ASSUME Invariant, Drop PROVE Invariant'
  OBVIOUS
<1> USE InitDbAssumption DEF Invariant, Drop, Sets, Goto, Ended, Seed, Absent, Empty, Server
<1>0. db' = [server |-> Absent, role |-> db.role]
  BY DEF TypeOK
<1>1. TypeOK'
  <2>1. /\ db'.server = Absent
        /\ db'.server \in [exists : BOOLEAN, postgis : BOOLEAN, migrated : BOOLEAN,
                          factors : SUBSET (1 .. day), bins : 0 .. MaxBins,
                          vehicles : {"none", "linked", "unlinked"}]
    BY <1>0, BlankTables
  <2>2. db'.server.factors = {} /\ db'.server.bins = 0 /\ db'.server.vehicles = "none"
    BY <2>1
  <2>3. db'.role \in BOOLEAN
    BY <1>0 DEF TypeOK
  <2> HIDE DEF Absent
  <2> QED
    BY <1>0, <2>1, <2>2, <2>3 DEF TypeOK
<1>2. Reached'
  BY DEF TypeOK, Reached
<1>3. SeedsInOrder'
  BY <1>0, FS_EmptySet DEF SeedsInOrder
<1>4. CleanAfterReset'
  BY DEF TypeOK, Reached, CleanAfterReset
<1> QED
  BY <1>1, <1>2, <1>3, <1>4 DEF Invariant

LEMMA CreateStep == Invariant /\ Create => Invariant'
<1> SUFFICES ASSUME Invariant, Create PROVE Invariant'
  OBVIOUS
<1> USE InitDbAssumption DEF Invariant, Create, Sets, Goto, Ended, Seed, Absent, Empty, Server
<1>1. TypeOK'
  BY DEF TypeOK, Reached
<1>2. Reached'
  BY DEF TypeOK, Reached
<1>3. SeedsInOrder'
  BY FactorsCounted, FS_EmptySet DEF TypeOK, Reached, SeedsInOrder
<1>4. CleanAfterReset'
  BY DEF TypeOK, Reached, CleanAfterReset
<1> QED
  BY <1>1, <1>2, <1>3, <1>4 DEF Invariant

LEMMA EnsurePostgisStep == Invariant /\ EnsurePostgis => Invariant'
<1> SUFFICES ASSUME Invariant, EnsurePostgis PROVE Invariant'
  OBVIOUS
<1> USE InitDbAssumption DEF Invariant, EnsurePostgis, Sets, Goto, Ended, Seed, Absent, Empty, Server
<1>0. db' = [server |-> [db.server EXCEPT !.postgis = TRUE], role |-> db.role]
  BY DEF TypeOK
<1>1. TypeOK'
  <2>1. db.server.exists
    BY DEF Reached
  <2>2. /\ db.server \in [exists : BOOLEAN, postgis : BOOLEAN, migrated : BOOLEAN,
                         factors : SUBSET (1 .. day), bins : 0 .. MaxBins,
                         vehicles : {"none", "linked", "unlinked"}]
        /\ db.role \in BOOLEAN
    BY DEF TypeOK
  <2>3. db'.server \in [exists : BOOLEAN, postgis : BOOLEAN, migrated : BOOLEAN,
                       factors : SUBSET (1 .. day), bins : 0 .. MaxBins,
                       vehicles : {"none", "linked", "unlinked"}]
    BY <1>0, <2>2
  <2>4. (db.server # Absent => db.server.exists)'
    BY <1>0, <2>1, <2>2
  <2>5. (db.server.factors # {} \/ db.server.bins > 0 \/ db.server.vehicles # "none"
           => db.server.migrated /\ db.server.postgis /\ db.role)'
    BY <1>0, <2>2 DEF TypeOK
  <2> QED
    BY <1>0, <2>2, <2>3, <2>4, <2>5 DEF TypeOK
<1>2. Reached'
  BY DEF TypeOK, Reached
<1>3. SeedsInOrder'
  BY FactorsCounted, FS_EmptySet DEF TypeOK, Reached, SeedsInOrder
<1>4. CleanAfterReset'
  BY DEF TypeOK, Reached, CleanAfterReset
<1> QED
  BY <1>1, <1>2, <1>3, <1>4 DEF Invariant

LEMMA MigrateStep == Invariant /\ Migrate => Invariant'
<1> SUFFICES ASSUME Invariant, Migrate PROVE Invariant'
  OBVIOUS
<1> USE InitDbAssumption DEF Invariant, Migrate, Sets, Goto, After, Ended, Seed, Absent, Empty, Server
<1>1. TypeOK'
  <2>1. CASE UNCHANGED db
    BY <2>1 DEF TypeOK
  <2>2. CASE db' = [server |-> [db.server EXCEPT !.migrated = TRUE], role |-> db.role]
    BY <2>2 DEF TypeOK
  <2> QED
    BY <2>1, <2>2 DEF TypeOK
<1>2. Reached'
  BY DEF TypeOK, Reached
<1>3. SeedsInOrder'
  BY FactorsCounted, FS_EmptySet DEF TypeOK, Reached, SeedsInOrder
<1>4. CleanAfterReset'
  BY DEF TypeOK, Reached, CleanAfterReset
<1> QED
  BY <1>1, <1>2, <1>3, <1>4 DEF Invariant

LEMMA SeedFactorsStep == Invariant /\ SeedFactors => Invariant'
<1> SUFFICES ASSUME Invariant, SeedFactors PROVE Invariant'
  OBVIOUS
<1> USE InitDbAssumption DEF Invariant, SeedFactors, Apply, Sets, Goto, After, Ended, Seed, Absent, Empty, Server
<1>1. TypeOK'
  BY DEF TypeOK, Reached
<1>2. Reached'
  BY DEF TypeOK, Reached
<1>3. SeedsInOrder'
  BY FactorsCounted, FS_EmptySet DEF TypeOK, Reached, SeedsInOrder
<1>4. CleanAfterReset'
  BY DEF TypeOK, Reached, CleanAfterReset
<1> QED
  BY <1>1, <1>2, <1>3, <1>4 DEF Invariant

LEMMA SeedBinsStep == Invariant /\ SeedBins => Invariant'
<1> SUFFICES ASSUME Invariant, SeedBins PROVE Invariant'
  OBVIOUS
<1> USE InitDbAssumption DEF Invariant, SeedBins, Apply, Sets, Goto, After, Ended, Seed, Absent, Empty, Server
<1>1. TypeOK'
  BY DEF TypeOK, Reached
<1>2. Reached'
  BY DEF TypeOK, Reached
<1>3. SeedsInOrder'
  BY FactorsCounted, FS_EmptySet DEF TypeOK, Reached, SeedsInOrder
<1>4. CleanAfterReset'
  BY DEF TypeOK, Reached, CleanAfterReset
<1> QED
  BY <1>1, <1>2, <1>3, <1>4 DEF Invariant

LEMMA SeedVehiclesStep == Invariant /\ SeedVehicles => Invariant'
<1> SUFFICES ASSUME Invariant, SeedVehicles PROVE Invariant'
  OBVIOUS
<1> USE InitDbAssumption DEF Invariant, SeedVehicles, Apply, Sets, Goto, After, Ended, Seed, Absent, Empty, Server
<1>1. TypeOK'
  BY DEF TypeOK, Reached
<1>2. Reached'
  BY DEF TypeOK, Reached
<1>3. SeedsInOrder'
  BY FactorsCounted, FS_EmptySet DEF TypeOK, Reached, SeedsInOrder
<1>4. CleanAfterReset'
  BY DEF TypeOK, Reached, CleanAfterReset
<1> QED
  BY <1>1, <1>2, <1>3, <1>4 DEF Invariant

LEMMA InterruptStep == Invariant /\ Interrupt => Invariant'
<1> SUFFICES ASSUME Invariant, Interrupt PROVE Invariant'
  OBVIOUS
<1> USE InitDbAssumption DEF Invariant, Interrupt, Goto, Ended, Seed, Absent, Empty, Server
<1>1. TypeOK'
  BY DEF TypeOK, Reached
<1>2. Reached'
  BY DEF TypeOK, Reached
<1>3. SeedsInOrder'
  BY FactorsCounted, FS_EmptySet DEF TypeOK, Reached, SeedsInOrder
<1>4. CleanAfterReset'
  BY DEF TypeOK, Reached, CleanAfterReset
<1> QED
  BY <1>1, <1>2, <1>3, <1>4 DEF Invariant

LEMMA NextDayStep == Invariant /\ NextDay => Invariant'
<1> SUFFICES ASSUME Invariant, NextDay PROVE Invariant'
  OBVIOUS
<1> USE InitDbAssumption DEF Invariant, NextDay, Ended, Seed, Absent, Empty, Server
<1>1. TypeOK'
  BY DEF TypeOK, Reached
<1>2. Reached'
  BY DEF TypeOK, Reached
<1>3. SeedsInOrder'
  BY FactorsCounted, FS_EmptySet DEF TypeOK, Reached, SeedsInOrder
<1>4. CleanAfterReset'
  BY DEF TypeOK, Reached, CleanAfterReset
<1> QED
  BY <1>1, <1>2, <1>3, <1>4 DEF Invariant

LEMMA DeleteVehiclesStep == Invariant /\ DeleteVehicles => Invariant'
<1> SUFFICES ASSUME Invariant, DeleteVehicles PROVE Invariant'
  OBVIOUS
<1> USE InitDbAssumption DEF Invariant, DeleteVehicles, Sets, Ended, Seed, Absent, Empty, Server
<1>1. TypeOK'
  BY DEF TypeOK, Reached
<1>2. Reached'
  BY DEF TypeOK, Reached
<1>3. SeedsInOrder'
  BY FactorsCounted, FS_EmptySet DEF TypeOK, Reached, SeedsInOrder
<1>4. CleanAfterReset'
  BY DEF TypeOK, Reached, CleanAfterReset
<1> QED
  BY <1>1, <1>2, <1>3, <1>4 DEF Invariant

LEMMA NextHolds == Invariant /\ [Next]_vars => Invariant'
<1> SUFFICES ASSUME Invariant, [Next]_vars PROVE Invariant'
  OBVIOUS
<1>1. CASE UNCHANGED vars
  BY <1>1 DEF vars, Invariant, TypeOK, Reached, SeedsInOrder, CleanAfterReset, Server
<1>2. CASE Next
  BY <1>2, StartStep, EnsureRoleStep, DropStep, CreateStep, EnsurePostgisStep, MigrateStep,
     SeedFactorsStep, SeedBinsStep, SeedVehiclesStep, InterruptStep, NextDayStep,
     DeleteVehiclesStep DEF Next
<1> QED
  BY <1>1, <1>2

\* The invariant holds however often, on how many days and with which options
\* the script is run, and wherever it is interrupted.
THEOREM ScriptOnTrack == Spec => []Invariant
<1>1. Invariant /\ [Next]_vars => Invariant'
  BY NextHolds
<1> QED
  BY InitHolds, <1>1, PTL DEF Spec

\* Tables are filled only in a database that is there and migrated.
THEOREM DatabaseTyped == Spec => []TypeOK
<1>1. Invariant => TypeOK
  BY DEF Invariant
<1> QED
  BY ScriptOnTrack, <1>1, PTL

\* What init_db.py calls a success is one.
THEOREM SuccessAlwaysComplete == Spec => []SuccessIsComplete
<1>1. Invariant => SuccessIsComplete
  BY DEF Invariant, Reached, SeedsInOrder, SuccessIsComplete, Server
<1> QED
  BY ScriptOnTrack, <1>1, PTL

\* The bins double only with the factors, on another day.
THEOREM BinsAlwaysFollowFactors == Spec => []BinsFollowFactors
<1>1. Invariant => BinsFollowFactors
  BY DEF Invariant, SeedsInOrder, BinsFollowFactors, Server
<1> QED
  BY ScriptOnTrack, <1>1, PTL

\* Nothing an earlier run left is in the way of one with --reset.
THEOREM ResetAlwaysRunsThrough == Spec => []ResetIsNeverRefused
<1>1. Invariant => ResetIsNeverRefused
  BY DEF Invariant, CleanAfterReset, ResetIsNeverRefused
<1> QED
  BY ScriptOnTrack, <1>1, PTL

=============================================================================
