------------------------ MODULE FrontendStore_proofs ------------------------
(***************************************************************************)
(* What the page shows and how it waits, for any number of calls under way *)
(* and any number of runs.                                                 *)
(***************************************************************************)
EXTENDS FrontendStore, SequenceTheorems, TLAPS

RunRecord == [mode : Mode, of : Nat, status : {"done", "failed"}, gone : BOOLEAN]
CallRecord == [kind : Mode \cup {"none", "recalc", "list", "replay", "delete"},
               at : {"idle", "asked", "served", "listing", "listed"},
               arg : Nat, ok : BOOLEAN, run : Nat, items : SUBSET Nat]

RunsHold == runs \in Seq(RunRecord) /\ \A r \in Runs : runs[r].of < r

\* A call is under way, for one of these.
Waits(c, kinds) == c.kind \in kinds /\ c.at \in {"asked", "served", "listing", "listed"}

\* What a call brings is of these runs: AnswersFit, for one call.
Fits(c, stored) ==
  /\ c.items \subseteq 1 .. Len(stored)
  /\ c.at = "served" /\ c.ok =>
       /\ c.kind \in {"p2p", "vrp"} =>
            c.run \in 1 .. Len(stored) /\ stored[c.run].mode = c.kind
       /\ c.kind = "recalc" => c.run \in 1 .. Len(stored) /\ stored[c.run].of = c.arg
       /\ c.kind = "replay" => c.run \in 1 .. Len(stored)

\* A flag and the calls it stands for.
FlagHolds(flag, calls, kinds) ==
  /\ \A s, t \in Slot : Waits(calls[s], kinds) /\ Waits(calls[t], kinds) => s = t
  /\ flag <=> \E s \in Slot : Waits(calls[s], kinds)

\* What is shown is stored.
ShownHolds ==
  /\ current \in [kind : {"none", "p2p", "vrp", "recalc"}, run : Nat, original : Nat,
                  whole : BOOLEAN]
  /\ history \subseteq Runs
  /\ CurrentRunIsStored

\* The inductive invariant: TypeOK, OnePlanAtATime and CurrentRunIsStored, in the
\* parts that a step may change.
Invariant ==
  /\ RunsHold
  /\ call \in [Slot -> CallRecord]
  /\ \A s \in Slot : Fits(call[s], runs)
  /\ FlagHolds(loading, call, {"p2p", "vrp"})
  /\ FlagHolds(pending, call, {"recalc"})
  /\ ShownHolds
  /\ loading \in BOOLEAN /\ pending \in BOOLEAN /\ open \in BOOLEAN /\ alive \in BOOLEAN

\* Runs are added, and their modes and origins stay as they are.
Grows ==
  /\ RunsHold'
  /\ Len(runs) <= Len(runs')
  /\ \A r \in Runs : runs'[r].mode = runs[r].mode /\ runs'[r].of = runs[r].of

\* The flag follows the one call that changes from b to c.
FlagFollows(flag, next, b, c, kinds) ==
  \/ (Waits(b, kinds) <=> Waits(c, kinds)) /\ next = flag
  \/ ~ flag /\ Waits(c, kinds) /\ next = TRUE
  \/ Waits(b, kinds) /\ ~ Waits(c, kinds) /\ next = FALSE

-----------------------------------------------------------------------------

\* It implies the properties.
LEMMA Implied == Invariant => TypeOK /\ OnePlanAtATime /\ CurrentRunIsStored
<1> SUFFICES ASSUME Invariant PROVE TypeOK /\ OnePlanAtATime /\ CurrentRunIsStored
  OBVIOUS
<1>1. AnswersFit
  BY DEF Invariant, AnswersFit, Fits, Runs
<1>2. OnePlanAtATime
  BY DEF Invariant, OnePlanAtATime, FlagHolds, UnderWay, Waits
<1>3. (\A s, t \in UnderWay({"recalc"}) : s = t) /\ (pending <=> UnderWay({"recalc"}) # {})
  BY DEF Invariant, FlagHolds, UnderWay, Waits
<1> QED
  BY <1>1, <1>2, <1>3 DEF Invariant, TypeOK, RunsHold, RunRecord, CallRecord, ShownHolds

LEMMA InitHolds == Init => Invariant
<1> SUFFICES ASSUME Init PROVE Invariant
  OBVIOUS
<1> USE DEF Init
<1>1. RunsHold /\ Runs = {}
  BY DEF RunsHold, Runs
<1>2. call \in [Slot -> CallRecord]
  BY DEF Idle, CallRecord
<1>3. \A s \in Slot : Fits(call[s], runs)
  BY DEF Idle, Fits
<1>4. FlagHolds(loading, call, {"p2p", "vrp"}) /\ FlagHolds(pending, call, {"recalc"})
  BY DEF Idle, FlagHolds, Waits
<1>5. ShownHolds
  BY DEF ShownHolds, NoRun, CurrentRunIsStored
<1> QED
  BY <1>1, <1>2, <1>3, <1>4, <1>5 DEF Invariant

\* What fits stays fitting, and what is shown stays stored, when runs are added.
LEMMA StillFits ==
  ASSUME RunsHold, Grows, NEW c \in CallRecord, Fits(c, runs)
  PROVE  Fits(c, runs')
BY DEF RunsHold, Grows, Fits, CallRecord, Runs

LEMMA StillShown ==
  ASSUME Invariant, Grows, UNCHANGED <<current, history>>
  PROVE  ShownHolds'
<1>1. ShownHolds /\ RunsHold
  BY DEF Invariant
<1>2. Runs \subseteq Runs'
  BY <1>1 DEF RunsHold, Grows, Runs
<1> QED
  BY <1>1, <1>2 DEF ShownHolds, Grows, CurrentRunIsStored

\* One flag, when one call changes.
LEMMA FlagStep ==
  ASSUME NEW kinds, NEW flag \in BOOLEAN, NEW next, NEW s \in Slot, NEW c \in CallRecord,
         call \in [Slot -> CallRecord], call' = [call EXCEPT ![s] = c],
         FlagHolds(flag, call, kinds), FlagFollows(flag, next, call[s], c, kinds)
  PROVE  FlagHolds(next, call', kinds)
BY DEF FlagHolds, FlagFollows

\* A step of one call keeps the invariant if the call fits the runs, the flags
\* follow it, and what is shown is stored.
LEMMA CallStep ==
  ASSUME Invariant, Grows, NEW s \in Slot, NEW c \in CallRecord,
         call' = [call EXCEPT ![s] = c], Fits(c, runs'), ShownHolds',
         FlagFollows(loading, loading', call[s], c, {"p2p", "vrp"}),
         FlagFollows(pending, pending', call[s], c, {"recalc"}),
         open' \in BOOLEAN, alive' \in BOOLEAN
  PROVE  Invariant'
<1> USE DEF Invariant
<1>1. call' \in [Slot -> CallRecord]
  OBVIOUS
<1>2. \A t \in Slot : Fits(call'[t], runs')
  BY StillFits
<1>3. FlagHolds(loading', call', {"p2p", "vrp"}) /\ FlagHolds(pending', call', {"recalc"})
  BY FlagStep
<1>4. loading' \in BOOLEAN /\ pending' \in BOOLEAN
  BY DEF FlagFollows
<1>5. RunsHold'
  BY DEF Grows
<1> QED
  BY <1>1, <1>2, <1>3, <1>4, <1>5

\* Runs that stay as they are grow.
LEMMA SameRunsGrow == Invariant /\ UNCHANGED runs => Grows
BY DEF Invariant, Grows, RunsHold, Runs

-----------------------------------------------------------------------------

\* What the user starts.
LEMMA StartStep ==
  ASSUME Invariant, NEW s \in Slot,
         NEW kind \in Mode \cup {"recalc", "list", "replay", "delete"}, NEW arg \in Nat,
         Start(s, kind, arg), UNCHANGED <<runs, current, history>>,
         loading' = (loading \/ kind \in {"p2p", "vrp"}), kind \in {"p2p", "vrp"} => ~ loading,
         pending' = (pending \/ kind = "recalc"), kind = "recalc" => ~ pending,
         open' \in BOOLEAN, alive' \in BOOLEAN
  PROVE  Invariant'
<1> DEFINE c == [Idle EXCEPT !.kind = kind, !.at = "asked", !.arg = arg]
<1>1. c \in CallRecord /\ c.kind = kind /\ c.at = "asked" /\ c.items = {}
  BY DEF Idle, CallRecord
<1>2. call' = [call EXCEPT ![s] = c] /\ call[s].at = "idle"
  BY DEF Start
<1>3. Grows /\ ShownHolds'
  BY SameRunsGrow, StillShown
<1>4. Fits(c, runs')
  BY <1>1 DEF Fits
<1>5. loading \in BOOLEAN /\ pending \in BOOLEAN
  BY DEF Invariant
<1> HIDE DEF c
<1>6. /\ FlagFollows(loading, loading', call[s], c, {"p2p", "vrp"})
      /\ FlagFollows(pending, pending', call[s], c, {"recalc"})
  BY <1>1, <1>2, <1>5 DEF FlagFollows, Waits
<1> QED
  BY <1>1, <1>2, <1>3, <1>4, <1>6, CallStep

LEMMA UserStep ==
  ASSUME Invariant, NEW s \in Slot,
         (\E mode \in Mode : Submit(s, mode)) \/ WhatIf(s) \/ OpenHistory(s) \/ ClickEntry(s)
  PROVE  Invariant'
<1>1. /\ loading \in BOOLEAN /\ pending \in BOOLEAN /\ open \in BOOLEAN /\ alive \in BOOLEAN
      /\ current.run \in Nat /\ history \subseteq Nat
  BY DEF Invariant, ShownHolds, Runs
<1>2. CASE \E mode \in Mode : Submit(s, mode)
  BY <1>1, <1>2, StartStep, FrontendAssumption DEF Submit
<1>3. CASE WhatIf(s)
  BY <1>1, <1>3, StartStep DEF WhatIf
<1>4. CASE OpenHistory(s)
  BY <1>1, <1>4, StartStep DEF OpenHistory
<1>5. CASE ClickEntry(s)
  BY <1>1, <1>5, StartStep DEF ClickEntry, page
<1> QED
  BY <1>2, <1>3, <1>4, <1>5

-----------------------------------------------------------------------------

\* What the backend serves leaves the page alone.
LEMMA ServedStep ==
  ASSUME Invariant, Grows, NEW s \in Slot, NEW c \in CallRecord,
         call' = [call EXCEPT ![s] = c], UNCHANGED page, Fits(c, runs'),
         c.kind = call[s].kind,
         call[s].at \in {"asked", "listing"}, c.at \in {"served", "listed"}
  PROVE  Invariant'
<1>1. ShownHolds' /\ open' \in BOOLEAN /\ alive' \in BOOLEAN
  BY StillShown DEF Invariant, page
<1>2. \A kinds : FlagFollows(loading, loading', call[s], c, kinds)
                 /\ FlagFollows(pending, pending', call[s], c, kinds)
  BY DEF FlagFollows, Waits, page
<1> QED
  BY <1>1, <1>2, CallStep

LEMMA AnswerStep ==
  ASSUME Invariant, Grows, NEW s \in Slot, NEW ok \in BOOLEAN, NEW run \in Nat,
         NEW items \in SUBSET (1 .. Len(runs')),
         call[s].at = "asked", Served(s, ok, run, items), UNCHANGED page,
         ok /\ call[s].kind \in {"p2p", "vrp"} =>
           run \in 1 .. Len(runs') /\ runs'[run].mode = call[s].kind,
         ok /\ call[s].kind = "recalc" =>
           run \in 1 .. Len(runs') /\ runs'[run].of = call[s].arg,
         ok /\ call[s].kind = "replay" => run \in 1 .. Len(runs')
  PROVE  Invariant'
<1> DEFINE c == [call[s] EXCEPT !.at = "served", !.ok = ok, !.run = IF ok THEN run ELSE 0,
                                !.items = IF ok THEN items ELSE {}]
<1>1. call[s] \in CallRecord /\ call \in [Slot -> CallRecord]
  BY DEF Invariant
<1>2. Len(runs') \in Nat
  BY DEF Grows, RunsHold
<1>3. c \in CallRecord
  <2>1. (IF ok THEN items ELSE {}) \in SUBSET Nat /\ (IF ok THEN run ELSE 0) \in Nat
    BY <1>2
  <2> QED
    BY <1>1, <2>1 DEF CallRecord
<1>4. /\ c.kind = call[s].kind /\ c.arg = call[s].arg /\ c.at = "served" /\ c.ok = ok
      /\ ok => c.run = run
      /\ c.items \subseteq 1 .. Len(runs')
  BY <1>1 DEF CallRecord
<1>5. call' = [call EXCEPT ![s] = c]
  BY <1>1 DEF Served, CallRecord
<1> HIDE DEF c
<1>6. Fits(c, runs')
  BY <1>4 DEF Fits
<1> QED
  BY <1>3, <1>4, <1>5, <1>6, ServedStep

\* A run that is stored adds to the runs; one that is deleted stays among them.
LEMMA StoreGrows ==
  ASSUME RunsHold, NEW mode \in Mode, NEW original \in 0 .. Len(runs),
         NEW status \in {"done", "failed"}, Store(mode, original, status)
  PROVE  /\ Grows /\ Len(runs') = Len(runs) + 1
         /\ runs'[Len(runs) + 1].mode = mode /\ runs'[Len(runs) + 1].of = original
<1> DEFINE new == [mode |-> mode, of |-> original, status |-> status, gone |-> FALSE]
<1>1. new \in RunRecord /\ new.mode = mode /\ new.of = original
  BY DEF RunRecord, RunsHold
<1>2. runs' = Append(runs, new)
  BY DEF Store
<1> HIDE DEF new
<1>3. /\ runs' \in Seq(RunRecord) /\ Len(runs') = Len(runs) + 1
      /\ \A r \in 1 .. Len(runs) : runs'[r] = runs[r]
      /\ runs'[Len(runs) + 1] = new
  BY <1>1, <1>2 DEF RunsHold
<1> QED
  BY <1>1, <1>3 DEF RunsHold, Grows, Runs

LEMMA DropGrows ==
  ASSUME RunsHold, NEW r \in Runs, runs' = [runs EXCEPT ![r].gone = TRUE]
  PROVE  Grows /\ Len(runs') = Len(runs)
<1>1. /\ runs \in Seq(RunRecord) /\ Len(runs) \in Nat
      /\ \A k \in Runs : runs[k] \in RunRecord
  BY DEF RunsHold, Runs
<1>2. runs' \in Seq(RunRecord) /\ Len(runs') = Len(runs)
  <2> DEFINE new == [runs[r] EXCEPT !.gone = TRUE]
  <2>1. new \in RunRecord
    BY <1>1 DEF RunRecord
  <2>2. runs' = [runs EXCEPT ![r] = new]
    OBVIOUS
  <2> HIDE DEF new
  <2> QED
    <3>1. r \in 1 .. Len(runs) /\ runs \in Seq(RunRecord)
      BY <1>1 DEF Runs
    <3>2. [runs EXCEPT ![r] = new] \in Seq(RunRecord)
          /\ Len([runs EXCEPT ![r] = new]) = Len(runs)
      BY <2>1, <3>1, ExceptSeq
    <3> QED
      BY <2>2, <3>2
<1>3. \A k \in Runs : runs'[k].mode = runs[k].mode /\ runs'[k].of = runs[k].of
  BY <1>1 DEF RunRecord, Runs
<1> QED
  BY <1>1, <1>2, <1>3 DEF RunsHold, Grows, Runs

LEMMA PlansStep ==
  ASSUME Invariant, NEW s \in Slot, call[s].at = "asked", UNCHANGED page,
         NEW mode \in Mode, NEW original \in 0 .. Len(runs), Plans(s, mode, original),
         \/ call[s].kind \in {"p2p", "vrp"} /\ mode = call[s].kind
         \/ call[s].kind = "recalc" /\ original = call[s].arg
  PROVE  Invariant'
<1>1. RunsHold /\ Len(runs) \in Nat
  BY DEF Invariant, RunsHold
<1>2. CASE Served(s, FALSE, 0, {}) /\ UNCHANGED runs
  BY <1>2, SameRunsGrow, AnswerStep
<1>3. ASSUME NEW status \in {"done", "failed"}, NEW ok \in BOOLEAN,
             Store(mode, original, status), Served(s, ok, Len(runs) + 1, {})
      PROVE  Invariant'
  <2>1. /\ Grows /\ Len(runs') = Len(runs) + 1
        /\ runs'[Len(runs) + 1].mode = mode /\ runs'[Len(runs) + 1].of = original
    BY <1>1, <1>3, StoreGrows
  <2>2. Len(runs) + 1 \in 1 .. Len(runs') /\ {} \in SUBSET (1 .. Len(runs'))
    BY <1>1, <2>1
  <2> QED
    BY <1>1, <1>3, <2>1, <2>2, AnswerStep
<1> QED
  BY <1>2, <1>3 DEF Plans

LEMMA ServeStep ==
  ASSUME Invariant, NEW s \in Slot, Serve(s)
  PROVE  Invariant'
<1>1. /\ RunsHold /\ Len(runs) \in Nat /\ call[s] \in CallRecord
      /\ \A r \in Runs : runs[r].mode \in Mode
  <2>1. RunsHold /\ Len(runs) \in Nat /\ call[s] \in CallRecord
    BY DEF Invariant, RunsHold
  <2>2. \A r \in Runs : runs[r] \in RunRecord
    BY <2>1 DEF RunsHold, Runs
  <2> QED
    BY <2>1, <2>2 DEF RunRecord
<1>2. CASE ServePlan(s)
  <2>1. call[s].kind \in Mode /\ call[s].kind \in {"p2p", "vrp"} /\ 0 \in 0 .. Len(runs)
    BY <1>1, <1>2, FrontendAssumption DEF ServePlan, Asked, CallRecord
  <2> QED
    BY <1>2, <2>1, PlansStep DEF ServePlan, Asked
<1>3. CASE ServeRecalc(s)
  <2> DEFINE r == call[s].arg
  <2>1. call[s].at = "asked" /\ call[s].kind = "recalc" /\ UNCHANGED page
    BY <1>3 DEF ServeRecalc, Asked
  <2>2. CASE r \in Stored /\ runs[r].status = "done"
    <3>1. r \in Runs /\ r \in 0 .. Len(runs) /\ runs[r].mode \in Mode
      BY <1>1, <2>2 DEF Stored, Runs
    <3> QED
      BY <1>3, <2>1, <2>2, <3>1, PlansStep DEF ServeRecalc
  <2>3. CASE ~ (r \in Stored /\ runs[r].status = "done")
    BY <1>3, <2>1, <2>3, SameRunsGrow, AnswerStep DEF ServeRecalc
  <2> QED
    BY <2>2, <2>3
<1>4. CASE ServeReplay(s)
  BY <1>1, <1>4, SameRunsGrow, AnswerStep DEF ServeReplay, Asked, Stored, Runs, CallRecord
<1>5. CASE ServeDelete(s)
  BY <1>1, <1>5, SameRunsGrow, DropGrows, AnswerStep DEF ServeDelete, Asked, Stored
<1>6. CASE ServeList(s)
  <2> PICK ok \in BOOLEAN :
        \/ Asked(s, {"list"}) /\ Served(s, ok, 0, Stored)
        \/ /\ call[s].at = "listing"
           /\ call' = [call EXCEPT ![s].at = "listed", ![s].ok = ok,
                                   ![s].items = IF ok THEN Stored ELSE {}]
    BY <1>6 DEF ServeList
  <2>1. UNCHANGED runs /\ UNCHANGED page /\ Grows
    BY <1>6, SameRunsGrow DEF ServeList
  <2>2. Stored \in SUBSET (1 .. Len(runs')) /\ Stored \in SUBSET Nat
    BY <1>1, <2>1 DEF Stored, Runs
  <2>3. CASE Asked(s, {"list"}) /\ Served(s, ok, 0, Stored)
    BY <2>1, <2>2, <2>3, AnswerStep DEF Asked
  <2>4. CASE /\ call[s].at = "listing"
             /\ call' = [call EXCEPT ![s].at = "listed", ![s].ok = ok,
                                     ![s].items = IF ok THEN Stored ELSE {}]
    <3> DEFINE c == [call[s] EXCEPT !.at = "listed", !.ok = ok,
                                    !.items = IF ok THEN Stored ELSE {}]
    <3>1. c \in CallRecord /\ c.kind = call[s].kind /\ c.at = "listed"
          /\ c.items \subseteq 1 .. Len(runs')
      BY <1>1, <2>2 DEF CallRecord
    <3>2. call' = [call EXCEPT ![s] = c]
      BY <1>1, <2>4 DEF CallRecord, Invariant
    <3> HIDE DEF c
    <3>3. Fits(c, runs')
      BY <3>1 DEF Fits
    <3> QED
      BY <2>1, <2>4, <3>1, <3>2, <3>3, ServedStep
  <2> QED
    BY <2>3, <2>4
<1> QED
  BY <1>2, <1>3, <1>4, <1>5, <1>6 DEF Serve

-----------------------------------------------------------------------------

\* What arrives at the page leaves the runs alone.
LEMMA ArrivedStep ==
  ASSUME Invariant, UNCHANGED runs, NEW s \in Slot, NEW c \in CallRecord,
         call' = [call EXCEPT ![s] = c], c.items = {}, c.at # "served", ShownHolds',
         FlagFollows(loading, loading', call[s], c, {"p2p", "vrp"}),
         FlagFollows(pending, pending', call[s], c, {"recalc"}),
         open' \in BOOLEAN, alive' \in BOOLEAN
  PROVE  Invariant'
<1>1. Grows
  BY SameRunsGrow
<1>2. Fits(c, runs')
  BY DEF Fits
<1> QED
  BY <1>1, <1>2, CallStep

\* The record of a call that ended, and of one that waits for its listing.
LEMMA Ends ==
  /\ Idle \in CallRecord /\ Idle.items = {} /\ Idle.at # "served"
  /\ \A kinds : ~ Waits(Idle, kinds)
BY DEF Idle, Waits, CallRecord

Listing(kind) == [Idle EXCEPT !.kind = kind, !.at = "listing"]

LEMMA Lists ==
  ASSUME NEW c \in CallRecord
  PROVE  /\ Listing(c.kind) \in CallRecord /\ Listing(c.kind).items = {}
         /\ Listing(c.kind).at # "served"
         /\ \A kinds : Waits(Listing(c.kind), kinds) <=> c.kind \in kinds
BY DEF Idle, Waits, CallRecord, Listing

\* What is shown once an answer that fits has arrived.
LEMMA ShowStep ==
  ASSUME Invariant, UNCHANGED runs,
         NEW run, run \in [kind : {"p2p", "vrp", "recalc"}, run : Runs, original : Nat,
                           whole : BOOLEAN],
         IF run.kind = "recalc" THEN runs[run.run].of = run.original
                                ELSE runs[run.run].mode = run.kind,
         Show(run), UNCHANGED history
  PROVE  ShownHolds' /\ alive' \in BOOLEAN
BY DEF Invariant, ShownHolds, CurrentRunIsStored, Show, Runs

LEMMA PlanArrivesStep ==
  ASSUME Invariant, NEW s \in Slot, PlanArrives(s)
  PROVE  Invariant'
<1>1. /\ call[s] \in CallRecord /\ Fits(call[s], runs) /\ open \in BOOLEAN
      /\ alive \in BOOLEAN /\ FlagHolds(loading, call, {"p2p", "vrp"})
  BY DEF Invariant
<1>2. /\ call[s].at = "served" /\ call[s].kind \in {"p2p", "vrp"}
      /\ UNCHANGED <<runs, pending, history, open>>
  BY DEF PlanArrives
<1>3. loading = TRUE
  BY <1>1, <1>2 DEF FlagHolds, Waits, Invariant
<1>4. CASE call[s].ok
  <2> DEFINE run == [kind |-> call[s].kind, run |-> call[s].run, original |-> 0, whole |-> TRUE]
  <2>1. Show(run) /\ Await(s) /\ UNCHANGED loading
    BY <1>4 DEF PlanArrives
  <2>2. call[s].run \in Runs /\ runs[call[s].run].mode = call[s].kind
    BY <1>1, <1>2, <1>4 DEF Fits, Runs
  <2>3. ShownHolds' /\ alive' \in BOOLEAN
    BY <1>2, <2>1, <2>2, ShowStep
  <2>4. /\ FlagFollows(loading, loading', call[s], Listing(call[s].kind), {"p2p", "vrp"})
        /\ FlagFollows(pending, pending', call[s], Listing(call[s].kind), {"recalc"})
    BY <1>1, <1>2, <2>1, Lists DEF FlagFollows, Waits
  <2> QED
    BY <1>1, <1>2, <2>1, <2>3, <2>4, Lists, ArrivedStep DEF Await, Listing
<1>5. CASE ~ call[s].ok
  <2>1. End(s) /\ loading' = FALSE /\ UNCHANGED <<current, alive>>
    BY <1>5 DEF PlanArrives
  <2>2. ShownHolds'
    BY <1>2, <2>1, SameRunsGrow, StillShown
  <2>3. /\ FlagFollows(loading, loading', call[s], Idle, {"p2p", "vrp"})
        /\ FlagFollows(pending, pending', call[s], Idle, {"recalc"})
    BY <1>2, <2>1, Ends DEF FlagFollows, Waits
  <2> QED
    BY <1>1, <1>2, <2>1, <2>2, <2>3, Ends, ArrivedStep DEF End
<1> QED
  BY <1>4, <1>5

LEMMA RecalcArrivesStep ==
  ASSUME Invariant, NEW s \in Slot, RecalcArrives(s)
  PROVE  Invariant'
<1>1. /\ call[s] \in CallRecord /\ Fits(call[s], runs) /\ open \in BOOLEAN
      /\ alive \in BOOLEAN
  BY DEF Invariant
<1>2. /\ call[s].at = "served" /\ call[s].kind = "recalc"
      /\ UNCHANGED <<runs, loading, history, open>>
  BY DEF RecalcArrives
<1>3. CASE call[s].ok
  <2> DEFINE run == [kind |-> "recalc", run |-> call[s].run, original |-> call[s].arg,
                     whole |-> TRUE]
  <2>1. Show(run) /\ Await(s) /\ UNCHANGED pending
    BY <1>3 DEF RecalcArrives
  <2>2. call[s].run \in Runs /\ runs[call[s].run].of = call[s].arg /\ call[s].arg \in Nat
    BY <1>1, <1>2, <1>3 DEF Fits, Runs, CallRecord
  <2>3. ShownHolds' /\ alive' \in BOOLEAN
    BY <1>2, <2>1, <2>2, ShowStep
  <2>4. /\ FlagFollows(loading, loading', call[s], Listing(call[s].kind), {"p2p", "vrp"})
        /\ FlagFollows(pending, pending', call[s], Listing(call[s].kind), {"recalc"})
    BY <1>1, <1>2, <2>1, Lists DEF FlagFollows, Waits
  <2> QED
    BY <1>1, <1>2, <2>1, <2>3, <2>4, Lists, ArrivedStep DEF Await, Listing
<1>4. CASE ~ call[s].ok
  <2>1. End(s) /\ pending' = FALSE /\ UNCHANGED <<current, alive>>
    BY <1>4 DEF RecalcArrives
  <2>2. ShownHolds'
    BY <1>2, <2>1, SameRunsGrow, StillShown
  <2>3. /\ FlagFollows(loading, loading', call[s], Idle, {"p2p", "vrp"})
        /\ FlagFollows(pending, pending', call[s], Idle, {"recalc"})
    BY <1>2, <2>1, Ends DEF FlagFollows, Waits
  <2> QED
    BY <1>1, <1>2, <2>1, <2>2, <2>3, Ends, ArrivedStep DEF End
<1> QED
  BY <1>3, <1>4

\* An answer of a call for which no flag stands ends it.
LEMMA UnflaggedStep ==
  ASSUME Invariant, UNCHANGED <<runs, loading, pending>>, NEW s \in Slot, End(s),
         call[s].kind \notin {"p2p", "vrp", "recalc"}, ShownHolds',
         open' \in BOOLEAN, alive' \in BOOLEAN
  PROVE  Invariant'
<1>1. /\ FlagFollows(loading, loading', call[s], Idle, {"p2p", "vrp"})
      /\ FlagFollows(pending, pending', call[s], Idle, {"recalc"})
  BY Ends DEF FlagFollows, Waits
<1> QED
  BY <1>1, Ends, ArrivedStep DEF End

LEMMA ReplayArrivesStep ==
  ASSUME Invariant, NEW s \in Slot, ReplayArrives(s)
  PROVE  Invariant'
<1>1. /\ RunsHold /\ Fits(call[s], runs) /\ open \in BOOLEAN /\ alive \in BOOLEAN
  BY DEF Invariant
<1>2. /\ call[s].at = "served" /\ call[s].kind = "replay" /\ End(s)
      /\ UNCHANGED <<runs, loading, pending, history>>
  BY DEF ReplayArrives
<1>3. CASE call[s].ok
  <2> DEFINE mode == runs[call[s].run].mode
             run == [kind |-> mode, run |-> call[s].run, original |-> 0, whole |-> FALSE]
  <2>1. Show(run) /\ open' = FALSE
    BY <1>3 DEF ReplayArrives
  <2>2. call[s].run \in Runs
    BY <1>1, <1>2, <1>3 DEF Fits, Runs
  <2>3. mode \in {"p2p", "vrp"}
    <3>1. runs[call[s].run] \in RunRecord
      BY <1>1, <2>2 DEF RunsHold, Runs
    <3> QED
      BY <3>1, FrontendAssumption DEF RunRecord
  <2>4. ShownHolds' /\ alive' \in BOOLEAN
    BY <1>2, <2>1, <2>2, <2>3, ShowStep
  <2> QED
    BY <1>1, <1>2, <2>1, <2>4, UnflaggedStep
<1>4. CASE ~ call[s].ok
  <2>1. UNCHANGED <<current, alive, open>>
    BY <1>4 DEF ReplayArrives
  <2>2. ShownHolds'
    BY <1>2, <2>1, SameRunsGrow, StillShown
  <2> QED
    BY <1>1, <1>2, <2>1, <2>2, UnflaggedStep
<1> QED
  BY <1>3, <1>4

LEMMA DeleteArrivesStep ==
  ASSUME Invariant, NEW s \in Slot, DeleteArrives(s)
  PROVE  Invariant'
<1>1. ShownHolds /\ open \in BOOLEAN /\ alive \in BOOLEAN
  BY DEF Invariant
<1>2. ShownHolds'
  BY <1>1 DEF DeleteArrives, ShownHolds, CurrentRunIsStored, Runs
<1> QED
  BY <1>1, <1>2, UnflaggedStep DEF DeleteArrives

LEMMA ListArrivesStep ==
  ASSUME Invariant, NEW s \in Slot, ListArrives(s)
  PROVE  Invariant'
<1>1. /\ call[s] \in CallRecord /\ Fits(call[s], runs) /\ ShownHolds
      /\ open \in BOOLEAN /\ alive \in BOOLEAN
      /\ loading \in BOOLEAN /\ pending \in BOOLEAN
      /\ FlagHolds(loading, call, {"p2p", "vrp"}) /\ FlagHolds(pending, call, {"recalc"})
  BY DEF Invariant
<1>2. /\ End(s) /\ UNCHANGED <<runs, current, open, alive>>
      /\ history' = IF call[s].ok THEN call[s].items ELSE history
      /\ loading' = (loading /\ call[s].kind \notin {"p2p", "vrp"})
      /\ pending' = (pending /\ call[s].kind # "recalc")
      /\ call[s].at \in {"listed", "served"}
  BY DEF ListArrives
<1>3. ShownHolds'
  BY <1>1, <1>2 DEF ShownHolds, CurrentRunIsStored, Runs, Fits
<1>4. /\ Waits(call[s], {"p2p", "vrp"}) <=> call[s].kind \in {"p2p", "vrp"}
      /\ Waits(call[s], {"recalc"}) <=> call[s].kind = "recalc"
  BY <1>2 DEF Waits
<1>5. FlagFollows(loading, loading', call[s], Idle, {"p2p", "vrp"})
  BY <1>1, <1>2, <1>4, Ends DEF FlagFollows
<1>6. FlagFollows(pending, pending', call[s], Idle, {"recalc"})
  BY <1>1, <1>2, <1>4, Ends DEF FlagFollows
<1> QED
  BY <1>1, <1>2, <1>3, <1>5, <1>6, Ends, ArrivedStep DEF End

-----------------------------------------------------------------------------

\* A step without a call.
LEMMA OtherStep ==
  ASSUME Invariant, CloseHistory \/ Reload \/ Elsewhere
  PROVE  Invariant'
<1>1. RunsHold /\ ShownHolds
  BY DEF Invariant
<1>2. CASE CloseHistory
  <2>1. UNCHANGED <<runs, call, loading, pending, current, history, alive>> /\ open' = FALSE
    BY <1>2 DEF CloseHistory
  <2> QED
    BY <2>1 DEF Invariant, RunsHold, ShownHolds, CurrentRunIsStored, Runs
<1>3. CASE Reload
  <2>1. /\ UNCHANGED runs /\ call' = [s \in Slot |-> Idle]
        /\ loading' = FALSE /\ pending' = FALSE /\ open' = FALSE /\ alive' = TRUE
        /\ current' = NoRun /\ history' = {}
    BY <1>3 DEF Reload
  <2>2. RunsHold' /\ call' \in [Slot -> CallRecord] /\ \A s \in Slot : Fits(call'[s], runs')
    BY <1>1, <2>1, Ends DEF RunsHold, Runs, Fits
  <2>3. FlagHolds(loading', call', {"p2p", "vrp"}) /\ FlagHolds(pending', call', {"recalc"})
    BY <2>1, Ends DEF FlagHolds
  <2>4. ShownHolds'
    BY <2>1 DEF ShownHolds, NoRun, CurrentRunIsStored
  <2> QED
    BY <2>1, <2>2, <2>3, <2>4 DEF Invariant
<1>4. CASE Elsewhere
  <2>1. UNCHANGED <<call, page>>
    BY <1>4 DEF Elsewhere
  <2>2. Grows
    <3>1. CASE \E mode \in Mode : Store(mode, 0, "done")
      <4>1. 0 \in 0 .. Len(runs)
        BY <1>1 DEF RunsHold
      <4> QED
        BY <1>1, <3>1, <4>1, StoreGrows
    <3>2. CASE \E r \in Stored : runs' = [runs EXCEPT ![r].gone = TRUE]
      BY <1>1, <3>2, DropGrows DEF Stored
    <3> QED
      BY <1>4, <3>1, <3>2 DEF Elsewhere
  <2>3. \A s \in Slot : Fits(call[s], runs')
    BY <1>1, <2>2, StillFits DEF Invariant
  <2>4. ShownHolds'
    BY <2>1, <2>2, StillShown DEF page
  <2> QED
    BY <2>1, <2>2, <2>3, <2>4 DEF Invariant, Grows, page
<1> QED
  BY <1>2, <1>3, <1>4

LEMMA NextHolds == Invariant /\ [Next]_vars => Invariant'
<1> SUFFICES ASSUME Invariant, [Next]_vars PROVE Invariant'
  OBVIOUS
<1>1. CASE UNCHANGED vars
  BY <1>1 DEF vars, Invariant, RunsHold, ShownHolds, CurrentRunIsStored, Runs
<1>2. CASE Next
  <2>1. ASSUME NEW s \in Slot, Arrive(s) PROVE Invariant'
    BY <2>1, PlanArrivesStep, RecalcArrivesStep, ReplayArrivesStep, DeleteArrivesStep,
       ListArrivesStep DEF Arrive
  <2> QED
    BY <1>2, <2>1, UserStep, ServeStep, OtherStep DEF Next
<1> QED
  BY <1>1, <1>2

\* The invariant holds for any number of calls under way.
THEOREM PageOnTrack == Spec => []Invariant
<1> QED
  BY InitHolds, NextHolds, PTL DEF Spec

\* What a call brings is a run of the kind it asked for, and there is never a
\* second recalculation under way.
THEOREM PageTyped == Spec => []TypeOK
<1>1. Invariant => TypeOK
  BY Implied
<1> QED
  BY PageOnTrack, <1>1, PTL

\* The loading flag is set exactly while the only plan is under way.
THEOREM NeverTwoPlans == Spec => []OnePlanAtATime
<1>1. Invariant => OnePlanAtATime
  BY Implied
<1> QED
  BY PageOnTrack, <1>1, PTL

\* What is shown was stored, in whatever order the answers arrive.
THEOREM ShownAlwaysStored == Spec => []CurrentRunIsStored
<1>1. Invariant => CurrentRunIsStored
  BY Implied
<1> QED
  BY PageOnTrack, <1>1, PTL

\* Nothing but a listing brings a run into the history.
THEOREM HistoryGrowsByListing == Spec => OnlyListingsAdd
<1>1. [Next]_vars =>
        [history' \subseteq history \/ \E s \in Slot : ListArrives(s)]_vars
  BY DEF Next, vars, page, Submit, WhatIf, OpenHistory, ClickEntry, CloseHistory, Reload,
     Elsewhere, Serve, ServePlan, ServeRecalc, ServeReplay, ServeDelete, ServeList, Arrive,
     PlanArrives, RecalcArrives, ReplayArrives, DeleteArrives
<1> QED
  BY <1>1, PTL DEF Spec, OnlyListingsAdd

=============================================================================
