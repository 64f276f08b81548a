---------------------------- MODULE FrontendStore ----------------------------
(***************************************************************************)
(* The state of the web page (store/useEloStore.ts) and the calls its      *)
(* panels make: plans (InputPanelP2P, InputPanelVRP), recalculations       *)
(* (WhatIfPanel), the history with its replays and deletions               *)
(* (HistorySidePanel), and what page.tsx makes of the current run.         *)
(*                                                                         *)
(* A call is a slot: the user starts it, the backend serves it, its answer *)
(* arrives, in any order among the calls under way.  The user may reload   *)
(* the page at any time.                                                   *)
(***************************************************************************)
EXTENDS Naturals, Sequences

CONSTANTS
  Slot,      \* how many calls may be under way
  MaxRuns,   \* the runs the backend stores in a behaviour
  Mode       \* the plans that are asked for: a subset of {"p2p", "vrp"}

ASSUME FrontendAssumption == Mode \subseteq {"p2p", "vrp"} /\ MaxRuns \in Nat

VARIABLES
  runs,      \* the runs of the backend, deleted ones included
  call,      \* the calls
  loading,   \* a plan is under way: the buttons of both panels are disabled
  pending,   \* a recalculation is under way
  current,   \* the current run
  history,   \* the runs listed
  open,      \* the history panel is open; the keyboard still reaches the rest
  alive      \* the page is rendered

vars == <<runs, call, loading, pending, current, history, open, alive>>
page == <<loading, pending, current, history, open, alive>>

NoRun == [kind |-> "none", run |-> 0, original |-> 0, whole |-> TRUE]
Idle == [kind |-> "none", at |-> "idle", arg |-> 0, ok |-> FALSE, run |-> 0, items |-> {}]

Runs == 1 .. Len(runs)
Stored == {r \in Runs : ~ runs[r].gone}

Init ==
  /\ runs = << >>
  /\ call = [s \in Slot |-> Idle]
  /\ loading = FALSE /\ pending = FALSE
  /\ current = NoRun /\ history = {} /\ open = FALSE /\ alive = TRUE

-----------------------------------------------------------------------------
(* What the user starts *)

Start(s, kind, arg) ==
  /\ call[s].at = "idle"
  /\ call' = [call EXCEPT ![s] = [Idle EXCEPT !.kind = kind, !.at = "asked", !.arg = arg]]

\* Mutant: the button of the panel is not disabled.
SubmitAnytime(s, mode) ==
  /\ alive
  /\ Start(s, mode, 0)
  /\ loading' = TRUE
  /\ UNCHANGED <<runs, pending, current, history, open, alive>>

Submit(s, mode) ==
  /\ alive /\ ~ loading
  /\ Start(s, mode, 0)
  /\ loading' = TRUE
  /\ UNCHANGED <<runs, pending, current, history, open, alive>>

\* Mutant: the buttons of the panel are not disabled.
WhatIfAnytime(s) ==
  /\ alive /\ current.kind # "none"
  /\ Start(s, "recalc", current.run)
  /\ pending' = TRUE
  /\ UNCHANGED <<runs, loading, current, history, open, alive>>

WhatIf(s) ==
  /\ alive /\ current.kind # "none" /\ ~ pending
  /\ Start(s, "recalc", current.run)
  /\ pending' = TRUE
  /\ UNCHANGED <<runs, loading, current, history, open, alive>>

OpenHistory(s) ==
  /\ alive /\ ~ open
  /\ Start(s, "list", 0)
  /\ open' = TRUE
  /\ UNCHANGED <<runs, loading, pending, current, history, alive>>

CloseHistory ==
  /\ alive /\ open
  /\ open' = FALSE
  /\ UNCHANGED <<runs, call, loading, pending, current, history, alive>>

\* The buttons of an entry are never disabled.
ClickEntry(s) ==
  /\ alive /\ open
  /\ \E r \in history, kind \in {"replay", "delete"} : Start(s, kind, r)
  /\ UNCHANGED <<runs, page>>

\* The page starts anew, and hears no more of the calls under way.
Reload ==
  /\ loading' = FALSE /\ pending' = FALSE
  /\ current' = NoRun /\ history' = {} /\ open' = FALSE /\ alive' = TRUE
  /\ call' = [s \in Slot |-> Idle]
  /\ UNCHANGED runs

-----------------------------------------------------------------------------
(* What the backend serves *)

Asked(s, kinds) == call[s].at = "asked" /\ call[s].kind \in kinds

\* An answer: what it brings, or an error.
Served(s, ok, run, items) ==
  call' = [call EXCEPT ![s].at = "served", ![s].ok = ok, ![s].run = IF ok THEN run ELSE 0,
                       ![s].items = IF ok THEN items ELSE {}]

Store(mode, original, status) ==
  /\ Len(runs) < MaxRuns
  /\ runs' = Append(runs, [mode |-> mode, of |-> original, status |-> status, gone |-> FALSE])

\* A run is stored as done, stored as failed, or not at all.  Only a done one
\* is answered with itself, if the answer is not lost on its way.
Plans(s, mode, original) ==
  \/ \E status \in {"done", "failed"}, ok \in BOOLEAN :
       /\ ok => status = "done"
       /\ Store(mode, original, status)
       /\ Served(s, ok, Len(runs) + 1, {})
  \/ Served(s, FALSE, 0, {}) /\ UNCHANGED runs

ServePlan(s) ==
  /\ Asked(s, {"p2p", "vrp"})
  /\ Plans(s, call[s].kind, 0)
  /\ UNCHANGED page

\* A run that is gone, or failed, is not recalculated.
ServeRecalc(s) ==
  /\ Asked(s, {"recalc"})
  /\ LET r == call[s].arg
     IN IF r \in Stored /\ runs[r].status = "done" THEN Plans(s, runs[r].mode, r)
        ELSE Served(s, FALSE, 0, {}) /\ UNCHANGED runs
  /\ UNCHANGED page

ServeReplay(s) ==
  /\ Asked(s, {"replay"})
  /\ \E ok \in BOOLEAN : (ok => call[s].arg \in Stored) /\ Served(s, ok, call[s].arg, {})
  /\ UNCHANGED <<runs, page>>

ServeDelete(s) ==
  /\ Asked(s, {"delete"})
  /\ LET r == call[s].arg
     IN IF r \in Stored
          THEN /\ runs' = [runs EXCEPT ![r].gone = TRUE]
               /\ \E ok \in BOOLEAN : Served(s, ok, 0, {})
          ELSE Served(s, FALSE, 0, {}) /\ UNCHANGED runs
  /\ UNCHANGED page

\* A listing of its own, or the one a plan or a recalculation ends with.
ServeList(s) ==
  /\ \E ok \in BOOLEAN :
       \/ Asked(s, {"list"}) /\ Served(s, ok, 0, Stored)
       \/ /\ call[s].at = "listing"
          /\ call' = [call EXCEPT ![s].at = "listed", ![s].ok = ok,
                                   ![s].items = IF ok THEN Stored ELSE {}]
  /\ UNCHANGED <<runs, page>>

\* Other pages, and calls from before a reload, change runs as well.
Elsewhere ==
  /\ \/ \E mode \in Mode : Store(mode, 0, "done")
     \/ \E r \in Stored : runs' = [runs EXCEPT ![r].gone = TRUE]
  /\ UNCHANGED <<call, page>>

-----------------------------------------------------------------------------
(* What arrives at the page *)

\* page.tsx reads the depot and the jobs of a VRP run, which only the answer
\* of a plan has: rendering a replayed one raises.
Rendered(run) == run.kind # "vrp" \/ run.whole

Show(run) ==
  /\ current' = run
  /\ alive' = (alive /\ Rendered(run))

Await(s) == call' = [call EXCEPT ![s] = [Idle EXCEPT !.kind = call[s].kind, !.at = "listing"]]
End(s) == call' = [call EXCEPT ![s] = Idle]

\* Mutant: the flag is cleared only after a success.
PlanArrivesWithoutFinally(s) ==
  /\ call[s].at = "served" /\ call[s].kind \in {"p2p", "vrp"}
  /\ IF call[s].ok
       THEN /\ Show([kind |-> call[s].kind, run |-> call[s].run, original |-> 0, whole |-> TRUE])
            /\ Await(s)
       ELSE End(s) /\ UNCHANGED <<current, alive>>
  /\ UNCHANGED <<runs, loading, pending, history, open>>

\* The run is shown, and the flag stays until the history is listed.
PlanArrives(s) ==
  /\ call[s].at = "served" /\ call[s].kind \in {"p2p", "vrp"}
  /\ IF call[s].ok
       THEN /\ Show([kind |-> call[s].kind, run |-> call[s].run, original |-> 0, whole |-> TRUE])
            /\ Await(s) /\ UNCHANGED loading
       ELSE End(s) /\ loading' = FALSE /\ UNCHANGED <<current, alive>>
  /\ UNCHANGED <<runs, pending, history, open>>

\* Mutant: the original is looked up when the answer is there.
RecalcArrivesLate(s) ==
  /\ call[s].at = "served" /\ call[s].kind = "recalc"
  /\ IF call[s].ok
       THEN /\ Show([kind |-> "recalc", run |-> call[s].run, original |-> current.run,
                     whole |-> TRUE])
            /\ Await(s) /\ UNCHANGED pending
       ELSE End(s) /\ pending' = FALSE /\ UNCHANGED <<current, alive>>
  /\ UNCHANGED <<runs, loading, history, open>>

RecalcArrives(s) ==
  /\ call[s].at = "served" /\ call[s].kind = "recalc"
  /\ IF call[s].ok
       THEN /\ Show([kind |-> "recalc", run |-> call[s].run, original |-> call[s].arg,
                     whole |-> TRUE])
            /\ Await(s) /\ UNCHANGED pending
       ELSE End(s) /\ pending' = FALSE /\ UNCHANGED <<current, alive>>
  /\ UNCHANGED <<runs, loading, history, open>>

\* The detail of a run is wrapped as the answer of a plan of its mode.
ReplayArrives(s) ==
  /\ call[s].at = "served" /\ call[s].kind = "replay"
  /\ End(s)
  /\ IF call[s].ok
       THEN /\ Show([kind |-> runs[call[s].run].mode, run |-> call[s].run, original |-> 0,
                     whole |-> FALSE])
            /\ open' = FALSE
       ELSE UNCHANGED <<current, alive, open>>
  /\ UNCHANGED <<runs, loading, pending, history>>

\* Mutant: an entry whose deletion failed is put back.
DeleteArrivesRollingBack(s) ==
  /\ call[s].at = "served" /\ call[s].kind = "delete"
  /\ End(s)
  /\ history' = IF call[s].ok THEN history \ {call[s].arg} ELSE history \cup {call[s].arg}
  /\ UNCHANGED <<runs, loading, pending, current, open, alive>>

\* The list is filtered as it is by now.  A failure is not caught.
DeleteArrives(s) ==
  /\ call[s].at = "served" /\ call[s].kind = "delete"
  /\ End(s)
  /\ history' = IF call[s].ok THEN history \ {call[s].arg} ELSE history
  /\ UNCHANGED <<runs, loading, pending, current, open, alive>>

ListArrives(s) ==
  /\ \/ call[s].at = "listed"
     \/ call[s].at = "served" /\ call[s].kind = "list"
  /\ End(s)
  /\ history' = IF call[s].ok THEN call[s].items ELSE history
  /\ loading' = (loading /\ call[s].kind \notin {"p2p", "vrp"})
  /\ pending' = (pending /\ call[s].kind # "recalc")
  /\ UNCHANGED <<runs, current, open, alive>>

-----------------------------------------------------------------------------

Serve(s) ==
  ServePlan(s) \/ ServeRecalc(s) \/ ServeReplay(s) \/ ServeDelete(s) \/ ServeList(s)

Arrive(s) ==
  PlanArrives(s) \/ RecalcArrives(s) \/ ReplayArrives(s) \/ DeleteArrives(s) \/ ListArrives(s)

Next ==
  \/ \E s \in Slot :
       \/ \E mode \in Mode : Submit(s, mode)
       \/ WhatIf(s) \/ OpenHistory(s) \/ ClickEntry(s)
       \/ Serve(s) \/ Arrive(s)
  \/ CloseHistory \/ Reload \/ Elsewhere

Spec == Init /\ [][Next]_vars

\* The backend answers or the connection breaks, and the browser's event loop
\* runs; the user need not do anything.
FairSpec == Spec /\ \A s \in Slot : WF_vars(Serve(s)) /\ WF_vars(Arrive(s))

-----------------------------------------------------------------------------
(* Properties *)

UnderWay(kinds) ==
  {s \in Slot : call[s].kind \in kinds
                  /\ call[s].at \in {"asked", "served", "listing", "listed"}}

\* What a successful answer brings is a run of the backend, of the kind that was
\* asked for, made from the run it was asked for.
AnswersFit ==
  \A s \in Slot :
    /\ call[s].items \subseteq Runs
    /\ call[s].at = "served" /\ call[s].ok =>
         LET r == call[s].run
         IN CASE call[s].kind \in {"p2p", "vrp"} -> r \in Runs /\ runs[r].mode = call[s].kind
              [] call[s].kind = "recalc" -> r \in Runs /\ runs[r].of = call[s].arg
              [] call[s].kind = "replay" -> r \in Runs
              [] OTHER -> TRUE

\* The flag of the recalculations says whether one is under way: there is
\* never a second one.
TypeOK ==
  /\ runs \in Seq([mode : Mode, of : Nat, status : {"done", "failed"}, gone : BOOLEAN])
  /\ \A r \in Runs : runs[r].of < r
  /\ call \in [Slot -> [kind : Mode \cup {"none", "recalc", "list", "replay", "delete"},
                       at : {"idle", "asked", "served", "listing", "listed"},
                       arg : Nat, ok : BOOLEAN, run : Nat, items : SUBSET Nat]]
  /\ current \in [kind : {"none", "p2p", "vrp", "recalc"}, run : Nat, original : Nat,
                  whole : BOOLEAN]
  /\ history \subseteq Runs
  /\ loading \in BOOLEAN /\ pending \in BOOLEAN /\ open \in BOOLEAN /\ alive \in BOOLEAN
  /\ AnswersFit
  /\ \A s, t \in UnderWay({"recalc"}) : s = t
  /\ pending <=> UnderWay({"recalc"}) # {}

\* Two panels share one flag: it is set exactly while a plan of either is under
\* way, its listing included, and no second plan can be asked for meanwhile.
OnePlanAtATime ==
  /\ \A s, t \in UnderWay({"p2p", "vrp"}) : s = t
  /\ loading <=> UnderWay({"p2p", "vrp"}) # {}

\* Whatever order the answers come in, the current run is one the backend
\* stored, of the kind it is shown as, and a recalculation is shown with the
\* run it was made from.
CurrentRunIsStored ==
  LET r == current.run
  IN CASE current.kind = "none" -> r = 0
       [] current.kind = "recalc" -> r \in Runs /\ current.original = runs[r].of
       [] OTHER -> r \in Runs /\ runs[r].mode = current.kind

\* Only a listing brings a run into the history: no answer to a deletion that
\* was overtaken by a listing brings one back.
OnlyListingsAdd ==
  [][history' \subseteq history \/ \E s \in Slot : ListArrives(s)]_vars

\* The page is never left waiting for a plan.
LoadingEnds == loading ~> ~ loading

\* A run of the history can be replayed.
PageAlive == alive
=============================================================================
