----------------------------- MODULE RunService -----------------------------
(***************************************************************************)
(* services/run_service.py behind api/routers/runs.py: relabel and delete  *)
(* a run.  (get_run, which recalculation reads the original run with, is   *)
(* in module Planning; listing changes nothing.)                           *)
(***************************************************************************)
EXTENDS Store

\* PATCH /runs/{id}; labelled: the payload changes the label.
ReceivePatchRun(q) ==
  /\ req[q].at = "idle" /\ "patchRun" \in Endpoint
  /\ \E r \in Run, b \in BOOLEAN :
       req' = [req EXCEPT ![q].kind = "patchRun", ![q].at = "readRow",
                          ![q].run = r, ![q].labelled = b]
  /\ UNCHANGED <<vehicles, runs>>

\* DELETE /runs/{id}
ReceiveDeleteRun(q) ==
  /\ req[q].at = "idle" /\ "deleteRun" \in Endpoint
  /\ \E r \in Run :
       req' = [req EXCEPT ![q].kind = "deleteRun", ![q].at = "readRow",
                          ![q].run = r]
  /\ UNCHANGED <<vehicles, runs>>

ReadRun(q) ==
  /\ req[q].at = "readRow" /\ req[q].kind \in {"patchRun", "deleteRun"}
  /\ \/ ~ HasRun(req[q].run) /\ Reject(q, "404")
     \/ HasRun(req[q].run) /\ Goto(q, "flush") /\ UNCHANGED <<vehicles, runs>>

RunUnlocked(q) == \A p \in Request \ {q} : ~ WritesRun(p, req[q].run)

\* An UPDATE that finds its row gone is an exception nobody handles; without
\* a change there is no UPDATE.
UpdateRun(q) ==
  /\ req[q].at = "flush" /\ req[q].kind = "patchRun"
  /\ \/ req[q].labelled /\ ~ HasRun(req[q].run) /\ Reject(q, "500")
     \/ /\ req[q].labelled => HasRun(req[q].run) /\ RunUnlocked(q)
        /\ Goto(q, "commit") /\ UNCHANGED <<vehicles, runs>>

\* The rows of the run, its jobs, routes and segments go together.  Deleting
\* no row is only a warning.
DeleteRunRows(q) ==
  /\ req[q].at = "flush" /\ req[q].kind = "deleteRun"
  /\ RunUnlocked(q)
  /\ Goto(q, "commit") /\ UNCHANGED <<vehicles, runs>>

\* Mutant: a payload without a label clears the label.
CommitPatchedRunUnset(q) ==
  /\ req[q].at = "commit" /\ req[q].kind = "patchRun"
  /\ runs' = IF HasRun(req[q].run)
               THEN [runs EXCEPT ![req[q].run].labelled = req[q].labelled]
               ELSE runs
  /\ Goto(q, "respond") /\ UNCHANGED vehicles

CommitPatchedRun(q) ==
  /\ req[q].at = "commit" /\ req[q].kind = "patchRun"
  /\ runs' = IF req[q].labelled
               THEN [runs EXCEPT ![req[q].run].labelled = TRUE] ELSE runs
  /\ Goto(q, "respond") /\ UNCHANGED vehicles

CommitDeletedRun(q) ==
  /\ req[q].at = "commit" /\ req[q].kind = "deleteRun"
  /\ runs' = [runs EXCEPT ![req[q].run] = Deleted]
  /\ Goto(q, "respond") /\ UNCHANGED vehicles

RespondRun(q) ==
  /\ req[q].at = "respond"
  /\ \/ req[q].kind = "patchRun" /\ Reject(q, "200")
     \/ req[q].kind = "deleteRun" /\ Reject(q, "204")

ReceiveRun(q) == ReceivePatchRun(q) \/ ReceiveDeleteRun(q)

RunStep(q) ==
  \/ ReadRun(q) \/ UpdateRun(q) \/ DeleteRunRows(q)
  \/ CommitPatchedRun(q) \/ CommitDeletedRun(q) \/ RespondRun(q)
=============================================================================
