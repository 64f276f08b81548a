------------------------------ MODULE RunLedger ------------------------------
(***************************************************************************)
(* What the backend promises about its runs, whatever its handlers do      *)
(* concurrently: a run appears at once and finished, its content never     *)
(* changes, its label may be edited, its vehicle may be forgotten, and     *)
(* once struck from the ledger it does not come back.                      *)
(***************************************************************************)
CONSTANTS
  Run,      \* run ids
  Vehicle,  \* vehicle ids
  Entry,    \* the entries a run may have
  Initial,  \* the ledger to begin with
  None, Unborn, Deleted

VARIABLE ledger  \* an entry, Unborn or Deleted, for every run id

Absent == {Unborn, Deleted}

Finished(entry) ==
  \/ entry.status = "done" /\ entry.routes # "none"
  \/ entry.status = "failed" /\ entry.routes = "none" /\ ~ entry.priced

Init == ledger = Initial

\* Some finished entry is published as run r.
Publish(r) ==
  /\ ledger[r] = Unborn
  /\ ledger'[r] \in Entry
  /\ Finished(ledger'[r])
  /\ ledger' = [ledger EXCEPT ![r] = ledger'[r]]

Relabel(r) ==
  /\ ledger[r] \notin Absent
  /\ ledger' = [ledger EXCEPT ![r].labelled = TRUE]

\* Every run of vehicle v forgets it at the same moment.
Forget(v) ==
  ledger' = [r \in Run |->
               IF ledger[r] \notin Absent /\ ledger[r].vehicle = v
                 THEN [ledger[r] EXCEPT !.vehicle = None] ELSE ledger[r]]

Strike(r) ==
  /\ ledger[r] \notin Absent
  /\ ledger' = [ledger EXCEPT ![r] = Deleted]

Next ==
  \/ \E r \in Run : Publish(r) \/ Relabel(r) \/ Strike(r)
  \/ \E v \in Vehicle : Forget(v)

Spec == Init /\ [][Next]_ledger
=============================================================================
