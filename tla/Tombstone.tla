------------------------------ MODULE Tombstone ------------------------------
(***************************************************************************)
(* The tombstone reconciler of pkg/engine/tombstone.go, run against the    *)
(* API server that other actors (users, other controllers) write as well.  *)
(*                                                                         *)
(* Every reconciliation ends with ReconcileTombstones: for each embedded   *)
(* tombstone, in order, reconcileTombstone Gets the live object, checks    *)
(* the managed-by label, and Deletes it.  Get and Delete are two separate  *)
(* API calls; the Delete carries no precondition, so it removes whatever   *)
(* object has the name when it arrives.  Each outcome sets the tombstone's *)
(* status gauge (virt_platform_tombstone_status) and errors are            *)
(* aggregated, never abort the batch.                                      *)
(*                                                                         *)
(* An object is abstracted to whether it exists, whether it carries the    *)
(* label managed-by=virt-platform-autopilot, and an incarnation number     *)
(* that grows each time the name is created again.  Events and log lines  *)
(* are left out: each event mirrors the gauge value set next to it.       *)
(***************************************************************************)
EXTENDS Naturals, FiniteSets

CONSTANTS
    NumTombstones,    \* number of embedded tombstone declarations
    MaxIncarnation,   \* bound: how often a tombstoned name may be created again
    MaxEnvSteps,      \* bound: number of writes by other actors
    MaxApiErrors      \* bound: number of API calls that fail (permission, webhook, timeout)

ASSUME ConstantsAssumption ==
    /\ NumTombstones \in Nat
    /\ MaxIncarnation \in Nat
    /\ MaxEnvSteps \in Nat
    /\ MaxApiErrors \in Nat

\* The tombstones, in the order LoadTombstones returns them.
Keys == 1..NumTombstones

\* The values SetTombstoneStatus writes; "none" before the first write.
Status == {"none", "deleted", "error", "skipped"}

Object == [exists : BOOLEAN, labeled : BOOLEAN, inc : 0..MaxIncarnation]

VARIABLES
    live,          \* the API server: the object at each tombstoned name
    phase,         \* "idle" between reconciliations, "get" or "delete" inside one
    cur,           \* index of the tombstone being processed
    deletedCount,  \* deletedCount of ReconcileTombstones
    errCount,      \* len(aggregatedErrors) of ReconcileTombstones
    metric,        \* the status gauge of each tombstone
    lastResult,    \* what the last completed ReconcileTombstones returned
    envBudget,     \* writes by other actors still allowed
    errBudget,     \* failing API calls still allowed
    deletions,     \* history: each object the engine deleted, as it was then
    passFailed,    \* history: an API call failed in the current pass
    lastFailed     \* history: passFailed of the last completed pass

vars == <<live, phase, cur, deletedCount, errCount, metric, lastResult,
          envBudget, errBudget, deletions, passFailed, lastFailed>>

TypeOK ==
    /\ live \in [Keys -> Object]
    /\ phase \in {"idle", "get", "delete"}
    /\ cur \in 1..NumTombstones + 1
    /\ deletedCount \in 0..NumTombstones
    /\ errCount \in 0..NumTombstones
    /\ metric \in [Keys -> Status]
    /\ lastResult \in [count : 0..NumTombstones, err : BOOLEAN]
    /\ envBudget \in 0..MaxEnvSteps
    /\ errBudget \in 0..MaxApiErrors
    /\ deletions \subseteq [key : Keys, inc : 0..MaxIncarnation, labeled : BOOLEAN]
    /\ passFailed \in BOOLEAN
    /\ lastFailed \in BOOLEAN

(* Any cluster the process may start against: each tombstoned name may    *)
(* hold an object, labeled or not.  No gauge has been written yet.         *)
Init ==
    /\ live \in [Keys -> [exists : BOOLEAN, labeled : BOOLEAN, inc : {0}]]
    /\ phase = "idle"
    /\ cur = 1
    /\ deletedCount = 0
    /\ errCount = 0
    /\ metric = [k \in Keys |-> "none"]
    /\ lastResult = [count |-> 0, err |-> FALSE]
    /\ envBudget = MaxEnvSteps
    /\ errBudget = MaxApiErrors
    /\ deletions = {}
    /\ passFailed = FALSE
    /\ lastFailed = FALSE

-----------------------------------------------------------------------------
(* The reconciler.                                                         *)

\* The loop moves on to the next tombstone after one has been handled.
NextTombstone ==
    /\ cur' = cur + 1
    /\ phase' = "get"

\* An API call fails for a reason other than NotFound.
ApiCallFails ==
    /\ errBudget > 0
    /\ errBudget' = errBudget - 1
    /\ passFailed' = TRUE

\* Variant: the counters of the previous pass are not reset.
ReconcileTombstonesStartNoReset ==
    /\ phase = "idle"
    /\ cur' = 1
    /\ passFailed' = FALSE
    /\ IF NumTombstones = 0
         THEN /\ lastResult' = [count |-> 0, err |-> FALSE]
              /\ lastFailed' = FALSE
              /\ UNCHANGED phase
         ELSE /\ phase' = "get"
              /\ UNCHANGED <<lastResult, lastFailed>>
    /\ UNCHANGED <<live, metric, envBudget, errBudget, deletions, deletedCount, errCount>>

(* ReconcileTombstones starts: no tombstones returns (0, nil) at once,     *)
(* otherwise the loop begins with the first one.                           *)
ReconcileTombstonesStart ==
    /\ phase = "idle"
    /\ deletedCount' = 0
    /\ errCount' = 0
    /\ cur' = 1
    /\ passFailed' = FALSE
    /\ IF NumTombstones = 0
         THEN /\ lastResult' = [count |-> 0, err |-> FALSE]
              /\ lastFailed' = FALSE
              /\ UNCHANGED phase
         ELSE /\ phase' = "get"
              /\ UNCHANGED <<lastResult, lastFailed>>
    /\ UNCHANGED <<live, metric, envBudget, errBudget, deletions>>

\* Variant: a failed Get sets the gauge but its error is not aggregated.
GetFailedNotAggregated ==
    /\ phase = "get"
    /\ cur <= NumTombstones
    /\ ApiCallFails
    /\ metric' = [metric EXCEPT ![cur] = "error"]
    /\ NextTombstone
    /\ UNCHANGED <<live, deletedCount, errCount, lastResult, envBudget, deletions, lastFailed>>

(* Get fails with an error other than NotFound: status Error, the error    *)
(* is aggregated and the loop continues.                                   *)
GetFailed ==
    /\ phase = "get"
    /\ cur <= NumTombstones
    /\ ApiCallFails
    /\ metric' = [metric EXCEPT ![cur] = "error"]
    /\ errCount' = errCount + 1
    /\ NextTombstone
    /\ UNCHANGED <<live, deletedCount, lastResult, envBudget, deletions, lastFailed>>

\* Get returns NotFound: already deleted, status Deleted, no error.
GetNotFound ==
    /\ phase = "get"
    /\ cur <= NumTombstones
    /\ ~live[cur].exists
    /\ metric' = [metric EXCEPT ![cur] = "deleted"]
    /\ NextTombstone
    /\ UNCHANGED <<live, deletedCount, errCount, lastResult, envBudget,
                   errBudget, deletions, passFailed, lastFailed>>

\* Variant: a skipped tombstone leaves its gauge as it was.
GetLabelMismatchNoStatus ==
    /\ phase = "get"
    /\ cur <= NumTombstones
    /\ live[cur].exists
    /\ ~live[cur].labeled
    /\ NextTombstone
    /\ UNCHANGED <<live, deletedCount, errCount, metric, lastResult, envBudget,
                   errBudget, deletions, passFailed, lastFailed>>

\* Mutant: an object without the label is reported as gone.
GetLabelMismatchAsDeleted ==
    /\ phase = "get"
    /\ cur <= NumTombstones
    /\ live[cur].exists
    /\ ~live[cur].labeled
    /\ metric' = [metric EXCEPT ![cur] = "deleted"]
    /\ NextTombstone
    /\ UNCHANGED <<live, deletedCount, errCount, lastResult, envBudget,
                   errBudget, deletions, passFailed, lastFailed>>

\* The live object lacks the label: the safety check skips it, status Skipped.
GetLabelMismatch ==
    /\ phase = "get"
    /\ cur <= NumTombstones
    /\ live[cur].exists
    /\ ~live[cur].labeled
    /\ metric' = [metric EXCEPT ![cur] = "skipped"]
    /\ NextTombstone
    /\ UNCHANGED <<live, deletedCount, errCount, lastResult, envBudget,
                   errBudget, deletions, passFailed, lastFailed>>

\* The live object carries the label: go on to Delete it.
GetLabeled ==
    /\ phase = "get"
    /\ cur <= NumTombstones
    /\ live[cur].exists
    /\ live[cur].labeled
    /\ phase' = "delete"
    /\ UNCHANGED <<live, cur, deletedCount, errCount, metric, lastResult,
                   envBudget, errBudget, deletions, passFailed, lastFailed>>

(* Delete fails, because the call fails or because the name no longer     *)
(* holds an object (NotFound is not told apart here): status Error, the    *)
(* error is aggregated.                                                    *)
DeleteFailed ==
    /\ phase = "delete"
    /\ \/ ApiCallFails
       \/ /\ ~live[cur].exists
          /\ UNCHANGED <<errBudget, passFailed>>
    /\ metric' = [metric EXCEPT ![cur] = "error"]
    /\ errCount' = errCount + 1
    /\ NextTombstone
    /\ UNCHANGED <<live, deletedCount, lastResult, envBudget, deletions, lastFailed>>

(* Delete succeeds on whatever object has the name now: status Deleted,    *)
(* deletedCount grows.                                                     *)
DeleteSucceeded ==
    /\ phase = "delete"
    /\ live[cur].exists
    /\ live' = [live EXCEPT ![cur].exists = FALSE]
    /\ deletions' = deletions \cup
                    {[key |-> cur, inc |-> live[cur].inc, labeled |-> live[cur].labeled]}
    /\ metric' = [metric EXCEPT ![cur] = "deleted"]
    /\ deletedCount' = deletedCount + 1
    /\ NextTombstone
    /\ UNCHANGED <<errCount, lastResult, envBudget, errBudget, passFailed, lastFailed>>

\* After the last tombstone: return the count, and an error if any was aggregated.
ReconcileTombstonesFinish ==
    /\ phase = "get"
    /\ cur = NumTombstones + 1
    /\ lastResult' = [count |-> deletedCount, err |-> errCount > 0]
    /\ lastFailed' = passFailed
    /\ phase' = "idle"
    /\ UNCHANGED <<live, cur, deletedCount, errCount, metric, envBudget,
                   errBudget, deletions, passFailed>>

Reconciler ==
    \/ ReconcileTombstonesStart
    \/ GetFailed
    \/ GetNotFound
    \/ GetLabelMismatch
    \/ GetLabeled
    \/ DeleteFailed
    \/ DeleteSucceeded
    \/ ReconcileTombstonesFinish

-----------------------------------------------------------------------------
(* Other actors write the tombstoned names at any time (the runbook's      *)
(* remedies: label the object, remove the label, delete it, recreate it).  *)

EnvWrite(k, obj) ==
    /\ envBudget > 0
    /\ envBudget' = envBudget - 1
    /\ live' = [live EXCEPT ![k] = obj]
    /\ UNCHANGED <<phase, cur, deletedCount, errCount, metric, lastResult,
                   errBudget, deletions, passFailed, lastFailed>>

UserRemoveLabel(k) ==
    /\ live[k].exists /\ live[k].labeled
    /\ EnvWrite(k, [live[k] EXCEPT !.labeled = FALSE])

UserAddLabel(k) ==
    /\ live[k].exists /\ ~live[k].labeled
    /\ EnvWrite(k, [live[k] EXCEPT !.labeled = TRUE])

UserDelete(k) ==
    /\ live[k].exists
    /\ EnvWrite(k, [live[k] EXCEPT !.exists = FALSE])

UserCreate(k) ==
    /\ ~live[k].exists
    /\ live[k].inc < MaxIncarnation
    /\ \E lbl \in BOOLEAN :
          EnvWrite(k, [exists |-> TRUE, labeled |-> lbl, inc |-> live[k].inc + 1])

Environment ==
    \E k \in Keys :
        \/ UserRemoveLabel(k)
        \/ UserAddLabel(k)
        \/ UserDelete(k)
        \/ UserCreate(k)

Next == Reconciler \/ Environment

(* The periodic requeue (5 minutes) and the single worker make the         *)
(* reconciler run again and again, each call to completion; other actors   *)
(* owe nothing.                                                            *)
Spec == Init /\ [][Next]_vars /\ WF_vars(Reconciler)

-----------------------------------------------------------------------------
(* Properties.                                                             *)

(* The error ReconcileTombstones returns agrees with the gauges it leaves: *)
(* between reconciliations, the last result carries an error exactly when  *)
(* some tombstone's status is Error.  The alert VirtPlatformTombstoneStuck *)
(* reads the gauges; the requeue reads the returned error.                 *)
ErrorMatchesMetrics ==
    phase = "idle" => (lastResult.err <=> \E k \in Keys : metric[k] = "error")

(* Once other actors stop writing and API calls stop failing, the gauges   *)
(* come to describe the cluster for good: a tombstoned name holds no       *)
(* object and its status is Deleted, or it holds an unlabeled object and   *)
(* its status is Skipped.  Labeled objects do not survive.                 *)
MetricAccurate(k) ==
    \/ ~live[k].exists /\ metric[k] = "deleted"
    \/ live[k].exists /\ ~live[k].labeled /\ metric[k] = "skipped"

MetricsConverge == <>[](\A k \in Keys : MetricAccurate(k))

(* The status gauge tells the truth when it is written (spec.md 4.7: the   *)
(* runbook of VirtPlatformTombstoneStuck reads it): every step that changes *)
(* a tombstone's status is a visit of that tombstone, and it sets Deleted   *)
(* only when the name holds no object after the step, Skipped only when it  *)
(* holds an object without the managed-by label.  A status decided on a    *)
(* stale or filtered read of the object breaks it.                          *)
GaugeWritesTruthful ==
    [][\A k \in Keys :
          metric'[k] # metric[k] =>
             /\ phase # "idle" /\ k = cur
             /\ metric'[k] = "deleted" => ~live'[k].exists
             /\ metric'[k] = "skipped" => live'[k].exists /\ ~live'[k].labeled]_vars

(* spec.md section 8: a tombstoned object whose live label is not          *)
(* managed-by=virt-platform-autopilot is not deleted.                      *)
NoDeleteOfUnlabeled == \A d \in deletions : d.labeled

(* spec.md section 7: deletion is NotFound-tolerant, so a pass reports an  *)
(* error only when some API call really failed.                            *)
ErrorOnlyOnApiFailure == (phase = "idle" /\ lastResult.err) => lastFailed
-----------------------------------------------------------------------------
(* Refinement of TombstoneAtomic.  A pass of the code is "busy" from its   *)
(* first Get to its return; the Get that sees a labeled object is a        *)
(* stuttering step, and the visit takes effect at the Delete.  The error   *)
(* count, the budgets and the history variables have no counterpart.       *)

AtomicPhase == IF phase = "idle" THEN "idle" ELSE "busy"

Atomic == INSTANCE TombstoneAtomic WITH phase <- AtomicPhase

(* ReconcileTombstones implements atomic visits: every gauge write is      *)
(* justified by the cluster at one instant (the Get, or the Delete), and   *)
(* the error returned through errCount is exactly "some gauge reads Error", *)
(* with the requeue driving every pass to its end.                         *)
ImplementsAtomic == Atomic!Spec
=============================================================================
