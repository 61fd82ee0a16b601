--------------------------- MODULE TombstoneAtomic ---------------------------
(***************************************************************************)
(* What the tombstone reconciler promises (spec.md 4.7), with each visit   *)
(* of a tombstone one atomic step.                                         *)
(*                                                                         *)
(* A pass visits the tombstones in order.  A visit reads the name and acts *)
(* at the same instant, so its gauge is justified by the cluster at that   *)
(* instant: Deleted when the name holds no object or the visit removed it, *)
(* Skipped when it holds an object without the managed-by label, Error     *)
(* when an API call fails.  The pass returns the number of objects it      *)
(* removed and an error exactly when some gauge reads Error.               *)
(*                                                                         *)
(* The removal is not guarded by the label.  The code checks the label on  *)
(* the object its Get returned and its Delete has no precondition, so the  *)
(* object removed may have lost the label in between (the tombstone_toctou *)
(* run); a visit that checked the label at the instant of the removal is   *)
(* not what the code implements.                                           *)
(***************************************************************************)
EXTENDS Naturals

CONSTANTS NumTombstones, MaxIncarnation

Keys == 1..NumTombstones

Status == {"none", "deleted", "error", "skipped"}

Object == [exists : BOOLEAN, labeled : BOOLEAN, inc : 0..MaxIncarnation]

VARIABLES
    live,          \* the object at each tombstoned name
    phase,         \* "idle" between passes, "busy" inside one
    cur,           \* the tombstone visited next
    deletedCount,  \* objects removed in this pass
    metric,        \* the status gauge of each tombstone
    lastResult     \* what the last completed pass returned

avars == <<live, phase, cur, deletedCount, metric, lastResult>>

Init ==
    /\ live \in [Keys -> [exists : BOOLEAN, labeled : BOOLEAN, inc : {0}]]
    /\ phase = "idle"
    /\ cur = 1
    /\ deletedCount = 0
    /\ metric = [k \in Keys |-> "none"]
    /\ lastResult = [count |-> 0, err |-> FALSE]

\* A pass starts; with no tombstones it returns (0, no error) at once.
Start ==
    /\ phase = "idle"
    /\ cur' = 1
    /\ deletedCount' = 0
    /\ IF NumTombstones = 0
         THEN /\ lastResult' = [count |-> 0, err |-> FALSE]
              /\ UNCHANGED phase
         ELSE /\ phase' = "busy"
              /\ UNCHANGED lastResult
    /\ UNCHANGED <<live, metric>>

\* One visit: the gauge of tombstone cur is set from the cluster as it is now.
Visit ==
    /\ phase = "busy"
    /\ cur <= NumTombstones
    /\ \/ /\ ~live[cur].exists
          /\ metric' = [metric EXCEPT ![cur] = "deleted"]
          /\ UNCHANGED <<live, deletedCount>>
       \/ /\ live[cur].exists /\ ~live[cur].labeled
          /\ metric' = [metric EXCEPT ![cur] = "skipped"]
          /\ UNCHANGED <<live, deletedCount>>
       \/ /\ live[cur].exists
          /\ live' = [live EXCEPT ![cur].exists = FALSE]
          /\ metric' = [metric EXCEPT ![cur] = "deleted"]
          /\ deletedCount' = deletedCount + 1
       \/ /\ metric' = [metric EXCEPT ![cur] = "error"]
          /\ UNCHANGED <<live, deletedCount>>
    /\ cur' = cur + 1
    /\ UNCHANGED <<phase, lastResult>>

\* The pass returns its count, and an error exactly when some gauge reads Error.
Finish ==
    /\ phase = "busy"
    /\ cur = NumTombstones + 1
    /\ lastResult' = [count |-> deletedCount, err |-> \E k \in Keys : metric[k] = "error"]
    /\ phase' = "idle"
    /\ UNCHANGED <<live, cur, deletedCount, metric>>

\* Other actors put any object at a tombstoned name.
Write ==
    /\ \E k \in Keys, obj \in Object : live' = [live EXCEPT ![k] = obj]
    /\ UNCHANGED <<phase, cur, deletedCount, metric, lastResult>>

Pass == Start \/ Visit \/ Finish

Next == Pass \/ Write

SafetySpec == Init /\ [][Next]_avars

\* Passes keep coming (the periodic requeue) and each one runs to the end.
Spec == SafetySpec /\ WF_avars(Pass)
=============================================================================
