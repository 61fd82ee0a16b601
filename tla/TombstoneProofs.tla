--------------------------- MODULE TombstoneProofs ---------------------------
(***************************************************************************)
(* Proofs about the tombstone reconciler, for every number of tombstones  *)
(* and every bound.                                                        *)
(*                                                                         *)
(* TypeOK alone is not inductive: the counters stay within 0..N and the    *)
(* loop index within 1..N+1 only because a Delete happens at an index      *)
(* that is still a tombstone and each tombstone adds at most one to the    *)
(* counters.  ErrorMatchesMetrics is not inductive either: in the middle   *)
(* of a pass it is the tombstones already visited whose gauges agree with  *)
(* the aggregated error count.                                             *)
(***************************************************************************)
EXTENDS Tombstone, TLAPS

\* The loop index and the counters advance together.
CountsBounded ==
    /\ phase = "delete" => cur <= NumTombstones
    /\ errCount + deletedCount <= cur - 1

\* The error count of the current pass agrees with the gauges written in it.
ErrorTracked ==
    /\ phase = "idle" => (lastResult.err <=> \E k \in Keys : metric[k] = "error")
    /\ phase # "idle" => (errCount > 0 <=> \E k \in 1..cur - 1 : metric[k] = "error")

IInv == TypeOK /\ CountsBounded /\ ErrorTracked

(* TypeOK in three parts: the counters (arithmetic, for SMT), the flags  *)
(* (Booleans, for Zenon) and the data.  A step that mixes Boolean         *)
(* membership with arithmetic defeats both backends.                      *)
TypeNum ==
    /\ cur \in 1..NumTombstones + 1
    /\ deletedCount \in 0..NumTombstones
    /\ errCount \in 0..NumTombstones
    /\ envBudget \in 0..MaxEnvSteps
    /\ errBudget \in 0..MaxApiErrors

TypeFlags ==
    /\ phase \in {"idle", "get", "delete"}
    /\ passFailed \in BOOLEAN
    /\ lastFailed \in BOOLEAN

TypeData ==
    /\ live \in [Keys -> Object]
    /\ metric \in [Keys -> Status]
    /\ lastResult \in [count : 0..NumTombstones, err : BOOLEAN]
    /\ deletions \subseteq [key : Keys, inc : 0..MaxIncarnation, labeled : BOOLEAN]

USE ConstantsAssumption

\* The value ReconcileTombstones returns is well typed.
LEMMA ResultType ==
    ASSUME NEW c \in 0..NumTombstones, NEW e \in BOOLEAN
    PROVE  [count |-> c, err |-> e] \in [count : 0..NumTombstones, err : BOOLEAN]
OBVIOUS

\* The next state is in IInv once its three parts of TypeOK are.
LEMMA IInvFromParts ==
    ASSUME TypeNum', TypeFlags', TypeData', CountsBounded', ErrorTracked'
    PROVE  IInv'
BY Zenon DEF IInv, TypeOK, TypeNum, TypeFlags, TypeData

LEMMA InitIInv == Init => IInv
<1> SUFFICES ASSUME Init PROVE IInv
  OBVIOUS
<1>1. TypeNum
  BY DEF Init, TypeNum
<1>2. TypeFlags
  BY Zenon DEF Init, TypeFlags
<1>3. live \in [Keys -> Object]
  BY DEF Init, Object
<1>4. lastResult \in [count : 0..NumTombstones, err : BOOLEAN]
  BY ResultType DEF Init
<1>5. TypeData
  BY <1>3, <1>4 DEF Init, TypeData, Status
<1>6. CountsBounded
  BY DEF Init, CountsBounded
<1>7. ErrorTracked
  BY DEF Init, ErrorTracked, Keys
<1>8. QED
  BY <1>1, <1>2, <1>5, <1>6, <1>7, Zenon DEF IInv, TypeOK, TypeNum, TypeFlags, TypeData

-----------------------------------------------------------------------------
(* One lemma per action of the reconciler.                                 *)

LEMMA StartIInv == IInv /\ ReconcileTombstonesStart => IInv'
<1> SUFFICES ASSUME IInv, ReconcileTombstonesStart PROVE IInv'
  OBVIOUS
<1> USE DEF IInv, TypeOK
<1>1. TypeNum'
  BY DEF ReconcileTombstonesStart, TypeNum
<1>2. TypeFlags'
  BY Zenon DEF ReconcileTombstonesStart, TypeFlags
<1>3. lastResult' \in [count : 0..NumTombstones, err : BOOLEAN]
  <2>1. CASE NumTombstones = 0
    <3>1. lastResult' = [count |-> 0, err |-> FALSE]
      BY <2>1 DEF ReconcileTombstonesStart
    <3>2. QED
      BY <3>1, ResultType
  <2>2. CASE NumTombstones # 0
    BY <2>2 DEF ReconcileTombstonesStart
  <2>3. QED
    BY <2>1, <2>2
<1>4. TypeData'
  BY <1>3 DEF ReconcileTombstonesStart, TypeData
<1>5. CountsBounded'
  BY DEF ReconcileTombstonesStart, CountsBounded
<1>6. ErrorTracked'
  <2>1. CASE NumTombstones = 0
    BY <2>1 DEF ReconcileTombstonesStart, ErrorTracked, Keys
  <2>2. CASE NumTombstones # 0
    BY <2>2 DEF ReconcileTombstonesStart, ErrorTracked
  <2>3. QED
    BY <2>1, <2>2
<1>7. QED
  BY <1>1, <1>2, <1>4, <1>5, <1>6, IInvFromParts

\* A gauge written at the current index, before the loop moves on.
LEMMA StepAtCur ==
    ASSUME IInv, phase # "idle", cur <= NumTombstones, NextTombstone,
           NEW v \in Status, metric' = [metric EXCEPT ![cur] = v]
    PROVE  /\ metric' \in [Keys -> Status]
           /\ \A k \in 1..cur'-1 : metric'[k] = IF k = cur THEN v ELSE metric[k]
           /\ (\E k \in 1..cur'-1 : metric'[k] = "error")
                <=> (v = "error" \/ \E k \in 1..cur-1 : metric[k] = "error")
BY DEF IInv, TypeOK, NextTombstone, Keys

LEMMA GetFailedIInv == IInv /\ GetFailed => IInv'
<1> SUFFICES ASSUME IInv, GetFailed PROVE IInv'
  OBVIOUS
<1> USE DEF IInv, TypeOK
<1>1. /\ metric' \in [Keys -> Status]
      /\ (\E k \in 1..cur'-1 : metric'[k] = "error")
  <2>1. /\ phase # "idle" /\ cur <= NumTombstones /\ NextTombstone
        /\ metric' = [metric EXCEPT ![cur] = "error"]
    BY DEF GetFailed
  <2>2. QED
    BY <2>1, StepAtCur DEF Status
<1>2. TypeNum'
  BY DEF GetFailed, ApiCallFails, NextTombstone, CountsBounded, TypeNum
<1>3. TypeFlags'
  BY Zenon DEF GetFailed, ApiCallFails, NextTombstone, TypeFlags
<1>4. TypeData'
  BY <1>1 DEF GetFailed, TypeData
<1>5. CountsBounded'
  BY DEF GetFailed, NextTombstone, CountsBounded
<1>6. ErrorTracked'
  BY <1>1 DEF GetFailed, NextTombstone, ErrorTracked
<1>7. QED
  BY <1>2, <1>3, <1>4, <1>5, <1>6, IInvFromParts

\* A pass moves on with a gauge other than Error: the error count stands.
LEMMA NonErrorStep ==
    ASSUME IInv, phase # "idle", cur <= NumTombstones, NextTombstone,
           NEW v \in Status \ {"error"}, metric' = [metric EXCEPT ![cur] = v],
           UNCHANGED <<errCount, lastResult, lastFailed>>,
           \/ deletedCount' = deletedCount
           \/ deletedCount' = deletedCount + 1 /\ phase = "delete"
    PROVE  /\ metric' \in [Keys -> Status]
           /\ CountsBounded'
           /\ ErrorTracked'
<1> USE DEF IInv, TypeOK
<1>1. metric' \in [Keys -> Status]
  BY StepAtCur
<1>2. (\E k \in 1..cur'-1 : metric'[k] = "error")
        <=> \E k \in 1..cur-1 : metric[k] = "error"
  BY StepAtCur
<1>3. CountsBounded'
  <2>1. CASE deletedCount' = deletedCount
    BY <2>1 DEF NextTombstone, CountsBounded
  <2>2. CASE deletedCount' = deletedCount + 1 /\ phase = "delete"
    BY <2>2 DEF NextTombstone, CountsBounded
  <2>3. QED
    BY <2>1, <2>2
<1>4. ErrorTracked'
  BY <1>2 DEF NextTombstone, ErrorTracked
<1>5. QED
  BY <1>1, <1>3, <1>4

LEMMA GetNotFoundIInv == IInv /\ GetNotFound => IInv'
<1> SUFFICES ASSUME IInv, GetNotFound PROVE IInv'
  OBVIOUS
<1> USE DEF IInv, TypeOK
<1>1. /\ metric' \in [Keys -> Status]
      /\ CountsBounded'
      /\ ErrorTracked'
  <2>1. /\ phase # "idle" /\ cur <= NumTombstones /\ NextTombstone
        /\ metric' = [metric EXCEPT ![cur] = "deleted"]
        /\ UNCHANGED <<errCount, lastResult, lastFailed>>
        /\ deletedCount' = deletedCount
    BY DEF GetNotFound
  <2>2. "deleted" \in Status \ {"error"}
    BY DEF Status
  <2>3. QED
    BY <2>1, <2>2, NonErrorStep, Zenon
<1>2. TypeNum'
  BY DEF GetNotFound, NextTombstone, TypeNum
<1>3. TypeFlags'
  BY Zenon DEF GetNotFound, NextTombstone, TypeFlags
<1>4. TypeData'
  BY <1>1 DEF GetNotFound, TypeData
<1>5. QED
  BY <1>1, <1>2, <1>3, <1>4, IInvFromParts

LEMMA GetLabelMismatchIInv == IInv /\ GetLabelMismatch => IInv'
<1> SUFFICES ASSUME IInv, GetLabelMismatch PROVE IInv'
  OBVIOUS
<1> USE DEF IInv, TypeOK
<1>1. /\ metric' \in [Keys -> Status]
      /\ CountsBounded'
      /\ ErrorTracked'
  <2>1. /\ phase # "idle" /\ cur <= NumTombstones /\ NextTombstone
        /\ metric' = [metric EXCEPT ![cur] = "skipped"]
        /\ UNCHANGED <<errCount, lastResult, lastFailed>>
        /\ deletedCount' = deletedCount
    BY DEF GetLabelMismatch
  <2>2. "skipped" \in Status \ {"error"}
    BY DEF Status
  <2>3. QED
    BY <2>1, <2>2, NonErrorStep, Zenon
<1>2. TypeNum'
  BY DEF GetLabelMismatch, NextTombstone, TypeNum
<1>3. TypeFlags'
  BY Zenon DEF GetLabelMismatch, NextTombstone, TypeFlags
<1>4. TypeData'
  BY <1>1 DEF GetLabelMismatch, TypeData
<1>5. QED
  BY <1>1, <1>2, <1>3, <1>4, IInvFromParts

LEMMA GetLabeledIInv == IInv /\ GetLabeled => IInv'
<1> SUFFICES ASSUME IInv, GetLabeled PROVE IInv'
  OBVIOUS
<1> USE DEF IInv, TypeOK
<1>1. TypeNum'
  BY DEF GetLabeled, TypeNum
<1>2. TypeFlags'
  BY Zenon DEF GetLabeled, TypeFlags
<1>3. TypeData'
  BY DEF GetLabeled, TypeData
<1>4. CountsBounded'
  BY DEF GetLabeled, CountsBounded
<1>5. ErrorTracked'
  BY DEF GetLabeled, ErrorTracked
<1>6. QED
  BY <1>1, <1>2, <1>3, <1>4, <1>5, IInvFromParts

LEMMA DeleteFailedIInv == IInv /\ DeleteFailed => IInv'
<1> SUFFICES ASSUME IInv, DeleteFailed PROVE IInv'
  OBVIOUS
<1> USE DEF IInv, TypeOK
<1>1. /\ metric' \in [Keys -> Status]
      /\ (\E k \in 1..cur'-1 : metric'[k] = "error")
  <2>1. /\ phase # "idle" /\ cur <= NumTombstones /\ NextTombstone
        /\ metric' = [metric EXCEPT ![cur] = "error"]
    BY DEF DeleteFailed, CountsBounded
  <2>2. QED
    BY <2>1, StepAtCur DEF Status
<1>2. errBudget' \in 0..MaxApiErrors
  BY DEF DeleteFailed, ApiCallFails
<1>3. TypeNum'
  BY <1>2 DEF DeleteFailed, NextTombstone, CountsBounded, TypeNum
<1>4. passFailed' \in BOOLEAN
  BY Zenon DEF DeleteFailed, ApiCallFails
<1>5. TypeFlags'
  BY <1>4, Zenon DEF DeleteFailed, NextTombstone, TypeFlags
<1>6. TypeData'
  BY <1>1 DEF DeleteFailed, TypeData
<1>7. CountsBounded'
  BY DEF DeleteFailed, NextTombstone, CountsBounded
<1>8. ErrorTracked'
  BY <1>1 DEF DeleteFailed, NextTombstone, ErrorTracked
<1>9. QED
  BY <1>3, <1>5, <1>6, <1>7, <1>8, IInvFromParts

LEMMA DeleteSucceededIInv == IInv /\ DeleteSucceeded => IInv'
<1> SUFFICES ASSUME IInv, DeleteSucceeded PROVE IInv'
  OBVIOUS
<1> USE DEF IInv, TypeOK
<1>1. cur \in Keys
  BY DEF DeleteSucceeded, CountsBounded, Keys
<1>2. /\ metric' \in [Keys -> Status]
      /\ CountsBounded'
      /\ ErrorTracked'
  <2>1. /\ phase # "idle" /\ cur <= NumTombstones /\ NextTombstone
        /\ metric' = [metric EXCEPT ![cur] = "deleted"]
        /\ UNCHANGED <<errCount, lastResult, lastFailed>>
        /\ deletedCount' = deletedCount + 1
        /\ phase = "delete"
    BY DEF DeleteSucceeded, CountsBounded
  <2>2. "deleted" \in Status \ {"error"}
    BY DEF Status
  <2>3. QED
    BY <2>1, <2>2, NonErrorStep, Zenon
<1>3. TypeNum'
  BY DEF DeleteSucceeded, NextTombstone, CountsBounded, TypeNum
<1>4. TypeFlags'
  BY Zenon DEF DeleteSucceeded, NextTombstone, TypeFlags
<1>5. live' \in [Keys -> Object]
  BY <1>1 DEF DeleteSucceeded, Object
<1>6. [key |-> cur, inc |-> live[cur].inc, labeled |-> live[cur].labeled]
        \in [key : Keys, inc : 0..MaxIncarnation, labeled : BOOLEAN]
  BY <1>1 DEF Object
<1>7. deletions' \subseteq [key : Keys, inc : 0..MaxIncarnation, labeled : BOOLEAN]
  BY <1>6 DEF DeleteSucceeded
<1>8. TypeData'
  BY <1>2, <1>5, <1>7 DEF DeleteSucceeded, TypeData
<1>9. QED
  BY <1>2, <1>3, <1>4, <1>8, IInvFromParts

LEMMA FinishIInv == IInv /\ ReconcileTombstonesFinish => IInv'
<1> SUFFICES ASSUME IInv, ReconcileTombstonesFinish PROVE IInv'
  OBVIOUS
<1> USE DEF IInv, TypeOK
<1>1. TypeNum'
  BY DEF ReconcileTombstonesFinish, TypeNum
<1>2. TypeFlags'
  BY Zenon DEF ReconcileTombstonesFinish, TypeFlags
<1>3. lastResult' \in [count : 0..NumTombstones, err : BOOLEAN]
  <2>1. (errCount > 0) \in BOOLEAN
    OBVIOUS
  <2>2. QED
    BY <2>1, ResultType DEF ReconcileTombstonesFinish
<1>4. TypeData'
  BY <1>3 DEF ReconcileTombstonesFinish, TypeData
<1>5. CountsBounded'
  BY DEF ReconcileTombstonesFinish, CountsBounded
<1>6. ErrorTracked'
  <2>1. lastResult'.err = (errCount > 0)
    BY DEF ReconcileTombstonesFinish
  <2>2. 1..cur-1 = Keys
    BY DEF ReconcileTombstonesFinish, Keys
  <2>3. phase' = "idle" /\ UNCHANGED metric
    BY DEF ReconcileTombstonesFinish
  <2>4. errCount > 0 <=> \E k \in Keys : metric[k] = "error"
    BY <2>2 DEF ReconcileTombstonesFinish, ErrorTracked
  <2>5. QED
    BY <2>1, <2>3, <2>4, Zenon DEF ErrorTracked
<1>7. QED
  BY <1>1, <1>2, <1>4, <1>5, <1>6, IInvFromParts

-----------------------------------------------------------------------------
(* Other actors only write live and spend their budget.                    *)

LEMMA EnvWriteIInv ==
    ASSUME IInv, NEW k \in Keys, NEW obj \in Object, EnvWrite(k, obj)
    PROVE  IInv'
<1> USE DEF IInv, TypeOK
<1>1. TypeNum'
  BY DEF EnvWrite, TypeNum
<1>2. TypeFlags'
  BY Zenon DEF EnvWrite, TypeFlags
<1>3. TypeData'
  BY DEF EnvWrite, TypeData
<1>4. CountsBounded'
  BY DEF EnvWrite, CountsBounded
<1>5. ErrorTracked'
  BY DEF EnvWrite, ErrorTracked
<1>6. QED
  BY <1>1, <1>2, <1>3, <1>4, <1>5, IInvFromParts

LEMMA EnvironmentIInv == IInv /\ Environment => IInv'
<1> SUFFICES ASSUME IInv, Environment PROVE IInv'
  OBVIOUS
<1> PICK k \in Keys : \/ UserRemoveLabel(k)
                      \/ UserAddLabel(k)
                      \/ UserDelete(k)
                      \/ UserCreate(k)
  BY DEF Environment
<1>1. live[k] \in Object
  BY DEF IInv, TypeOK
<1>2. CASE UserRemoveLabel(k)
  BY <1>1, <1>2, EnvWriteIInv DEF UserRemoveLabel, Object
<1>3. CASE UserAddLabel(k)
  BY <1>1, <1>3, EnvWriteIInv DEF UserAddLabel, Object
<1>4. CASE UserDelete(k)
  BY <1>1, <1>4, EnvWriteIInv DEF UserDelete, Object
<1>5. CASE UserCreate(k)
  <2>1. PICK lbl \in BOOLEAN :
          EnvWrite(k, [exists |-> TRUE, labeled |-> lbl, inc |-> live[k].inc + 1])
    BY <1>5 DEF UserCreate
  <2>2. [exists |-> TRUE, labeled |-> lbl, inc |-> live[k].inc + 1] \in Object
    BY <1>1, <1>5 DEF UserCreate, Object
  <2>3. QED
    BY <2>1, <2>2, EnvWriteIInv
<1>6. QED
  BY <1>2, <1>3, <1>4, <1>5

LEMMA UnchangedIInv == IInv /\ UNCHANGED vars => IInv'
BY DEF vars, IInv, TypeOK, CountsBounded, ErrorTracked

LEMMA NextIInv == IInv /\ [Next]_vars => IInv'
BY StartIInv, GetFailedIInv, GetNotFoundIInv, GetLabelMismatchIInv,
   GetLabeledIInv, DeleteFailedIInv, DeleteSucceededIInv, FinishIInv,
   EnvironmentIInv, UnchangedIInv DEF Next, Reconciler

LEMMA IInvInvariant == Spec => []IInv
BY InitIInv, NextIInv, PTL DEF Spec

(* Type correctness of the tombstone reconciler and its environment.       *)
THEOREM TypeCorrect == Spec => []TypeOK
BY IInvInvariant, PTL DEF IInv

(* Between reconciliations, the error ReconcileTombstones returned is set  *)
(* exactly when some tombstone's status gauge reads Error.                 *)
THEOREM ErrorMatchesMetricsHolds == Spec => []ErrorMatchesMetrics
<1>1. IInv => ErrorMatchesMetrics
  BY DEF IInv, ErrorTracked, ErrorMatchesMetrics
<1>2. QED
  BY <1>1, IInvInvariant, PTL

-----------------------------------------------------------------------------
(* Refinement: the code's passes are passes of atomic visits.              *)
(* Under AtomicPhase each action of the reconciler is a step of            *)
(* TombstoneAtomic or, for the Get that sees a labeled object, a stutter;  *)
(* each write by other actors is a Write.  Only the return needs IInv:     *)
(* the error count agrees with the gauges (ErrorTracked) once every        *)
(* tombstone has been visited.                                             *)

\* The initial states map to initial states of TombstoneAtomic.
LEMMA InitRefines == Init => Atomic!Init
BY DEF Init, Atomic!Init, AtomicPhase, Atomic!Keys, Keys

\* A pass starts in both specifications at once.
LEMMA StartRefines == IInv /\ ReconcileTombstonesStart => Atomic!Start
<1> SUFFICES ASSUME IInv, ReconcileTombstonesStart PROVE Atomic!Start
  OBVIOUS
<1>1. CASE NumTombstones = 0
  BY <1>1 DEF ReconcileTombstonesStart, Atomic!Start, AtomicPhase
<1>2. CASE NumTombstones # 0
  BY <1>2 DEF ReconcileTombstonesStart, Atomic!Start, AtomicPhase
<1>3. QED
  BY <1>1, <1>2

\* A Get that fails is a visit that ends in Error.
LEMMA GetFailedRefines == IInv /\ GetFailed => Atomic!Visit
BY DEF GetFailed, NextTombstone, Atomic!Visit, AtomicPhase

\* A Get that finds no object is a visit of an empty name.
LEMMA GetNotFoundRefines == IInv /\ GetNotFound => Atomic!Visit
BY DEF GetNotFound, NextTombstone, Atomic!Visit, AtomicPhase

\* A Get that finds an unlabeled object is a visit that skips it.
LEMMA GetLabelMismatchRefines == IInv /\ GetLabelMismatch => Atomic!Visit
BY DEF GetLabelMismatch, NextTombstone, Atomic!Visit, AtomicPhase

\* A Get that finds a labeled object changes nothing TombstoneAtomic sees.
LEMMA GetLabeledRefines == IInv /\ GetLabeled => UNCHANGED Atomic!avars
BY DEF GetLabeled, Atomic!avars, AtomicPhase

\* A failing Delete is a visit that ends in Error.
LEMMA DeleteFailedRefines == IInv /\ DeleteFailed => Atomic!Visit
BY DEF DeleteFailed, NextTombstone, Atomic!Visit, AtomicPhase, IInv, CountsBounded

\* A Delete that succeeds is a visit that removes the object, whatever its label.
LEMMA DeleteSucceededRefines == IInv /\ DeleteSucceeded => Atomic!Visit
BY DEF DeleteSucceeded, NextTombstone, Atomic!Visit, AtomicPhase, IInv, CountsBounded

\* Two results whose error flags are equivalent are equal.
LEMMA ResultEquiv ==
    ASSUME NEW c, NEW P, NEW Q, P \in BOOLEAN, Q \in BOOLEAN, P <=> Q
    PROVE  [count |-> c, err |-> P] = [count |-> c, err |-> Q]
<1>1. P = Q
  OBVIOUS
<1>2. QED
  BY <1>1

\* The return reports an error exactly when some gauge reads Error.
LEMMA FinishRefines == IInv /\ ReconcileTombstonesFinish => Atomic!Finish
<1> SUFFICES ASSUME IInv, ReconcileTombstonesFinish PROVE Atomic!Finish
  OBVIOUS
<1>1. 1..cur-1 = Keys
  BY DEF ReconcileTombstonesFinish, Keys, IInv, TypeOK
<1>2. phase # "idle"
  BY DEF ReconcileTombstonesFinish
<1>3. (errCount > 0) <=> \E k \in Keys : metric[k] = "error"
  BY <1>1, <1>2 DEF IInv, ErrorTracked
<1>4. lastResult' = [count |-> deletedCount,
                     err |-> \E k \in Keys : metric[k] = "error"]
  <2>1. lastResult' = [count |-> deletedCount, err |-> errCount > 0]
    BY DEF ReconcileTombstonesFinish
  <2>2. (errCount > 0) \in BOOLEAN /\ (\E k \in Keys : metric[k] = "error") \in BOOLEAN
    OBVIOUS
  <2>3. QED
    BY <1>3, <2>1, <2>2, ResultEquiv
<1>5. QED
  BY <1>4 DEF ReconcileTombstonesFinish, Atomic!Finish, AtomicPhase, Atomic!Keys, Keys

\* A write by another actor is a Write of TombstoneAtomic.
LEMMA EnvironmentRefines == IInv /\ Environment => Atomic!Write
<1> SUFFICES ASSUME IInv, Environment PROVE Atomic!Write
  OBVIOUS
<1> PICK k \in Keys : \/ UserRemoveLabel(k)
                      \/ UserAddLabel(k)
                      \/ UserDelete(k)
                      \/ UserCreate(k)
  BY DEF Environment
<1>1. live[k] \in Object
  BY DEF IInv, TypeOK
<1>2. ASSUME NEW obj \in Object, EnvWrite(k, obj) PROVE Atomic!Write
  BY <1>2 DEF EnvWrite, Atomic!Write, Atomic!Object, Atomic!Keys, Object, Keys, AtomicPhase
<1>3. CASE UserRemoveLabel(k)
  BY <1>1, <1>2, <1>3 DEF UserRemoveLabel, Object
<1>4. CASE UserAddLabel(k)
  BY <1>1, <1>2, <1>4 DEF UserAddLabel, Object
<1>5. CASE UserDelete(k)
  BY <1>1, <1>2, <1>5 DEF UserDelete, Object
<1>6. CASE UserCreate(k)
  <2>1. PICK lbl \in BOOLEAN :
          EnvWrite(k, [exists |-> TRUE, labeled |-> lbl, inc |-> live[k].inc + 1])
    BY <1>6 DEF UserCreate
  <2>2. [exists |-> TRUE, labeled |-> lbl, inc |-> live[k].inc + 1] \in Object
    BY <1>1, <1>6 DEF UserCreate, Object
  <2>3. QED
    BY <2>1, <2>2, <1>2
<1>7. QED
  BY <1>3, <1>4, <1>5, <1>6

\* Every step of the code and its environment is a step of TombstoneAtomic or a stutter.
LEMMA NextRefines == IInv /\ [Next]_vars => [Atomic!Next]_Atomic!avars
<1> SUFFICES ASSUME IInv, [Next]_vars PROVE [Atomic!Next]_Atomic!avars
  OBVIOUS
<1>1. CASE UNCHANGED vars
  BY <1>1 DEF vars, Atomic!avars, AtomicPhase
<1>2. CASE GetLabeled
  BY <1>2, GetLabeledRefines
<1>3. CASE Reconciler /\ ~GetLabeled
  BY <1>3, StartRefines, GetFailedRefines, GetNotFoundRefines, GetLabelMismatchRefines,
     DeleteFailedRefines, DeleteSucceededRefines, FinishRefines
  DEF Reconciler, Atomic!Next, Atomic!Pass
<1>4. CASE Environment
  BY <1>4, EnvironmentRefines DEF Atomic!Next
<1>5. QED
  BY <1>1, <1>2, <1>3, <1>4 DEF Next

(* The tombstone reconciler implements TombstoneAtomic (its safety part):  *)
(* every gauge ReconcileTombstones writes is justified by the cluster at   *)
(* one instant, and the error it returns says whether some gauge reads     *)
(* Error, for every number of tombstones and every bound.                  *)
THEOREM ImplementsAtomicSafety == Spec => Atomic!SafetySpec
<1>1. Spec => []IInv
  BY IInvInvariant
<1>2. QED
  BY <1>1, InitRefines, NextRefines, PTL DEF Spec, Atomic!SafetySpec
-----------------------------------------------------------------------------
(* GaugeWritesTruthful needs only the types: each step writes at most the  *)
(* gauge at cur, and the guards of the visits that write one are exactly   *)
(* what the gauge then says about the name.                                *)

\* The step condition of GaugeWritesTruthful.
GaugeStep ==
    \A k \in Keys :
        metric'[k] # metric[k] =>
           /\ phase # "idle" /\ k = cur
           /\ metric'[k] = "deleted" => ~live'[k].exists
           /\ metric'[k] = "skipped" => live'[k].exists /\ ~live'[k].labeled

\* A visit writes the gauge at cur and no other.
LEMMA WriteAtCur ==
    ASSUME TypeOK, NEW st \in Status, metric' = [metric EXCEPT ![cur] = st]
    PROVE  \A k \in Keys : metric'[k] # metric[k] => k = cur /\ metric'[k] = st
BY DEF TypeOK

\* A step that leaves the gauges alone satisfies GaugeStep.
LEMMA MetricUnchanged ==
    ASSUME UNCHANGED metric
    PROVE  GaugeStep
BY DEF GaugeStep

LEMMA GaugeStepHolds == TypeOK /\ [Next]_vars => [GaugeStep]_vars
<1> SUFFICES ASSUME TypeOK, [Next]_vars PROVE GaugeStep
  OBVIOUS
<1>1. CASE GetFailed
  BY <1>1, WriteAtCur DEF GetFailed, GaugeStep
<1>2. CASE GetNotFound
  <2>1. \A k \in Keys : metric'[k] # metric[k] => k = cur /\ metric'[k] = "deleted"
    BY <1>2, WriteAtCur DEF GetNotFound
  <2>2. phase = "get" /\ ~live'[cur].exists
    BY <1>2 DEF GetNotFound
  <2>3. QED
    BY <2>1, <2>2 DEF GaugeStep
<1>3. CASE GetLabelMismatch
  <2>1. \A k \in Keys : metric'[k] # metric[k] => k = cur /\ metric'[k] = "skipped"
    BY <1>3, WriteAtCur DEF GetLabelMismatch
  <2>2. phase = "get" /\ live'[cur].exists /\ ~live'[cur].labeled
    BY <1>3 DEF GetLabelMismatch
  <2>3. QED
    BY <2>1, <2>2 DEF GaugeStep
<1>4. CASE DeleteFailed
  BY <1>4, WriteAtCur DEF DeleteFailed, GaugeStep
<1>5. CASE DeleteSucceeded
  <2>1. \A k \in Keys : metric'[k] # metric[k] => k = cur /\ metric'[k] = "deleted"
    BY <1>5, WriteAtCur DEF DeleteSucceeded
  <2>2. cur \in Keys => ~live'[cur].exists
    BY <1>5 DEF DeleteSucceeded, TypeOK
  <2>3. QED
    BY <1>5, <2>1, <2>2 DEF GaugeStep, DeleteSucceeded
<1>6. CASE ReconcileTombstonesStart \/ GetLabeled \/ ReconcileTombstonesFinish
  BY <1>6, MetricUnchanged DEF ReconcileTombstonesStart, GetLabeled, ReconcileTombstonesFinish
<1>7. CASE Environment
  BY <1>7, MetricUnchanged DEF Environment, UserRemoveLabel, UserAddLabel,
                               UserDelete, UserCreate, EnvWrite
<1>8. CASE UNCHANGED vars
  BY <1>8, MetricUnchanged DEF vars
<1>9. QED
  BY <1>1, <1>2, <1>3, <1>4, <1>5, <1>6, <1>7, <1>8 DEF Next, Reconciler

(* For every number of tombstones and every bound: the reconciler writes a *)
(* tombstone's status gauge only while visiting it, and the Deleted and    *)
(* Skipped it writes are true of the name at that instant.                 *)
THEOREM GaugeWritesTruthfulHolds == Spec => GaugeWritesTruthful
<1>1. Spec => [][GaugeStep]_vars
  BY GaugeStepHolds, TypeCorrect, PTL DEF Spec
<1>2. QED
  BY <1>1 DEF GaugeWritesTruthful, GaugeStep
=============================================================================
