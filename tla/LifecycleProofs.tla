---------------------------- MODULE LifecycleProofs ----------------------------
(***************************************************************************)
(* RestartsBounded for every finite set of managed CRDs and every bound.   *)
(*                                                                         *)
(* The count of CRD-discovery restarts is not bounded by the Established   *)
(* CRDs step by step unless one knows what the running process watches:   *)
(* its watched set is a subset of the Established CRDs, and the restarts   *)
(* so far are no more than its size.  A discovery then means a strictly    *)
(* larger Established set, which pays for the one more restart.            *)
(***************************************************************************)
EXTENDS Lifecycle, FiniteSetTheorems, TLAPS

\* What a running process watches bounds the restarts that led to it.
WatchesGrounded ==
    /\ watched \subseteq established
    /\ proc = "running" => restarts <= Cardinality(watched)

IInv == TypeOK /\ WatchesGrounded /\ RestartsBounded

\* Every set of managed CRDs is finite, its size a natural.
LEMMA ManagedSubsetFinite ==
    ASSUME NEW S \in SUBSET Managed
    PROVE  IsFiniteSet(S) /\ Cardinality(S) \in Nat
BY LifecycleAssumption, FS_Subset, FS_CardinalityType

\* A proper subset of a set of managed CRDs is strictly smaller.
LEMMA ProperSubsetSmaller ==
    ASSUME NEW S \in SUBSET Managed, NEW T \in SUBSET S, S \ T # {}
    PROVE  Cardinality(T) < Cardinality(S)
<1>1. IsFiniteSet(S) /\ Cardinality(S) \in Nat /\ Cardinality(T) \in Nat
  BY ManagedSubsetFinite
<1>2. Cardinality(T) <= Cardinality(S) /\ (Cardinality(S) = Cardinality(T) => S = T)
  BY <1>1, FS_Subset
<1>3. S # T
  OBVIOUS
<1>4. QED
  BY <1>1, <1>2, <1>3

\* Before the first start nothing is watched and nothing restarted.
LEMMA InitIInv == Init => IInv
<1> SUFFICES ASSUME Init PROVE IInv
  OBVIOUS
<1>1. established \subseteq Managed
  BY DEF Init
<1>2. Cardinality(established) \in Nat
  BY <1>1, ManagedSubsetFinite
<1>3. slowLeft \in 0..MaxSlow /\ signalsLeft \in 0..MaxSignals /\ restarts \in Nat
  BY LifecycleAssumption DEF Init
<1>4. /\ proc \in {"down", "validating", "running", "stopping"}
      /\ pending \in BOOLEAN /\ hcoCRD \in BOOLEAN /\ apiSlow \in BOOLEAN
      /\ watched \subseteq Managed
  BY DEF Init
<1>5. TypeOK
  BY <1>1, <1>3, <1>4 DEF TypeOK
<1>6. WatchesGrounded /\ RestartsBounded
  BY <1>2 DEF Init, WatchesGrounded, RestartsBounded
<1>7. QED
  BY <1>5, <1>6 DEF IInv

\* A discovered CRD is Established and unwatched, so the restart is paid for.
LEMMA CRDDiscoveredIInv ==
    ASSUME IInv, CRDDiscovered
    PROVE  IInv'
<1>1. /\ established \in SUBSET Managed
      /\ watched \in SUBSET established
      /\ established \ watched # {}
      /\ restarts <= Cardinality(watched)
  BY DEF IInv, TypeOK, WatchesGrounded, CRDDiscovered
<1>2. Cardinality(watched) < Cardinality(established)
  BY <1>1, ProperSubsetSmaller
<1>3. Cardinality(watched) \in Nat /\ Cardinality(established) \in Nat /\ restarts \in Nat
  BY <1>1, ManagedSubsetFinite DEF IInv, TypeOK
<1>4. restarts + 1 <= Cardinality(established)
  BY <1>1, <1>2, <1>3
<1>5. QED
  BY <1>4 DEF IInv, TypeOK, WatchesGrounded, RestartsBounded, CRDDiscovered

\* A newly Established CRD only enlarges the bound.
LEMMA EstablishCRDIInv ==
    ASSUME IInv, EstablishCRD
    PROVE  IInv'
<1>1. PICK c \in Managed \ established : established' = established \cup {c}
  BY DEF EstablishCRD
<1>2. established \in SUBSET Managed /\ established' \in SUBSET Managed
  BY <1>1 DEF IInv, TypeOK
<1>3. Cardinality(established) <= Cardinality(established')
  BY <1>1, <1>2, ManagedSubsetFinite, FS_Subset
<1>4. Cardinality(established) \in Nat /\ Cardinality(established') \in Nat
  BY <1>2, ManagedSubsetFinite
<1>5. restarts' <= Cardinality(established')
  BY <1>3, <1>4 DEF IInv, TypeOK, RestartsBounded, EstablishCRD
<1>6. QED
  BY <1>1, <1>5 DEF IInv, TypeOK, WatchesGrounded, RestartsBounded, EstablishCRD

\* The check passes: the process watches everything Established now.
LEMMA ValidatePassedIInv ==
    ASSUME IInv, ValidatePassed
    PROVE  IInv'
BY DEF IInv, TypeOK, WatchesGrounded, RestartsBounded, ValidatePassed

(* A step that changes neither the Established CRDs, the watch set nor the *)
(* restarts, and starts no running process, keeps the invariant.          *)
LEMMA FrameIInv ==
    ASSUME IInv, TypeOK', UNCHANGED <<established, watched, restarts>>,
           proc' = "running" => proc = "running"
    PROVE  IInv'
BY DEF IInv, WatchesGrounded, RestartsBounded

LEMMA NextIInv == IInv /\ [Next]_vars => IInv'
<1> SUFFICES ASSUME IInv, [Next]_vars PROVE IInv'
  OBVIOUS
<1>1. CASE CRDDiscovered
  BY <1>1, CRDDiscoveredIInv
<1>2. CASE ValidatePassed
  BY <1>2, ValidatePassedIInv
<1>3. CASE EstablishCRD
  BY <1>3, EstablishCRDIInv
<1>4. CASE ProcessStart
  <2>1. TypeOK'
    BY <1>4 DEF IInv, TypeOK, ProcessStart
  <2>2. QED
    BY <1>4, <2>1, FrameIInv DEF ProcessStart
<1>5. CASE ValidateTimedOut \/ ValidateCRDMissing \/ ManagerStopped
  <2>1. TypeOK'
    BY <1>5 DEF IInv, TypeOK, ValidateTimedOut, ValidateCRDMissing, ManagerStopped
  <2>2. proc' = "down"
    BY <1>5 DEF ValidateTimedOut, ValidateCRDMissing, ManagerStopped
  <2>3. CASE ManagerStopped
    BY <2>1, <2>2, <2>3 DEF IInv, WatchesGrounded, RestartsBounded, ManagerStopped
  <2>4. CASE ValidateTimedOut \/ ValidateCRDMissing
    BY <2>1, <2>2, <2>4, FrameIInv DEF ValidateTimedOut, ValidateCRDMissing
  <2>5. QED
    BY <1>5, <2>3, <2>4
<1>6. CASE Reconcile
  BY <1>6 DEF IInv, TypeOK, WatchesGrounded, RestartsBounded, Reconcile, vars
<1>9. CASE Terminate
  <2>1. signalsLeft' \in 0..MaxSignals
    BY <1>9, LifecycleAssumption DEF IInv, TypeOK, Terminate
  <2>2. proc' \in {"down", "stopping"} /\ pending' \in BOOLEAN
    BY <1>9 DEF IInv, TypeOK, Terminate
  <2>3. TypeOK'
    BY <1>9, <2>1, <2>2 DEF IInv, TypeOK, Terminate
  <2>4. QED
    BY <1>9, <2>2, <2>3, FrameIInv DEF Terminate
<1>10. CASE ApiSlowdown
  <2>1. slowLeft' \in 0..MaxSlow
    BY <1>10, LifecycleAssumption DEF IInv, TypeOK, ApiSlowdown
  <2>2. apiSlow' \in BOOLEAN
    BY <1>10 DEF ApiSlowdown
  <2>3. TypeOK'
    BY <1>10, <2>1, <2>2 DEF IInv, TypeOK, ApiSlowdown
  <2>4. QED
    BY <1>10, <2>3, FrameIInv DEF ApiSlowdown
<1>11. CASE InstallHCOCRD \/ ApiRecover
  <2>1. TypeOK'
    BY <1>11 DEF IInv, TypeOK, InstallHCOCRD, ApiRecover
  <2>2. QED
    BY <1>11, <2>1, FrameIInv DEF InstallHCOCRD, ApiRecover
<1>7. CASE UNCHANGED vars
  BY <1>7 DEF IInv, TypeOK, WatchesGrounded, RestartsBounded, vars
<1>8. QED
  BY <1>1, <1>2, <1>3, <1>4, <1>5, <1>6, <1>7, <1>9, <1>10, <1>11
     DEF Next, Process, Cluster

(* CRD-discovery restarts are bounded for every set of managed CRDs: the   *)
(* shutdown hook of the reconciler fires at most once per managed CRD that *)
(* becomes Established, so the restart by the orchestrator converges.      *)
THEOREM RestartsBoundedHolds == Spec => []RestartsBounded
<1>1. IInv => RestartsBounded
  BY DEF IInv
<1>2. QED
  BY <1>1, InitIInv, NextIInv, PTL DEF Spec

(* The process and cluster variables keep their types in every behaviour:  *)
(* the lifecycle is always in one of its four states, the watch set of the *)
(* running process names managed CRDs only, and the bounds stay in range.  *)
THEOREM TypeCorrect == Spec => []TypeOK
<1>1. IInv => TypeOK
  BY DEF IInv
<1>2. QED
  BY <1>1, InitIInv, NextIInv, PTL DEF Spec

-----------------------------------------------------------------------------
(* Refinement of LifecycleSpec.  No invariant is needed: every step that   *)
(* the abstract spec sees is guarded in the code by what the abstract      *)
(* action requires, and the others change neither whether a manager        *)
(* serves nor what it watches.                                             *)

\* The process starts down, watching nothing, with no restart behind it.
LEMMA InitRefines == Init => Life!Init
BY DEF Init, Life!Init, LifecycleUp, LifecycleWatched

\* The steps that leave the serving manager, its watches and the cluster as they are.
LEMMA HiddenStepStutters ==
    ASSUME \/ ProcessStart \/ ValidateTimedOut \/ ValidateCRDMissing \/ Reconcile
           \/ ManagerStopped \/ ApiSlowdown \/ ApiRecover
           \/ (Terminate /\ proc = "validating")
    PROVE  UNCHANGED Life!lvars
<1>1. CASE ProcessStart \/ ValidateTimedOut \/ ValidateCRDMissing
  BY <1>1 DEF ProcessStart, ValidateTimedOut, ValidateCRDMissing, Life!lvars,
              LifecycleUp, LifecycleWatched
<1>2. CASE Reconcile \/ ApiSlowdown \/ ApiRecover
  BY <1>2 DEF Reconcile, ApiSlowdown, ApiRecover, vars, Life!lvars,
              LifecycleUp, LifecycleWatched
<1>3. CASE ManagerStopped
  BY <1>3 DEF ManagerStopped, Life!lvars, LifecycleUp, LifecycleWatched
<1>4. CASE Terminate /\ proc = "validating"
  BY <1>4 DEF Terminate, Life!lvars, LifecycleUp, LifecycleWatched
<1>5. QED
  BY <1>1, <1>2, <1>3, <1>4

\* SetupWithManager: the manager starts with a watch on each kind Established now.
LEMMA ValidatePassedRefines == ValidatePassed => Life!Start
BY DEF ValidatePassed, Life!Start, LifecycleUp, LifecycleWatched

\* The CRDDiscovered cancel is a restart for an unwatched Established CRD.
LEMMA CRDDiscoveredRefines == CRDDiscovered => Life!Restart
BY DEF CRDDiscovered, Life!Restart, LifecycleUp, LifecycleWatched

\* SIGTERM to a running manager is the stop.
LEMMA TerminateRunningRefines == Terminate /\ proc = "running" => Life!Stop
BY DEF Terminate, Life!Stop, LifecycleUp, LifecycleWatched

\* The cluster's CRD installs are the abstract spec's own.
LEMMA ClusterRefines ==
    /\ EstablishCRD => Life!Establish
    /\ InstallHCOCRD => Life!InstallHCO
BY DEF EstablishCRD, InstallHCOCRD, Life!Establish, Life!InstallHCO,
       LifecycleUp, LifecycleWatched

\* Every step of the process, the signals and the cluster maps to a step or a stutter.
LEMMA NextRefines == [Next]_vars => [Life!Next]_Life!lvars
<1> SUFFICES ASSUME [Next]_vars PROVE [Life!Next]_Life!lvars
  OBVIOUS
<1>1. CASE ValidatePassed
  BY <1>1, ValidatePassedRefines DEF Life!Next
<1>2. CASE CRDDiscovered
  BY <1>2, CRDDiscoveredRefines DEF Life!Next
<1>3. CASE Terminate
  <2>1. proc = "validating" \/ proc = "running"
    BY <1>3 DEF Terminate
  <2>2. QED
    BY <1>3, <2>1, TerminateRunningRefines, HiddenStepStutters DEF Life!Next
<1>4. CASE EstablishCRD \/ InstallHCOCRD
  BY <1>4, ClusterRefines DEF Life!Next
<1>5. CASE ProcessStart \/ ValidateTimedOut \/ ValidateCRDMissing \/ Reconcile
           \/ ManagerStopped \/ ApiSlowdown \/ ApiRecover
  BY <1>5, HiddenStepStutters
<1>6. CASE UNCHANGED vars
  BY <1>6 DEF vars, Life!lvars, LifecycleUp, LifecycleWatched
<1>7. QED
  BY <1>1, <1>2, <1>3, <1>4, <1>5, <1>6 DEF Next, Process, Cluster

(* ImplementsLifecycleSpec for every set of managed CRDs and every bound:  *)
(* runController, the CRD watch's shutdown hook and SIGTERM handling       *)
(* together behave as a manager that starts watching exactly the kinds    *)
(* Established at its start, never adds a watch while serving, and is      *)
(* restarted on its own only for an Established kind it does not watch.    *)
THEOREM ImplementsLifecycleSpecHolds == Spec => ImplementsLifecycleSpec
<1>1. Spec => Life!Spec
  BY InitRefines, NextRefines, PTL DEF Spec, Life!Spec
<1>2. QED
  BY <1>1 DEF ImplementsLifecycleSpec
=============================================================================
