------------------------------ MODULE Lifecycle ------------------------------
(***************************************************************************)
(* The life of the controller process: runController of main.go            *)
(* (test/SETUP_COMPLETE.md 355-509) and the shutdown hook of the           *)
(* reconciler (spec.md 4.8, 4.9), restarted by the orchestrator.           *)
(*                                                                         *)
(* A started process validates that the HCO CRD exists through the API     *)
(* reader, under a context with crdValidationTimeout; a failed or timed    *)
(* out check returns an error and the process exits.  Once it passes,      *)
(* SetupWithManager watches every managed kind whose CRD is Established    *)
(* and marks it watched, and the manager runs.  A managed CRD that becomes *)
(* Established later cannot be watched by the started runtime: the         *)
(* reconciler cancels the manager's context, mgr.Start returns, the        *)
(* process exits 0 and the orchestrator starts it again.  SIGTERM cancels  *)
(* the same context.  The debug server, logging and metrics are left out:  *)
(* the debug server's shutdown goroutine races the process exit and leaves *)
(* nothing behind either way.                                              *)
(***************************************************************************)
EXTENDS Naturals, FiniteSets

CONSTANTS
    Managed,     \* the managed kinds' CRDs (isManagedCRD), the HCO's left out
    MaxSlow,     \* bound: periods in which the API server answers too late
    MaxSignals   \* bound: SIGTERMs sent to the process

ASSUME LifecycleAssumption ==
    /\ IsFiniteSet(Managed)
    /\ MaxSlow \in Nat
    /\ MaxSignals \in Nat

VARIABLES
    proc,         \* "down", "validating", "running" or "stopping"
    pending,      \* the validation call in flight will not answer before the deadline
    hcoCRD,       \* the HyperConverged CRD is installed (by OLM)
    established,  \* the managed CRDs that are Established
    watched,      \* watchedCRDs of the running process
    apiSlow,      \* the API server answers later than crdValidationTimeout
    slowLeft,     \* slow periods still allowed
    signalsLeft,  \* SIGTERMs still allowed
    restarts      \* history: shutdowns triggered by a discovered CRD

vars == <<proc, pending, hcoCRD, established, watched, apiSlow, slowLeft,
          signalsLeft, restarts>>

TypeOK ==
    /\ proc \in {"down", "validating", "running", "stopping"}
    /\ pending \in BOOLEAN
    /\ hcoCRD \in BOOLEAN
    /\ established \subseteq Managed
    /\ watched \subseteq Managed
    /\ apiSlow \in BOOLEAN
    /\ slowLeft \in 0..MaxSlow
    /\ signalsLeft \in 0..MaxSignals
    /\ restarts \in Nat

(* Any cluster the process may first be started in; nothing runs yet.     *)
Init ==
    /\ proc = "down"
    /\ pending = FALSE
    /\ hcoCRD \in BOOLEAN
    /\ established \in SUBSET Managed
    /\ watched = {}
    /\ apiSlow \in BOOLEAN
    /\ slowLeft = MaxSlow
    /\ signalsLeft = MaxSignals
    /\ restarts = 0

-----------------------------------------------------------------------------
(* The process.                                                            *)

(* The orchestrator starts the process; it builds the manager and asks     *)
(* the API reader whether the HCO CRD is installed, under a deadline.  The *)
(* call answers in time exactly when the API server is not slow now.       *)
ProcessStart ==
    /\ proc = "down"
    /\ proc' = "validating"
    /\ pending' = apiSlow
    /\ UNCHANGED <<hcoCRD, established, watched, apiSlow, slowLeft, signalsLeft, restarts>>

\* Mutant: the check has no deadline, and a call that does not answer blocks for good.
ValidateTimeoutHangs ==
    /\ proc = "validating"
    /\ pending
    /\ UNCHANGED vars

\* The deadline passes: IsCRDInstalled returns an error, runController returns it.
ValidateTimedOut ==
    /\ proc = "validating"
    /\ pending
    /\ proc' = "down"
    /\ pending' = FALSE
    /\ UNCHANGED <<hcoCRD, established, watched, apiSlow, slowLeft, signalsLeft, restarts>>

\* The HCO CRD is not installed: "HCO CRD not found", the process exits.
ValidateCRDMissing ==
    /\ proc = "validating"
    /\ ~pending
    /\ ~hcoCRD
    /\ proc' = "down"
    /\ UNCHANGED <<pending, hcoCRD, established, watched, apiSlow, slowLeft, signalsLeft, restarts>>

(* The check passes; SetupWithManager watches the managed kinds whose CRD  *)
(* is Established now and marks them watched, and the manager starts.     *)
ValidatePassed ==
    /\ proc = "validating"
    /\ ~pending
    /\ hcoCRD
    /\ proc' = "running"
    /\ watched' = established
    /\ UNCHANGED <<pending, hcoCRD, established, apiSlow, slowLeft, signalsLeft, restarts>>

\* Mutant: any Established managed CRD triggers the shutdown, watched or not.
CRDDiscoveredIgnoringWatched ==
    /\ proc = "running"
    /\ established # {}
    /\ proc' = "stopping"
    /\ restarts' = restarts + 1
    /\ UNCHANGED <<pending, hcoCRD, established, watched, apiSlow, slowLeft, signalsLeft>>

(* The CRD watch reports a managed CRD Established that is not watched:    *)
(* the reconciler emits CRDDiscovered and calls the shutdown function,     *)
(* the cancel of the manager's context.                                    *)
CRDDiscovered ==
    /\ proc = "running"
    /\ established \ watched # {}
    /\ proc' = "stopping"
    /\ restarts' = restarts + 1
    /\ UNCHANGED <<pending, hcoCRD, established, watched, apiSlow, slowLeft, signalsLeft>>

(* The periodic requeue of a running manager with nothing new to watch.    *)
Reconcile ==
    /\ proc = "running"
    /\ established \subseteq watched
    /\ UNCHANGED vars

(* The context is cancelled: mgr.Start returns nil, runController returns  *)
(* and the process exits 0, its watch set gone with it.                    *)
ManagerStopped ==
    /\ proc = "stopping"
    /\ proc' = "down"
    /\ watched' = {}
    /\ UNCHANGED <<pending, hcoCRD, established, apiSlow, slowLeft, signalsLeft, restarts>>

(* SIGTERM: before SetupSignalHandler (during the check) it kills the      *)
(* process; afterwards it cancels the manager's context.                   *)
Terminate ==
    /\ signalsLeft > 0
    /\ signalsLeft' = signalsLeft - 1
    /\ \/ proc = "validating" /\ proc' = "down" /\ pending' = FALSE
       \/ proc = "running" /\ proc' = "stopping" /\ UNCHANGED pending
    /\ UNCHANGED <<hcoCRD, established, watched, apiSlow, slowLeft, restarts>>

Process ==
    \/ ProcessStart
    \/ ValidateTimedOut
    \/ ValidateCRDMissing
    \/ ValidatePassed
    \/ CRDDiscovered
    \/ Reconcile
    \/ ManagerStopped

-----------------------------------------------------------------------------
(* The cluster: OLM installs CRDs, the API server slows down and recovers. *)

\* A managed CRD becomes Established; the watched-kind set only grows.
EstablishCRD ==
    /\ \E c \in Managed \ established : established' = established \cup {c}
    /\ UNCHANGED <<proc, pending, hcoCRD, watched, apiSlow, slowLeft, signalsLeft, restarts>>

InstallHCOCRD ==
    /\ ~hcoCRD
    /\ hcoCRD' = TRUE
    /\ UNCHANGED <<proc, pending, established, watched, apiSlow, slowLeft, signalsLeft, restarts>>

ApiSlowdown ==
    /\ ~apiSlow
    /\ slowLeft > 0
    /\ apiSlow' = TRUE
    /\ slowLeft' = slowLeft - 1
    /\ UNCHANGED <<proc, pending, hcoCRD, established, watched, signalsLeft, restarts>>

ApiRecover ==
    /\ apiSlow
    /\ apiSlow' = FALSE
    /\ UNCHANGED <<proc, pending, hcoCRD, established, watched, slowLeft, signalsLeft, restarts>>

Cluster == EstablishCRD \/ InstallHCOCRD \/ ApiSlowdown \/ ApiRecover

Next == Process \/ Terminate \/ Cluster

(* The orchestrator restarts an exited process, a deadline always fires,   *)
(* an answered call returns, the CRD watch delivers its events and a       *)
(* cancelled manager returns: the process's own steps are weakly fair.     *)
(* The cluster and the signals owe nothing.                                *)
Spec == Init /\ [][Next]_vars /\ WF_vars(Process)

-----------------------------------------------------------------------------
(* Properties.                                                             *)

(* CRD-discovery restarts converge: each restart is caused by a managed    *)
(* CRD that the process did not watch, and the restarted process watches  *)
(* every CRD Established by then, so there are never more restarts than   *)
(* Established managed CRDs.  A trigger that re-fired for a watched kind   *)
(* would restart the process forever.                                      *)
RestartsBounded == restarts <= Cardinality(established)

(* Once the API server stays fast enough and the HCO CRD stays installed,  *)
(* the process comes up, whatever timeouts and exits came before, and      *)
(* settles running with a watch on every Established managed CRD.          *)
WatchesConverge ==
    (<>[]~apiSlow /\ <>[]hcoCRD) =>
        <>[](proc = "running" /\ watched = established)

-----------------------------------------------------------------------------
(* Refinement.                                                             *)

\* A manager serves while the process runs; a cancelled one no longer does.
LifecycleUp == proc = "running"

\* What the serving manager watches; nothing while none serves.
LifecycleWatched == IF proc = "running" THEN watched ELSE {}

Life == INSTANCE LifecycleSpec WITH up <- LifecycleUp, watched <- LifecycleWatched

(* runController and the shutdown hook implement LifecycleSpec: the CRD    *)
(* check and its timeouts, the API server's slowness and the exit after a  *)
(* cancel are stutters; SetupWithManager is the start that watches the     *)
(* kinds Established then, the CRDDiscovered cancel is the restart and a   *)
(* SIGTERM to a running manager is the stop.  A start that watched more or *)
(* less than the Established kinds, or a restart for a watched kind, is    *)
(* not a step of the abstract spec.                                        *)
ImplementsLifecycleSpec == Life!Spec
=============================================================================
