----------------------------- MODULE LifecycleSpec -----------------------------
(***************************************************************************)
(* What the controller process promises the cluster, seen from outside:    *)
(* a manager is either serving or not.  It starts only once the HCO CRD is *)
(* installed, and then watches exactly the managed kinds whose CRD is      *)
(* Established at that moment; it never adds a watch while it serves.  It  *)
(* stops on SIGTERM, and is restarted on its own only for an Established   *)
(* managed CRD it does not watch.  The CRD check, its deadline, the exit   *)
(* of a failed check and the window between the cancel of the manager's   *)
(* context and the process's exit are the implementation's business.       *)
(***************************************************************************)
EXTENDS Naturals

CONSTANT Managed   \* the managed kinds' CRDs

VARIABLES
    up,           \* a manager is serving
    watched,      \* the kinds the serving manager watches; {} when none serves
    hcoCRD,       \* the HyperConverged CRD is installed
    established,  \* the managed CRDs that are Established
    restarts      \* restarts the process made to pick up a new CRD

lvars == <<up, watched, hcoCRD, established, restarts>>

Init ==
    /\ up = FALSE
    /\ watched = {}
    /\ hcoCRD \in BOOLEAN
    /\ established \in SUBSET Managed
    /\ restarts = 0

\* A manager starts, watching the kinds Established now.
Start ==
    /\ ~up
    /\ hcoCRD
    /\ up' = TRUE
    /\ watched' = established
    /\ UNCHANGED <<hcoCRD, established, restarts>>

\* The serving manager goes away to pick up a CRD it does not watch.
Restart ==
    /\ up
    /\ established \ watched # {}
    /\ up' = FALSE
    /\ watched' = {}
    /\ restarts' = restarts + 1
    /\ UNCHANGED <<hcoCRD, established>>

\* The serving manager stops on SIGTERM.
Stop ==
    /\ up
    /\ up' = FALSE
    /\ watched' = {}
    /\ UNCHANGED <<hcoCRD, established, restarts>>

\* A managed CRD becomes Established.
Establish ==
    /\ \E c \in Managed \ established : established' = established \cup {c}
    /\ UNCHANGED <<up, watched, hcoCRD, restarts>>

\* OLM installs the HCO CRD.
InstallHCO ==
    /\ ~hcoCRD
    /\ hcoCRD' = TRUE
    /\ UNCHANGED <<up, watched, established, restarts>>

Next == Start \/ Restart \/ Stop \/ Establish \/ InstallHCO

Spec == Init /\ [][Next]_lvars
=============================================================================
