----------------------------- MODULE MCLifecycle -----------------------------
(* Lifecycle with two managed CRDs, two slow periods of the API server and *)
(* one SIGTERM.                                                             *)
EXTENDS Lifecycle

MCManaged == {"machineconfigs", "nodehealthchecks"}
MCMaxSlow == 2
MCMaxSignals == 1
=============================================================================
