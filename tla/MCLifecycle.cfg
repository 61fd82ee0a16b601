CONSTANTS
    Managed <- MCManaged
    MaxSlow <- MCMaxSlow
    MaxSignals <- MCMaxSignals

SPECIFICATION Spec

INVARIANT RestartsBounded
PROPERTY WatchesConverge
PROPERTY ImplementsLifecycleSpec
