CONSTANTS
    NumTombstones <- MCNumTombstones
    MaxIncarnation <- MCMaxIncarnation
    MaxEnvSteps <- MCMaxEnvSteps
    MaxApiErrors <- MCMaxApiErrors

SPECIFICATION Spec

INVARIANT TypeOK
INVARIANT ErrorMatchesMetrics
PROPERTY MetricsConverge
PROPERTY GaugeWritesTruthful
