CONSTANTS
    NumTombstones <- MCNumTombstones
    MaxIncarnation <- MCMaxIncarnation
    MaxEnvSteps <- MCMaxEnvSteps
    MaxApiErrors <- MCMaxApiErrors

SPECIFICATION Spec

INVARIANT NoDeleteOfUnlabeled
