CONSTANTS
    AssetOrder <- EmptyAnnOrder
    Conds <- EmptyAnnConds
    Rendered <- EmptyAnnRendered
    CondKeys <- MCCondKeys
    AnnValues <- MCAnnValues
    Gates <- MCGates
    FGAnnValues <- MCFGAnnValues
    Detectors <- MCDetectors
    ResKeys <- MCResKeys
    DRValues <- MCDRValues
    MaxEdits <- MCMaxEdits
    Absent = Absent
    Blank = Blank
    Malformed = Malformed

SPECIFICATION Spec
INVARIANT RenderPreviewMatchesController
