CONSTANTS
    AssetOrder <- GateOrder
    Conds <- GateConds
    Rendered <- GateRendered
    CondKeys <- MCCondKeys
    AnnValues <- MCAnnValues
    Gates <- MCGates
    FGAnnValues <- MCFGAnnValues
    Detectors <- MCDetectors
    ResKeys <- MCResKeys
    DRValues <- MCDRValues
    MaxEdits <- MCMaxEdits
    Absent = Absent
    Blank = Blank
    Malformed = Malformed

SPECIFICATION Spec
INVARIANT RenderPreviewMatchesController
