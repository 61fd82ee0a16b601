CONSTANTS
    AssetOrder <- MCAssetOrder
    Conds <- MCConds
    Rendered <- MCRendered
    CondKeys <- MCCondKeys
    AnnValues <- MCAnnValues
    Gates <- MCGates
    FGAnnValues <- MCFGAnnValues
    Detectors <- MCDetectors
    ResKeys <- MCResKeys
    DRValues <- MCDRValues
    MaxEdits <- MCMaxEdits
    Absent = Absent
    Blank = Blank
    Malformed = Malformed

SPECIFICATION Spec
INVARIANT TypeOK
INVARIANT BuildOutputsMatchesRenderAsset
INVARIANT ExclusionsMatchRender
