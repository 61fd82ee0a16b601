CONSTANTS
    AssetWidth <- MCAssetWidth
    ComponentWidth <- MCComponentWidth
    ReasonWidth <- MCReasonWidth
    AssetNames <- MCAssetNames
    ComponentNames <- MCComponentNames
    Reasons <- MCReasons
    MaxRows <- MCMaxRows

SPECIFICATION Spec

\* writeStatusOutput returns after the summary line.
CHECK_DEADLOCK FALSE

INVARIANT RowsAligned
INVARIANT SummaryMatchesRows
PROPERTY ImplementsTableSpec
