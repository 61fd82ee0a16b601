CONSTANTS
    ObjOrder <- MCObjOrder
    Kind <- MCKind
    PatchValues <- MCPatchValues
    PointerValues <- MCPointerValues
    ModeValues <- MCModeValues
    PausedValues <- MCPausedValues
    AutopilotValues <- MCAutopilotValues
    MaxEdits <- MCMaxEdits
    BadPatch = BadPatch
    BadPointers = BadPointers
    Absent = Absent
SPECIFICATION Spec
INVARIANT TypeOK
INVARIANT UnmanagedOptOutTakesEffect
PROPERTY WritesPassGates
