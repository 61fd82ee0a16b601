----------------------------- MODULE MCPatcher -----------------------------
(* A TLC instance of Patcher: a MachineConfig (a sensitive kind) and a     *)
(* ConfigMap, every kind of annotation value, and two user edits.         *)
EXTENDS Patcher, TLC

MCObjOrder == <<"swap", "cfg">>
MCKind == "swap" :> "MachineConfig" @@ "cfg" :> "ConfigMap"
MCPatchValues == {"[]", BadPatch}
MCPointerValues == {BadPointers}
MCModeValues == {"unmanaged", "managed"}
MCPausedValues == {"true"}
MCAutopilotValues == {"true"}
MCMaxEdits == 2
====
