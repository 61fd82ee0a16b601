------------------------------ MODULE MCRender ------------------------------
(***************************************************************************)
(* Five assets that between them take every branch of BuildOutputs: an    *)
(* unconditional one, one behind an annotation condition that the          *)
(* disabled-resources annotation may filter, one behind a feature gate     *)
(* whose template may render empty, one whose template fails, and one      *)
(* behind a hardware condition.                                            *)
(***************************************************************************)
EXTENDS Render, TLC

MCAssetOrder == <<"kubedescheduler", "swap", "nhc", "broken", "gpu">>

AnnCond(v) == [type |-> "annotation", key |-> "tuning", value |-> v]
GateCond(g) == [type |-> "featureGate", value |-> g]
HwCond(d) == [type |-> "hardwareDetection", detector |-> d]

MCConds ==
    ("kubedescheduler" :> {}) @@
    ("swap" :> {AnnCond("true")}) @@
    ("nhc" :> {GateCond(<<"a">>)}) @@
    ("broken" :> {}) @@
    ("gpu" :> {HwCond("gpu")})

MCRendered ==
    ("kubedescheduler" :> "KubeDescheduler/cluster") @@
    ("swap" :> "MachineConfig/swap") @@
    ("nhc" :> "empty") @@
    ("broken" :> "error") @@
    ("gpu" :> "KubeDescheduler/cluster")

MCCondKeys == {"tuning"}
MCAnnValues == {"", "true"}
MCGates == {<<"a">>}
MCFGAnnValues == {<<"a">>, <<"a", "b">>}
MCDetectors == {"gpu"}
MCResKeys == {"KubeDescheduler/cluster", "MachineConfig/swap"}
MCDRValues == {<<"MachineConfig/swap">>, <<Blank>>, Malformed}
MCMaxEdits == 1

\* A catalog of one asset behind a feature gate condition.
GateOrder == <<"nhc">>
GateConds == "nhc" :> {GateCond(<<"a">>)}
GateRendered == "nhc" :> "KubeDescheduler/cluster"

\* A catalog of one asset behind an annotation condition with an empty value.
EmptyAnnOrder == <<"swap">>
EmptyAnnConds == "swap" :> {AnnCond("")}
EmptyAnnRendered == "swap" :> "MachineConfig/swap"
=============================================================================
