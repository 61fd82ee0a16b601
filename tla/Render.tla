------------------------------- MODULE Render -------------------------------
(***************************************************************************)
(* The render preview of pkg/render/output.go, called by the render CLI    *)
(* (cmd/render/render.go) and by the debug endpoints (pkg/debug).          *)
(*                                                                         *)
(* BuildOutputs takes a snapshot of the HyperConverged CR (the render      *)
(* context), parses the root-exclusion annotation once, then walks the     *)
(* asset list in reconcile order and gives each asset a status: EXCLUDED   *)
(* (conditions not met, or the template rendered empty), ERROR, FILTERED   *)
(* (root exclusion) or INCLUDED.  /debug/render/{asset} and                *)
(* /debug/exclusions repeat the same classification for one asset and for  *)
(* the excluded ones.  Users edit the HCO while a call is in progress.     *)
(*                                                                         *)
(* Strings are abstracted: an annotation value is a model value, except    *)
(* the feature-gates annotation, which CheckConditions searches with       *)
(* strings.Contains and is therefore a sequence of characters, and the     *)
(* disabled-resources annotation, which is its list of comma-separated     *)
(* entries after TrimSpace.  Templates are embedded, so what RenderAsset   *)
(* returns for an asset is a constant.                                     *)
(***************************************************************************)
EXTENDS Naturals, Sequences, FiniteSets

CONSTANTS
    AssetOrder,     \* ListAssetsByReconcileOrder: the assets, in reconcile order
    Conds,          \* the conditions declared in each asset's metadata
    Rendered,       \* what RenderAsset returns for each asset
    CondKeys,       \* annotation keys that annotation conditions test
    AnnValues,      \* values those annotations may hold ("" among them)
    Gates,          \* feature gate names, as strings (sequences of characters)
    FGAnnValues,    \* strings the feature-gates annotation may hold
    Detectors,      \* hardware detectors (gpuPresent, ...)
    ResKeys,        \* Kind/Name of rendered objects
    DRValues,       \* disabled-resources values: entry lists, or Malformed
    Absent,         \* an annotation that is not set
    Blank,          \* an entry of disabled-resources that trims to ""
    Malformed,      \* a disabled-resources value the parser rejects
    MaxEdits        \* bound: edits of the HCO by users

Assets == {AssetOrder[j] : j \in DOMAIN AssetOrder}

Condition ==
         [type : {"annotation"}, key : CondKeys, value : AnnValues]
    \cup [type : {"featureGate"}, value : Gates]
    \cup [type : {"hardwareDetection"}, detector : Detectors]

ASSUME RenderAssumption ==
    /\ AssetOrder \in Seq(Assets)
    /\ \A j, k \in DOMAIN AssetOrder : AssetOrder[j] = AssetOrder[k] => j = k
    /\ Conds \in [Assets -> SUBSET Condition]
    /\ Rendered \in [Assets -> {"error", "empty"} \cup ResKeys]
    /\ {"error", "empty"} \cap ResKeys = {}
    /\ DRValues \subseteq Seq(ResKeys \cup {Blank}) \cup {Malformed}
    /\ "" \in AnnValues
    /\ Gates \cup FGAnnValues \subseteq Seq(STRING)
    /\ MaxEdits \in Nat

\* The part of the cluster a render context is built from.
Cluster ==
    [ann      : [CondKeys -> AnnValues \cup {Absent}],
     fgAnn    : FGAnnValues \cup {Absent},
     drAnn    : DRValues \cup {Absent},
     gates    : SUBSET Gates,     \* spec.featureGates
     hardware : SUBSET Detectors]

Statuses == {"EXCLUDED", "ERROR", "FILTERED", "INCLUDED"}

VARIABLES
    hco,        \* the HCO in the cluster (and the node hardware facts)
    phase,      \* "idle", or "loop" while BuildOutputs runs
    ctx,        \* renderCtx: the snapshot BuildOutputs works from
    show,       \* showExcluded
    list,       \* assetList
    i,          \* index of the asset being classified
    rules,      \* exclusionRules, parsed once before the loop
    outputs,    \* the outputs built so far
    last,       \* the last completed call: its inputs and its outputs
    edits       \* HCO edits by users so far

vars == <<hco, phase, ctx, show, list, i, rules, outputs, last, edits>>

-----------------------------------------------------------------------------
(* Helpers, as the code computes them.                                     *)

\* GetAnnotations()[key]: an annotation that is not set reads as "".
AnnotationValue(c, key) == IF c.ann[key] = Absent THEN "" ELSE c.ann[key]

\* strings.Contains(s, t): t occurs in s as a contiguous substring.
StringsContains(s, t) == t \in {SubSeq(s, m + 1, n) : m, n \in 0..Len(s)}

\* One case of the switch in CheckConditions.
ConditionHolds(cond, c) ==
    CASE cond.type = "annotation" ->
            AnnotationValue(c, cond.key) = cond.value
      [] cond.type = "featureGate" ->
            StringsContains(IF c.fgAnn = Absent THEN <<>> ELSE c.fgAnn, cond.value)
      [] cond.type = "hardwareDetection" ->
            FALSE

\* CheckConditions: all conditions of the asset hold (AND; none means true).
CheckConditions(a, c) == \A cond \in Conds[a] : ConditionHolds(cond, c)

\* ParseDisabledResources: the trimmed, non-empty entries.
ParseDisabledResources(entries) == {entries[j] : j \in DOMAIN entries} \ {Blank}

\* IsResourceExcluded: the Kind/Name is one of the rules.
IsResourceExcluded(key, ruleSet) == key \in ruleSet

(* The rules BuildOutputs parses once: none when the annotation is empty,  *)
(* none when it does not parse (fail-open).                                *)
ExclusionRules(c) ==
    IF c.drAnn \in {Absent, Malformed} THEN {}
    ELSE ParseDisabledResources(c.drAnn)

\* handleRenderAsset: the status /debug/render/{asset} reports.
RenderAssetStatus(a, c) ==
    IF ~CheckConditions(a, c) THEN "EXCLUDED"
    ELSE IF Rendered[a] = "error" THEN "ERROR"
    ELSE IF Rendered[a] = "empty" THEN "EXCLUDED"
    ELSE IF IsResourceExcluded(Rendered[a], ExclusionRules(c)) THEN "FILTERED"
    ELSE "INCLUDED"

\* Variant: /debug/exclusions leaves out templates that rendered empty.
ExclusionsErrorsOnly(c) ==
    {a \in Assets :
        \/ ~CheckConditions(a, c)
        \/ Rendered[a] = "error"
        \/ IsResourceExcluded(Rendered[a], ExclusionRules(c))}

\* handleExclusions: the assets /debug/exclusions lists.
Exclusions(c) ==
    {a \in Assets :
        \/ ~CheckConditions(a, c)
        \/ Rendered[a] \in {"error", "empty"}
        \/ IsResourceExcluded(Rendered[a], ExclusionRules(c))}

Output == [asset : Assets, status : Statuses]

TypeOK ==
    /\ hco \in Cluster
    /\ phase \in {"idle", "loop"}
    /\ ctx \in Cluster
    /\ show \in BOOLEAN
    /\ list \in Seq(Assets)
    /\ i \in 1..Len(AssetOrder) + 1
    /\ rules \in SUBSET ResKeys
    /\ outputs \in Seq(Output)
    /\ last \in [ctx : Cluster, show : BOOLEAN, list : Seq(Assets), outputs : Seq(Output)]
    /\ edits \in 0..MaxEdits

(* The HCO the process has started against, and no call in progress.      *)
Init ==
    /\ hco \in Cluster
    /\ phase = "idle"
    /\ ctx = hco
    /\ show = FALSE
    /\ list = <<>>
    /\ i = 1
    /\ rules = {}
    /\ outputs = <<>>
    /\ last = [ctx |-> hco, show |-> FALSE, list |-> <<>>, outputs |-> <<>>]
    /\ edits = 0

-----------------------------------------------------------------------------
(* BuildOutputs, one asset per step.                                       *)

(* Entry: the caller has built the render context from the HCO it read;    *)
(* the root-exclusion rules are parsed once, before the loop.              *)
BuildOutputs(assetList, showExcluded) ==
    /\ phase = "idle"
    /\ phase' = "loop"
    /\ ctx' = hco
    /\ rules' = ExclusionRules(hco)
    /\ list' = assetList
    /\ show' = showExcluded
    /\ i' = 1
    /\ outputs' = <<>>
    /\ UNCHANGED <<hco, last, edits>>

\* Variant: the loop index skips an asset.
EmitSkipping(st, alwaysShown) ==
    /\ outputs' = IF alwaysShown \/ show
                    THEN Append(outputs, [asset |-> list[i], status |-> st])
                    ELSE outputs
    /\ i' = i + 2
    /\ UNCHANGED <<hco, phase, ctx, show, list, rules, last, edits>>

\* The asset at i gets status st; hidden unless showExcluded or always shown.
Emit(st, alwaysShown) ==
    /\ outputs' = IF alwaysShown \/ show
                    THEN Append(outputs, [asset |-> list[i], status |-> st])
                    ELSE outputs
    /\ i' = i + 1
    /\ UNCHANGED <<hco, phase, ctx, show, list, rules, last, edits>>

ConditionsNotMet ==
    /\ phase = "loop" /\ i <= Len(list)
    /\ ~CheckConditions(list[i], ctx)
    /\ Emit("EXCLUDED", FALSE)

\* Variant: a render error is shown only with showExcluded.
RenderFailedHidden ==
    /\ phase = "loop" /\ i <= Len(list)
    /\ CheckConditions(list[i], ctx)
    /\ Rendered[list[i]] = "error"
    /\ Emit("ERROR", FALSE)

RenderFailed ==
    /\ phase = "loop" /\ i <= Len(list)
    /\ CheckConditions(list[i], ctx)
    /\ Rendered[list[i]] = "error"
    /\ Emit("ERROR", TRUE)

RenderedEmpty ==
    /\ phase = "loop" /\ i <= Len(list)
    /\ CheckConditions(list[i], ctx)
    /\ Rendered[list[i]] = "empty"
    /\ Emit("EXCLUDED", FALSE)

RootExcluded ==
    /\ phase = "loop" /\ i <= Len(list)
    /\ CheckConditions(list[i], ctx)
    /\ Rendered[list[i]] \in ResKeys
    /\ IsResourceExcluded(Rendered[list[i]], rules)
    /\ Emit("FILTERED", FALSE)

Included ==
    /\ phase = "loop" /\ i <= Len(list)
    /\ CheckConditions(list[i], ctx)
    /\ Rendered[list[i]] \in ResKeys
    /\ ~IsResourceExcluded(Rendered[list[i]], rules)
    /\ Emit("INCLUDED", TRUE)

\* The loop is over: the caller writes the outputs.
BuildOutputsReturn ==
    /\ phase = "loop" /\ i = Len(list) + 1
    /\ phase' = "idle"
    /\ last' = [ctx |-> ctx, show |-> show, list |-> list, outputs |-> outputs]
    /\ UNCHANGED <<hco, ctx, show, list, i, rules, outputs, edits>>

-----------------------------------------------------------------------------
(* Callers.                                                                *)

(* runRender: every asset in reconcile order, or only the one --asset      *)
(* names (an unknown name is an error before anything is rendered).        *)
RunRender ==
    \E showExcluded \in BOOLEAN :
        \/ BuildOutputs(AssetOrder, showExcluded)
        \/ \E a \in Assets : BuildOutputs(<<a>>, showExcluded)

\* handleRender: GET /debug/render, every asset in reconcile order.
HandleRender ==
    \E showExcluded \in BOOLEAN : BuildOutputs(AssetOrder, showExcluded)

(* A user edits one annotation of the HCO or its feature gates, or a node *)
(* with some hardware joins or leaves.                                     *)
EditHCO ==
    /\ edits < MaxEdits
    /\ \/ \E k \in CondKeys, v \in AnnValues \cup {Absent} : hco' = [hco EXCEPT !.ann[k] = v]
       \/ \E v \in FGAnnValues \cup {Absent} : hco' = [hco EXCEPT !.fgAnn = v]
       \/ \E v \in DRValues \cup {Absent} : hco' = [hco EXCEPT !.drAnn = v]
       \/ \E g \in SUBSET Gates : hco' = [hco EXCEPT !.gates = g]
       \/ \E h \in SUBSET Detectors : hco' = [hco EXCEPT !.hardware = h]
    /\ edits' = edits + 1
    /\ UNCHANGED <<phase, ctx, show, list, i, rules, outputs, last>>

Next ==
    \/ RunRender \/ HandleRender
    \/ ConditionsNotMet \/ RenderFailed \/ RenderedEmpty \/ RootExcluded \/ Included
    \/ BuildOutputsReturn
    \/ EditHCO

Spec == Init /\ [][Next]_vars

-----------------------------------------------------------------------------
(* Properties.                                                             *)

\* The positions among the first n of list l whose output BuildOutputs shows.
ShownPositions(l, n, b, c) ==
    {k \in 1..n : b \/ RenderAssetStatus(l[k], c) \in {"INCLUDED", "ERROR"}}

\* The place of position k among the positions S, counted from 1.
RankIn(S, k) == Cardinality({m \in S : m <= k})

\* outs holds, in order, the output of each position of l in S and nothing else.
OutputsFollow(outs, l, S, c) ==
    /\ Len(outs) = Cardinality(S)
    /\ \A k \in S :
          outs[RankIn(S, k)] = [asset |-> l[k], status |-> RenderAssetStatus(l[k], c)]

(* The preview is the same whichever endpoint shows it: the last          *)
(* BuildOutputs call returned one output per shown position of its list   *)
(* (every asset with showExcluded, else the INCLUDED and ERROR ones), the *)
(* k-th shown position at the k-th place, with the status                  *)
(* /debug/render/{asset} reports for the same HCO snapshot.  A loop that  *)
(* skipped or repeated an asset, or shown/hidden rules that differ from    *)
(* the handler's, break it.                                                *)
BuildOutputsMatchesRenderAsset ==
    OutputsFollow(last.outputs, last.list,
                  ShownPositions(last.list, Len(last.list), last.show, last.ctx),
                  last.ctx)

(* /debug/exclusions lists exactly the assets that /debug/render with     *)
(* show-excluded=true reports as anything but INCLUDED, for the same HCO.  *)
ExclusionsMatchRender ==
    (last.list = AssetOrder /\ last.show) =>
        Exclusions(last.ctx) =
            {last.outputs[j].asset : j \in {j \in DOMAIN last.outputs :
                                              last.outputs[j].status # "INCLUDED"}}

(* spec.md section 3, Condition: an annotation condition holds when the    *)
(* HCO annotation equals the value, or is present when the value is       *)
(* empty; a feature gate condition when the gate is enabled in the HCO's   *)
(* spec.featureGates; a hardware condition when the named fact is true.    *)
SpecConditionHolds(cond, c) ==
    CASE cond.type = "annotation" ->
            IF cond.value = "" THEN c.ann[cond.key] # Absent
                               ELSE c.ann[cond.key] = cond.value
      [] cond.type = "featureGate" -> cond.value \in c.gates
      [] cond.type = "hardwareDetection" -> cond.detector \in c.hardware

\* Steps 1 and 2 of the patcher pipeline (spec.md 4.6) let the asset through.
ControllerApplies(a, c) ==
    /\ \A cond \in Conds[a] : SpecConditionHolds(cond, c)
    /\ Rendered[a] \in ResKeys
    /\ ~IsResourceExcluded(Rendered[a], ExclusionRules(c))

(* spec.md section 7: render produces the manifests that would be applied. *)
(* The assets the last full preview reports INCLUDED are those the         *)
(* controller's pipeline applies for the same HCO and hardware.            *)
RenderPreviewMatchesController ==
    last.list = AssetOrder =>
        {last.outputs[j].asset : j \in {j \in DOMAIN last.outputs :
                                         last.outputs[j].status = "INCLUDED"}}
          = {a \in Assets : ControllerApplies(a, last.ctx)}

=============================================================================
