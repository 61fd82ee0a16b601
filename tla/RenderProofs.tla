----------------------------- MODULE RenderProofs -----------------------------
(***************************************************************************)
(* Proofs about Render, for every catalog, condition table and set of      *)
(* annotation values that satisfy RenderAssumption.                        *)
(*                                                                         *)
(* ExclusionsMatchRender is not inductive: it speaks of the last completed *)
(* call, which the loop builds one asset at a time.  The strengthening     *)
(* says that during a call with showExcluded the non-INCLUDED outputs are  *)
(* exactly the assets of the list's visited prefix whose per-asset status  *)
(* (handleRenderAsset's) is not INCLUDED, for the snapshot the call took,  *)
(* and that the rules the loop uses are the ones of that snapshot.         *)
(***************************************************************************)
EXTENDS Render, SequenceTheorems, FiniteSetTheorems, TLAPS

\* The assets a list of outputs reports as anything but INCLUDED.
NonIncluded(outs) ==
    {outs[j].asset : j \in {j \in DOMAIN outs : outs[j].status # "INCLUDED"}}

\* The assets among the first n-1 of l that handleRenderAsset does not report INCLUDED.
ExcludedPrefix(l, n, c) ==
    {l[j] : j \in {j \in 1..n - 1 : RenderAssetStatus(l[j], c) # "INCLUDED"}}

\* The lists the callers pass: every asset, one asset, or none before the first call.
CallerList(l) == l = <<>> \/ l = AssetOrder \/ \E a \in Assets : l = <<a>>

\* Inside a call the loop works from the snapshot and tracks the prefix.
LoopTracks ==
    phase = "loop" =>
        /\ rules = ExclusionRules(ctx)
        /\ show => NonIncluded(outputs) = ExcludedPrefix(list, i, ctx)

\* The last completed call reported its whole list.
LastTracks ==
    last.show => NonIncluded(last.outputs) = ExcludedPrefix(last.list, Len(last.list) + 1, last.ctx)

\* Inside a call the outputs are those of the visited prefix's shown positions, in order.
LoopFollows ==
    phase = "loop" => OutputsFollow(outputs, list, ShownPositions(list, i - 1, show, ctx), ctx)

IInv ==
    /\ TypeOK
    /\ CallerList(list) /\ CallerList(last.list)
    /\ i \in 1..Len(list) + 1
    /\ LoopTracks
    /\ LastTracks
    /\ LoopFollows
    /\ BuildOutputsMatchesRenderAsset
-----------------------------------------------------------------------------
(* Lemmas about the helpers.                                               *)

\* The facts about the constants the proofs use most.
LEMMA ConstantFacts ==
    /\ AssetOrder \in Seq(Assets)
    /\ Len(AssetOrder) \in Nat
    /\ MaxEdits \in Nat
<1>1. AssetOrder \in Seq(Assets) /\ MaxEdits \in Nat
  BY RenderAssumption
<1>2. QED
  BY <1>1, LenProperties

\* The rules parsed from a cluster's annotation are Kind/Name keys.
LEMMA ExclusionRulesType ==
    ASSUME NEW c \in Cluster
    PROVE  ExclusionRules(c) \subseteq ResKeys
<1>1. CASE c.drAnn \in {Absent, Malformed}
  BY <1>1 DEF ExclusionRules
<1>2. CASE c.drAnn \notin {Absent, Malformed}
  <2>1. c.drAnn \in Seq(ResKeys \cup {Blank})
    BY <1>2, RenderAssumption DEF Cluster
  <2>2. QED
    BY <1>2, <2>1 DEF ExclusionRules, ParseDisabledResources
<1>3. QED
  BY <1>1, <1>2

(* /debug/exclusions lists exactly the assets handleRenderAsset does not   *)
(* report INCLUDED: the two handlers test the same three causes.           *)
LEMMA ExclusionsAreNonIncluded ==
    ASSUME NEW c
    PROVE  Exclusions(c) = {a \in Assets : RenderAssetStatus(a, c) # "INCLUDED"}
BY DEF Exclusions, RenderAssetStatus

\* Appending an output adds its asset to NonIncluded exactly when it is not INCLUDED.
LEMMA NonIncludedAppend ==
    ASSUME NEW s \in Seq(Output), NEW o \in Output
    PROVE  NonIncluded(Append(s, o)) =
               NonIncluded(s) \cup (IF o.status # "INCLUDED" THEN {o.asset} ELSE {})
<1>1. /\ DOMAIN Append(s, o) = 1..Len(s) + 1
      /\ Append(s, o)[Len(s) + 1] = o
      /\ \A j \in 1..Len(s) : Append(s, o)[j] = s[j]
      /\ DOMAIN s = 1..Len(s)
  OBVIOUS
<1>2. QED
  BY <1>1 DEF NonIncluded

\* One more visited asset adds it to ExcludedPrefix exactly when it is not INCLUDED.
LEMMA ExcludedPrefixStep ==
    ASSUME NEW l \in Seq(Assets), NEW n \in 1..Len(l), NEW c
    PROVE  ExcludedPrefix(l, n + 1, c) =
               ExcludedPrefix(l, n, c) \cup
               (IF RenderAssetStatus(l[n], c) # "INCLUDED" THEN {l[n]} ELSE {})
<1>1. 1..(n + 1) - 1 = (1..n - 1) \cup {n}
  OBVIOUS
<1>2. QED
  BY <1>1 DEF ExcludedPrefix

\* The shown positions of a prefix are a finite set of positions of it.
LEMMA ShownPositionsFinite ==
    ASSUME NEW l, NEW n \in Nat, NEW b, NEW c
    PROVE  /\ ShownPositions(l, n, b, c) \subseteq 1..n
           /\ IsFiniteSet(ShownPositions(l, n, b, c))
<1>1. ShownPositions(l, n, b, c) \subseteq 1..n
  BY DEF ShownPositions
<1>2. IsFiniteSet(1..n)
  BY FS_Interval
<1>3. QED
  BY <1>1, <1>2, FS_Subset

\* One more position: it is shown exactly when showExcluded or its status is shown.
LEMMA ShownPositionsStep ==
    ASSUME NEW l, NEW n \in Nat \ {0}, NEW b, NEW c
    PROVE  ShownPositions(l, n, b, c) =
               ShownPositions(l, n - 1, b, c) \cup
               (IF b \/ RenderAssetStatus(l[n], c) \in {"INCLUDED", "ERROR"}
                THEN {n} ELSE {})
<1>1. 1..n = (1..n - 1) \cup {n}
  OBVIOUS
<1>2. QED
  BY <1>1 DEF ShownPositions

\* The rank of a member of S is a place among 1..Cardinality(S).
LEMMA RankInRange ==
    ASSUME NEW S \in SUBSET Nat, IsFiniteSet(S), NEW k \in S
    PROVE  RankIn(S, k) \in 1..Cardinality(S)
<1> DEFINE B == {m \in S : m <= k}
<1>1. IsFiniteSet(B) /\ Cardinality(B) <= Cardinality(S)
  BY FS_Subset
<1>2. Cardinality(B) \in Nat /\ Cardinality(S) \in Nat
  BY <1>1, FS_CardinalityType
<1>3. Cardinality(B) # 0
  <2>1. k \in B
    OBVIOUS
  <2>2. QED
    BY <1>1, <2>1, FS_EmptySet
<1>4. QED
  BY <1>1, <1>2, <1>3 DEF RankIn

(* A position n after every member of S: adding it keeps the ranks of the  *)
(* members and gives n the next place.                                     *)
LEMMA RankInAdd ==
    ASSUME NEW S \in SUBSET Nat, IsFiniteSet(S), NEW n \in Nat, \A m \in S : m < n
    PROVE  /\ IsFiniteSet(S \cup {n})
           /\ Cardinality(S \cup {n}) = Cardinality(S) + 1
           /\ RankIn(S \cup {n}, n) = Cardinality(S) + 1
           /\ \A k \in S : RankIn(S \cup {n}, k) = RankIn(S, k)
<1>1. n \notin S
  OBVIOUS
<1>2. IsFiniteSet(S \cup {n}) /\ Cardinality(S \cup {n}) = Cardinality(S) + 1
  BY <1>1, FS_AddElement
<1>3. {m \in S \cup {n} : m <= n} = S \cup {n}
  <2>1. \A m \in S \cup {n} : m <= n
    BY SMT
  <2>2. QED
    BY <2>1
<1>4. ASSUME NEW k \in S PROVE {m \in S \cup {n} : m <= k} = {m \in S : m <= k}
  OBVIOUS
<1>5. QED
  BY <1>2, <1>3, <1>4 DEF RankIn

-----------------------------------------------------------------------------
(* The inductive invariant.                                                *)

\* Before any call: no list, nothing reported.
LEMMA InitIInv == Init => IInv
<1> SUFFICES ASSUME Init PROVE IInv
  OBVIOUS
<1>1. TypeOK
  <2>2. /\ hco \in Cluster /\ ctx \in Cluster /\ rules \in SUBSET ResKeys
        /\ list \in Seq(Assets) /\ outputs \in Seq(Output)
        /\ last \in [ctx : Cluster, show : BOOLEAN, list : Seq(Assets), outputs : Seq(Output)]
    BY DEF Init
  <2>3. phase \in {"idle", "loop"} /\ show \in BOOLEAN
    BY DEF Init
  <2>4. i \in 1..Len(AssetOrder) + 1 /\ edits \in 0..MaxEdits
    BY ConstantFacts DEF Init
  <2>5. QED
    BY <2>2, <2>3, <2>4 DEF TypeOK
<1>2. CallerList(list) /\ CallerList(last.list) /\ i \in 1..Len(list) + 1
  BY DEF Init, CallerList
<1>3. LoopTracks /\ LastTracks
  BY DEF Init, LoopTracks, LastTracks
<1>4. LoopFollows /\ BuildOutputsMatchesRenderAsset
  <2>1. ShownPositions(<<>>, 0, FALSE, hco) = {}
    BY DEF ShownPositions
  <2>2. Cardinality({}) = 0
    BY FS_EmptySet
  <2>3. QED
    BY <2>1, <2>2 DEF Init, LoopFollows, BuildOutputsMatchesRenderAsset, OutputsFollow
<1>5. QED
  BY <1>1, <1>2, <1>3, <1>4 DEF IInv

\* A list a caller passes is a list of assets no longer than the catalog.
LEMMA CallerListType ==
    ASSUME NEW l, CallerList(l)
    PROVE  l \in Seq(Assets) /\ Len(l) \in 0..Len(AssetOrder)
<1>1. CASE l = <<>>
  BY <1>1, ConstantFacts
<1>2. CASE l = AssetOrder
  BY <1>2, ConstantFacts
<1>3. CASE \E a \in Assets : l = <<a>>
  <2>1. PICK a \in Assets : l = <<a>>
    BY <1>3
  <2>2. Len(AssetOrder) >= 1
    <3>1. DOMAIN AssetOrder # {}
      BY <2>1 DEF Assets
    <3>2. QED
      BY <3>1, ConstantFacts
  <2>3. QED
    BY <2>1, <2>2, ConstantFacts
<1>4. QED
  BY <1>1, <1>2, <1>3 DEF CallerList

\* A call begins: the loop starts on the snapshot with nothing reported.
LEMMA BuildOutputsIInv ==
    ASSUME IInv, NEW l, CallerList(l), NEW b \in BOOLEAN, BuildOutputs(l, b)
    PROVE  IInv'
<1>1. l \in Seq(Assets) /\ Len(l) \in 0..Len(AssetOrder)
  BY CallerListType
<1>2. ExclusionRules(hco) \subseteq ResKeys
  BY ExclusionRulesType DEF IInv, TypeOK
<1>3. TypeOK'
  BY <1>1, <1>2, ConstantFacts DEF IInv, TypeOK, BuildOutputs
<1>4. CallerList(list') /\ CallerList(last'.list) /\ i' \in 1..Len(list') + 1
  BY <1>1 DEF IInv, BuildOutputs
<1>5. LoopTracks'
  <2>1. NonIncluded(<<>>) = {} /\ ExcludedPrefix(l, 1, hco) = {}
    BY DEF NonIncluded, ExcludedPrefix
  <2>2. QED
    BY <2>1 DEF LoopTracks, BuildOutputs
<1>6. LastTracks'
  BY DEF IInv, LastTracks, BuildOutputs
<1>7. LoopFollows'
  <2>1. ShownPositions(l, 0, b, hco) = {}
    BY DEF ShownPositions
  <2>2. Cardinality({}) = 0
    BY FS_EmptySet
  <2>3. outputs' = <<>> /\ list' = l /\ show' = b /\ ctx' = hco /\ i' - 1 = 0
    BY DEF BuildOutputs
  <2>4. QED
    BY <2>1, <2>2, <2>3 DEF LoopFollows, OutputsFollow
<1>8. BuildOutputsMatchesRenderAsset'
  BY DEF IInv, BuildOutputs, BuildOutputsMatchesRenderAsset
<1>9. QED
  BY <1>3, <1>4, <1>5, <1>6, <1>7, <1>8 DEF IInv

(* The loop gives the asset at i its status st and shows it exactly when   *)
(* showExcluded is set or st is INCLUDED or ERROR: the outputs then follow *)
(* the shown positions of one more asset of the list.                      *)
LEMMA EmitFollows ==
    ASSUME IInv, phase = "loop", i <= Len(list),
           NEW st, st = RenderAssetStatus(list[i], ctx),
           NEW alw \in BOOLEAN, alw = (st \in {"INCLUDED", "ERROR"}), Emit(st, alw)
    PROVE  LoopFollows'
<1>1. list \in Seq(Assets) /\ i \in 1..Len(list) /\ outputs \in Seq(Output)
  <2>1. list \in Seq(Assets) /\ Len(list) \in 0..Len(AssetOrder) /\ i \in 1..Len(list)
    BY CallerListType DEF IInv
  <2>2. QED
    BY <2>1 DEF IInv, TypeOK
<1> DEFINE S == ShownPositions(list, i - 1, show, ctx)
           o == [asset |-> list[i], status |-> st]
<1> USE DEF S, o
<1>2. /\ S \subseteq 1..i - 1
      /\ IsFiniteSet(S)
      /\ OutputsFollow(outputs, list, S, ctx)
  <2>1. i - 1 \in Nat
    BY <1>1
  <2>2. S \subseteq 1..i - 1 /\ IsFiniteSet(S)
    BY <2>1, ShownPositionsFinite
  <2>3. OutputsFollow(outputs, list, S, ctx)
    BY DEF IInv, LoopFollows
  <2>4. QED
    BY <2>2, <2>3
<1>3. UNCHANGED <<list, show, ctx>> /\ i' - 1 = i /\ phase' = "loop"
  BY <1>1 DEF Emit
<1>4. ShownPositions(list, i, show, ctx) =
        S \cup (IF show \/ st \in {"INCLUDED", "ERROR"} THEN {i} ELSE {})
  BY <1>1, ShownPositionsStep
<1>5. CASE alw \/ show
  <2>1. outputs' = Append(outputs, o)
    BY <1>5 DEF Emit
  <2>2. ShownPositions(list, i, show, ctx) = S \cup {i}
    BY <1>4, <1>5
  <2>3. /\ IsFiniteSet(S \cup {i})
        /\ Cardinality(S \cup {i}) = Cardinality(S) + 1
        /\ RankIn(S \cup {i}, i) = Cardinality(S) + 1
        /\ \A k \in S : RankIn(S \cup {i}, k) = RankIn(S, k)
    <3>1. S \in SUBSET Nat /\ i \in Nat /\ \A m \in S : m < i
      BY <1>1, <1>2
    <3>2. QED
      BY <1>2, <3>1, RankInAdd
  <2>4. Len(outputs) = Cardinality(S)
    BY <1>2 DEF OutputsFollow
  <2>5. Len(outputs') = Cardinality(S \cup {i})
    <3>1. Len(outputs') = Len(outputs) + 1
      BY <1>1, <2>1
    <3>2. QED
      BY <3>1, <2>3, <2>4
  <2>6. outputs'[RankIn(S \cup {i}, i)] = o
    BY <1>1, <2>1, <2>3, <2>4
  <2>7. ASSUME NEW k \in S
        PROVE  outputs'[RankIn(S \cup {i}, k)] =
                   [asset |-> list[k], status |-> RenderAssetStatus(list[k], ctx)]
    <3>1. RankIn(S, k) \in 1..Len(outputs)
      BY <1>1, <1>2, <2>4, RankInRange
    <3>2. outputs'[RankIn(S, k)] = outputs[RankIn(S, k)]
      BY <1>1, <2>1, <3>1
    <3>3. QED
      BY <1>2, <2>3, <3>2 DEF OutputsFollow
  <2>8. OutputsFollow(outputs', list, S \cup {i}, ctx)
    BY <2>5, <2>6, <2>7 DEF OutputsFollow
  <2>9. QED
    BY <1>3, <2>2, <2>8 DEF LoopFollows
<1>6. CASE ~(alw \/ show)
  <2>1. outputs' = outputs
    BY <1>6 DEF Emit
  <2>2. ShownPositions(list, i, show, ctx) = S
    BY <1>4, <1>6
  <2>3. QED
    BY <1>2, <1>3, <2>1, <2>2 DEF LoopFollows
<1>7. QED
  BY <1>5, <1>6

(* The loop classifies the asset at i with the status st that              *)
(* handleRenderAsset gives it: the invariant is kept, whether the output   *)
(* is shown or hidden.                                                     *)
LEMMA EmitIInv ==
    ASSUME IInv, phase = "loop", i <= Len(list),
           NEW st, st = RenderAssetStatus(list[i], ctx),
           NEW alw \in BOOLEAN, alw = (st \in {"INCLUDED", "ERROR"}), Emit(st, alw)
    PROVE  IInv'
<1>1. list \in Seq(Assets) /\ Len(list) \in 0..Len(AssetOrder) /\ i \in 1..Len(list)
  BY CallerListType DEF IInv
<1>2. list[i] \in Assets /\ st \in Statuses
  BY <1>1 DEF RenderAssetStatus, Statuses
<1> DEFINE o == [asset |-> list[i], status |-> st]
<1>3. o \in Output
  BY <1>2 DEF Output
<1>4. outputs' = IF alw \/ show THEN Append(outputs, o) ELSE outputs
  BY DEF Emit
<1>5. TypeOK'
  BY <1>1, <1>3, <1>4, ConstantFacts DEF IInv, TypeOK, Emit
<1>6. CallerList(list') /\ CallerList(last'.list) /\ i' \in 1..Len(list') + 1
  BY <1>1 DEF IInv, Emit
<1>7. LoopTracks'
  <2>1. rules' = ExclusionRules(ctx')
    BY DEF IInv, LoopTracks, Emit
  <2>2. ASSUME show' PROVE NonIncluded(outputs') = ExcludedPrefix(list', i', ctx')
    <3>1. show /\ outputs' = Append(outputs, o)
      BY <2>2, <1>4 DEF Emit
    <3>2. NonIncluded(outputs) = ExcludedPrefix(list, i, ctx)
      BY <3>1 DEF IInv, LoopTracks
    <3>3. NonIncluded(Append(outputs, o)) =
            NonIncluded(outputs) \cup (IF st # "INCLUDED" THEN {list[i]} ELSE {})
      BY <1>3, NonIncludedAppend DEF IInv, TypeOK
    <3>4. ExcludedPrefix(list, i + 1, ctx) =
            ExcludedPrefix(list, i, ctx) \cup (IF st # "INCLUDED" THEN {list[i]} ELSE {})
      BY <1>1, ExcludedPrefixStep
    <3>5. QED
      BY <3>1, <3>2, <3>3, <3>4 DEF Emit
  <2>3. QED
    BY <2>1, <2>2 DEF LoopTracks, Emit
<1>8. LastTracks' /\ BuildOutputsMatchesRenderAsset'
  BY DEF IInv, LastTracks, BuildOutputsMatchesRenderAsset, Emit
<1>9. LoopFollows'
  BY EmitFollows
<1>10. QED
  BY <1>5, <1>6, <1>7, <1>8, <1>9 DEF IInv

(* Each branch of the loop gives the asset the status handleRenderAsset    *)
(* computes, because the rules it tests are those of the snapshot and a    *)
(* rendered Kind/Name is neither "error" nor "empty".                      *)
LEMMA LoopStepIInv ==
    ASSUME IInv,
           ConditionsNotMet \/ RenderFailed \/ RenderedEmpty \/ RootExcluded \/ Included
    PROVE  IInv'
<1> USE DEF IInv
<1>1. rules = ExclusionRules(ctx) \/ phase # "loop"
  BY DEF LoopTracks
<1>2. {"error", "empty"} \cap ResKeys = {}
  BY RenderAssumption
\* The outputs that are hidden without showExcluded.
<1>9. /\ FALSE = ("EXCLUDED" \in {"INCLUDED", "ERROR"})
      /\ FALSE = ("FILTERED" \in {"INCLUDED", "ERROR"})
      /\ TRUE = ("INCLUDED" \in {"INCLUDED", "ERROR"})
      /\ TRUE = ("ERROR" \in {"INCLUDED", "ERROR"})
  OBVIOUS
<1>3. CASE ConditionsNotMet
  <2>1. "EXCLUDED" = RenderAssetStatus(list[i], ctx)
    BY <1>3 DEF ConditionsNotMet, RenderAssetStatus
  <2>2. QED
    BY <1>3, <2>1, <1>9, EmitIInv DEF ConditionsNotMet
<1>4. CASE RenderFailed
  <2>1. "ERROR" = RenderAssetStatus(list[i], ctx)
    BY <1>4 DEF RenderFailed, RenderAssetStatus
  <2>2. QED
    BY <1>4, <2>1, <1>9, EmitIInv DEF RenderFailed
<1>5. CASE RenderedEmpty
  <2>1. "EXCLUDED" = RenderAssetStatus(list[i], ctx)
    BY <1>5 DEF RenderedEmpty, RenderAssetStatus
  <2>2. QED
    BY <1>5, <2>1, <1>9, EmitIInv DEF RenderedEmpty
<1>6. CASE RootExcluded
  <2>1. "FILTERED" = RenderAssetStatus(list[i], ctx)
    BY <1>1, <1>2, <1>6 DEF RootExcluded, RenderAssetStatus
  <2>2. QED
    BY <1>6, <2>1, <1>9, EmitIInv DEF RootExcluded
<1>7. CASE Included
  <2>1. "INCLUDED" = RenderAssetStatus(list[i], ctx)
    BY <1>1, <1>2, <1>7 DEF Included, RenderAssetStatus
  <2>2. QED
    BY <1>7, <2>1, <1>9, EmitIInv DEF Included
<1>8. QED
  BY <1>3, <1>4, <1>5, <1>6, <1>7

\* The loop is over: the call's outputs cover its whole list.
LEMMA ReturnIInv ==
    ASSUME IInv, BuildOutputsReturn
    PROVE  IInv'
<1>1. last' \in [ctx : Cluster, show : BOOLEAN, list : Seq(Assets), outputs : Seq(Output)]
  BY DEF IInv, TypeOK, BuildOutputsReturn
<1>2. TypeOK'
  BY <1>1 DEF IInv, TypeOK, BuildOutputsReturn
<1>3. LastTracks'
  BY DEF IInv, LoopTracks, LastTracks, BuildOutputsReturn
<1>4. LoopFollows' /\ BuildOutputsMatchesRenderAsset'
  <2>1. list \in Seq(Assets) /\ i - 1 = Len(list)
    BY CallerListType DEF IInv, BuildOutputsReturn
  <2>2. OutputsFollow(outputs, list, ShownPositions(list, Len(list), show, ctx), ctx)
    BY <2>1 DEF IInv, LoopFollows, BuildOutputsReturn
  <2>3. QED
    BY <2>2 DEF LoopFollows, BuildOutputsMatchesRenderAsset, BuildOutputsReturn
<1>5. QED
  BY <1>2, <1>3, <1>4 DEF IInv, LoopTracks, BuildOutputsReturn

\* A user's edit of the HCO touches nothing a call has read.
LEMMA EditHCOIInv ==
    ASSUME IInv, EditHCO
    PROVE  IInv'
<1>1. hco' \in Cluster
  <2>1. hco \in Cluster
    BY DEF IInv, TypeOK
  <2>2. CASE \E k \in CondKeys, v \in AnnValues \cup {Absent} : hco' = [hco EXCEPT !.ann[k] = v]
    BY <2>1, <2>2 DEF Cluster
  <2>3. CASE \E v \in FGAnnValues \cup {Absent} : hco' = [hco EXCEPT !.fgAnn = v]
    BY <2>1, <2>3 DEF Cluster
  <2>4. CASE \E v \in DRValues \cup {Absent} : hco' = [hco EXCEPT !.drAnn = v]
    BY <2>1, <2>4 DEF Cluster
  <2>5. CASE \E g \in SUBSET Gates : hco' = [hco EXCEPT !.gates = g]
    BY <2>1, <2>5 DEF Cluster
  <2>6. CASE \E h \in SUBSET Detectors : hco' = [hco EXCEPT !.hardware = h]
    BY <2>1, <2>6 DEF Cluster
  <2>7. QED
    BY <2>2, <2>3, <2>4, <2>5, <2>6 DEF EditHCO
<1>2. edits' \in 0..MaxEdits
  BY ConstantFacts DEF IInv, TypeOK, EditHCO
<1>3. QED
  BY <1>1, <1>2 DEF IInv, TypeOK, LoopTracks, LastTracks, LoopFollows, BuildOutputsMatchesRenderAsset, EditHCO

LEMMA NextIInv == IInv /\ [Next]_vars => IInv'
<1> SUFFICES ASSUME IInv, [Next]_vars PROVE IInv'
  OBVIOUS
<1>1. CASE RunRender
  <2>1. PICK b \in BOOLEAN : \/ BuildOutputs(AssetOrder, b)
                             \/ \E a \in Assets : BuildOutputs(<<a>>, b)
    BY <1>1 DEF RunRender
  <2>2. CASE BuildOutputs(AssetOrder, b)
    BY <2>2, BuildOutputsIInv DEF CallerList
  <2>3. CASE \E a \in Assets : BuildOutputs(<<a>>, b)
    <3>1. PICK a \in Assets : BuildOutputs(<<a>>, b)
      BY <2>3
    <3>2. CallerList(<<a>>)
      BY DEF CallerList
    <3>3. QED
      BY <3>1, <3>2, BuildOutputsIInv
  <2>4. QED
    BY <2>1, <2>2, <2>3
<1>2. CASE HandleRender
  BY <1>2, BuildOutputsIInv DEF HandleRender, CallerList
<1>3. CASE ConditionsNotMet \/ RenderFailed \/ RenderedEmpty \/ RootExcluded \/ Included
  BY <1>3, LoopStepIInv
<1>4. CASE BuildOutputsReturn
  BY <1>4, ReturnIInv
<1>5. CASE EditHCO
  BY <1>5, EditHCOIInv
<1>6. CASE UNCHANGED vars
  BY <1>6 DEF IInv, TypeOK, CallerList, LoopTracks, LastTracks, LoopFollows,
              BuildOutputsMatchesRenderAsset, vars
<1>7. QED
  BY <1>1, <1>2, <1>3, <1>4, <1>5, <1>6 DEF Next

\* The whole catalog, visited: the excluded prefix is every non-INCLUDED asset.
LEMMA WholeCatalog ==
    ASSUME NEW c
    PROVE  ExcludedPrefix(AssetOrder, Len(AssetOrder) + 1, c) =
               {a \in Assets : RenderAssetStatus(a, c) # "INCLUDED"}
<1>1. DOMAIN AssetOrder = 1..(Len(AssetOrder) + 1) - 1
  BY ConstantFacts
<1>2. QED
  BY <1>1 DEF ExcludedPrefix, Assets

LEMMA IInvInvariant == Spec => []IInv
BY InitIInv, NextIInv, PTL DEF Spec

-----------------------------------------------------------------------------
(* Theorems.                                                               *)

(* Type correctness of the render preview and its callers: every call     *)
(* builds outputs of known assets and statuses from a snapshot of the HCO. *)
THEOREM TypeCorrect == Spec => []TypeOK
<1>1. IInv => TypeOK
  BY DEF IInv
<1>2. QED
  BY <1>1, IInvInvariant, PTL

(* ExclusionsMatchRender for every catalog: /debug/exclusions (handler     *)
(* handleExclusions) lists exactly the assets the last full BuildOutputs   *)
(* with show-excluded reported as anything but INCLUDED, however users     *)
(* edit the HCO while the loop runs.                                       *)
THEOREM ExclusionsMatchRenderHolds == Spec => []ExclusionsMatchRender
<1>1. IInv => ExclusionsMatchRender
  <2> SUFFICES ASSUME IInv, last.list = AssetOrder, last.show
               PROVE  Exclusions(last.ctx) = NonIncluded(last.outputs)
    BY DEF ExclusionsMatchRender, NonIncluded
  <2>1. NonIncluded(last.outputs) = ExcludedPrefix(AssetOrder, Len(AssetOrder) + 1, last.ctx)
    BY DEF IInv, LastTracks
  <2>2. QED
    BY <2>1, WholeCatalog, ExclusionsAreNonIncluded
<1>2. QED
  BY <1>1, IInvInvariant, PTL

(* BuildOutputsMatchesRenderAsset for every catalog and every list a caller passes: the *)
(* last BuildOutputs call returned, in reconcile order, exactly one output *)
(* per shown asset of its list (all of them with showExcluded, else the    *)
(* INCLUDED and ERROR ones), each with the status handleRenderAsset        *)
(* reports for the snapshot the call took, however users edit the HCO     *)
(* while the loop runs.                                                    *)
THEOREM BuildOutputsMatchesRenderAssetHolds == Spec => []BuildOutputsMatchesRenderAsset
<1>1. IInv => BuildOutputsMatchesRenderAsset
  BY DEF IInv
<1>2. QED
  BY <1>1, IInvInvariant, PTL
=============================================================================
