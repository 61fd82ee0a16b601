---------------------------- MODULE PatcherProofs ----------------------------
(***************************************************************************)
(* Proofs about the patcher's gates, for every reconcile order, every set  *)
(* of annotation values and every edit bound.                              *)
(*                                                                         *)
(* UnmanagedOptOutTakesEffect is not inductive.  It needs that an apply    *)
(* pending on an object whose mode now reads unmanaged has not yet been   *)
(* counted: the edit that set the mode came after the fetch and restarted *)
(* the count.  WritesPassGates needs that an object in the apply phase    *)
(* was fetched with annotations that pass every gate.                     *)
(***************************************************************************)
EXTENDS Patcher, TLAPS

\* An apply is pending only on an object of the order fetched past every gate.
ApplyGated ==
    phase = "apply" =>
        /\ cur \in 1..Len(ObjOrder)
        /\ ~SkipObject(ObjOrder[cur], fetched)

\* A pending apply on an object now opted out is its first late write.
PendingNotCounted ==
    \A o \in Objects :
        phase = "apply" /\ ObjOrder[cur] = o /\ ann[o].mode = "unmanaged"
            => lateWrites[o] = 0

\* The inductive invariant: the properties with the two facts they rest on.
IInv ==
    /\ TypeOK
    /\ ApplyGated
    /\ PendingNotCounted
    /\ UnmanagedOptOutTakesEffect

USE PatcherAssumption

\* The object at a position of the order is a managed object.
LEMMA OrderedObject ==
    ASSUME NEW j \in 1..Len(ObjOrder)
    PROVE  ObjOrder[j] \in Objects
BY DEF Objects

\* The annotations a fetch reads, when nothing is set.
LEMMA UnsetAnnotations ==
    [patch |-> Absent, ignore |-> Absent, mode |-> Absent, paused |-> Absent] \in Annotations
BY DEF Annotations, FieldValues

\* The initial states, whatever annotations users left, satisfy IInv.
LEMMA InitIInv == Init => IInv
BY UnsetAnnotations
   DEF Init, IInv, TypeOK, ApplyGated, PendingNotCounted,
       UnmanagedOptOutTakesEffect

\* A reconcile request without the opt-in preserves IInv.
LEMMA ReconcileDisabledIInv == IInv /\ ReconcileDisabled => IInv'
BY DEF ReconcileDisabled, vars, IInv, TypeOK, ApplyGated, PendingNotCounted,
       UnmanagedOptOutTakesEffect

\* Starting a pass preserves IInv.
LEMMA ReconcileStartIInv == IInv /\ ReconcileStart => IInv'
BY DEF ReconcileStart, IInv, TypeOK, ApplyGated, PendingNotCounted,
       UnmanagedOptOutTakesEffect

\* A fetch that skips the object (unmanaged, invalid, paused) preserves IInv.
LEMMA FetchSkipIInv == IInv /\ FetchSkip => IInv'
<1> SUFFICES ASSUME IInv, FetchSkip PROVE IInv'
    OBVIOUS
<1>1. ann[ObjOrder[cur]] \in Annotations
    BY OrderedObject DEF IInv, TypeOK, FetchSkip
<1> QED
    BY <1>1 DEF FetchSkip, IInv, TypeOK, ApplyGated, PendingNotCounted,
       UnmanagedOptOutTakesEffect

\* A fetch that passes every gate preserves IInv: the apply it enables is gated.
LEMMA FetchForApplyIInv == IInv /\ FetchForApply => IInv'
<1> SUFFICES ASSUME IInv, FetchForApply PROVE IInv'
    OBVIOUS
<1>1. ann[ObjOrder[cur]] \in Annotations
    BY OrderedObject DEF IInv, TypeOK, FetchForApply
<1>2. ApplyGated'
    BY DEF FetchForApply, ApplyGated, IInv, TypeOK
<1>3. PendingNotCounted'
    BY DEF FetchForApply, PendingNotCounted, SkipObject, IsUnmanaged
<1> QED
    BY <1>1, <1>2, <1>3 DEF FetchForApply, IInv, TypeOK,
       UnmanagedOptOutTakesEffect

\* The apply preserves IInv: it writes only what the gates let through, and counts at most one late write.
LEMMA ApplyIInv == IInv /\ Apply => IInv'
<1> SUFFICES ASSUME IInv, Apply PROVE IInv'
    OBVIOUS
<1> DEFINE o == ObjOrder[cur]
<1>1. /\ cur \in 1..Len(ObjOrder)
      /\ ~SkipObject(o, fetched)
      /\ o \in Objects
    BY OrderedObject DEF Apply, IInv, ApplyGated
<1>2. TypeOK'
    BY <1>1 DEF Apply, IInv, TypeOK
<1>4. UnmanagedOptOutTakesEffect'
    <2>1. ann[o].mode = "unmanaged" => lateWrites[o] = 0
        BY <1>1 DEF Apply, IInv, PendingNotCounted
    <2> QED
        BY <1>1, <2>1 DEF Apply, IInv, TypeOK, UnmanagedOptOutTakesEffect
<1> QED
    BY <1>2, <1>4 DEF Apply, IInv, ApplyGated, PendingNotCounted

\* A failed apply preserves IInv.
LEMMA ApplyFailedIInv == IInv /\ ApplyFailed => IInv'
BY DEF ApplyFailed, IInv, TypeOK, ApplyGated, PendingNotCounted,
       UnmanagedOptOutTakesEffect

\* Finishing a pass preserves IInv.
LEMMA ReconcileFinishIInv == IInv /\ ReconcileFinish => IInv'
BY DEF ReconcileFinish, IInv, TypeOK, ApplyGated, PendingNotCounted,
       UnmanagedOptOutTakesEffect

\* A user's edit of the opt-in preserves IInv.
LEMMA EditAutopilotIInv == IInv /\ EditAutopilot => IInv'
BY DEF EditAutopilot, IInv, TypeOK, ApplyGated, PendingNotCounted,
       UnmanagedOptOutTakesEffect

\* A user's annotation edit preserves IInv; a change of mode restarts the count.
LEMMA EditAnnotationIInv == IInv /\ EditAnnotation => IInv'
<1> SUFFICES ASSUME IInv, EditAnnotation PROVE IInv'
    OBVIOUS
<1>1. PICK o \in Objects, f \in {"patch", "ignore", "mode", "paused"} :
          \E v \in FieldValues[f] \ {ann[o][f]} :
             /\ ann' = [ann EXCEPT ![o][f] = v]
             /\ lateWrites' = IF f = "mode" THEN [lateWrites EXCEPT ![o] = 0]
                                            ELSE lateWrites
    BY DEF EditAnnotation
<1>2. PICK v \in FieldValues[f] \ {ann[o][f]} :
             /\ ann' = [ann EXCEPT ![o][f] = v]
             /\ lateWrites' = IF f = "mode" THEN [lateWrites EXCEPT ![o] = 0]
                                            ELSE lateWrites
    BY <1>1
<1>3. ann' \in [Objects -> Annotations]
    <2>1. ann[o] \in Annotations
        BY DEF IInv, TypeOK
    <2>2. [ann[o] EXCEPT ![f] = v] \in Annotations
        <3>1. CASE f = "patch"
            BY <2>1, <3>1 DEF Annotations, FieldValues
        <3>2. CASE f = "ignore"
            BY <2>1, <3>2 DEF Annotations, FieldValues
        <3>3. CASE f = "mode"
            BY <2>1, <3>3 DEF Annotations, FieldValues
        <3>4. CASE f = "paused"
            BY <2>1, <3>4 DEF Annotations, FieldValues
        <3> QED
            BY <3>1, <3>2, <3>3, <3>4
    <2>3. ann' = [ann EXCEPT ![o] = [ann[o] EXCEPT ![f] = v]]
        BY <1>2 DEF IInv, TypeOK
    <2> QED
        BY <2>2, <2>3 DEF IInv, TypeOK
<1>4. lateWrites' \in [Objects -> Nat]
    BY <1>2 DEF IInv, TypeOK
<1>5. TypeOK'
    BY <1>3, <1>4 DEF EditAnnotation, IInv, TypeOK
<1>6. PendingNotCounted'
    <2> SUFFICES ASSUME NEW p \in Objects,
                        phase' = "apply", ObjOrder[cur'] = p, ann'[p].mode = "unmanaged"
                 PROVE  lateWrites'[p] = 0
        BY DEF PendingNotCounted
    <2>1. CASE f = "mode" /\ p = o
        BY <1>2, <2>1 DEF IInv, TypeOK
    <2>2. CASE ~(f = "mode" /\ p = o)
        <3>1. ann'[p].mode = ann[p].mode
            BY <1>2, <2>2 DEF IInv, TypeOK
        <3>2. lateWrites'[p] = lateWrites[p]
            BY <1>2, <2>2 DEF IInv, TypeOK
        <3> QED
            BY <3>1, <3>2 DEF EditAnnotation, IInv, PendingNotCounted
    <2> QED
        BY <2>1, <2>2
<1>7. UnmanagedOptOutTakesEffect'
    BY <1>2 DEF IInv, TypeOK, UnmanagedOptOutTakesEffect
<1> QED
    BY <1>5, <1>6, <1>7 DEF EditAnnotation, IInv, ApplyGated

\* Every step of the patcher pass or of a user preserves IInv.
LEMMA NextIInv == IInv /\ [Next]_vars => IInv'
<1> SUFFICES ASSUME IInv, [Next]_vars PROVE IInv'
    OBVIOUS
<1>1. CASE UNCHANGED vars
    BY <1>1 DEF vars, IInv, TypeOK, ApplyGated, PendingNotCounted,
       UnmanagedOptOutTakesEffect
<1> QED
    BY <1>1, ReconcileDisabledIInv, ReconcileStartIInv, FetchSkipIInv,
       FetchForApplyIInv, ApplyIInv, ApplyFailedIInv, ReconcileFinishIInv,
       EditAnnotationIInv, EditAutopilotIInv DEF Next

\* IInv holds in every reachable state.
LEMMA IInvInvariant == Spec => []IInv
BY InitIInv, NextIInv, PTL DEF Spec

(* Every state the patcher pass and the users reach is well typed.         *)
THEOREM TypeCorrect == Spec => []TypeOK
BY IInvInvariant, PTL DEF IInv

(* The IsUnmanaged gate bounds the writes after a user opts an object out  *)
(* to one: the apply of a fetch that preceded the opt-out.                 *)
THEOREM UnmanagedOptOutTakesEffectHolds == Spec => []UnmanagedOptOutTakesEffect
BY IInvInvariant, PTL DEF IInv


-----------------------------------------------------------------------------
(* WritesPassGates: the gates the fetch checked still describe the         *)
(* annotations the apply records, because ApplyGated says the pending      *)
(* apply's fetched annotations passed them and the apply writes those.     *)

\* The step formula of WritesPassGates.
GateStep ==
    \A w \in writes' \ writes :
        /\ w.ann.mode \in {Absent, ""}
        /\ w.ann.paused # "true"
        /\ w.ann.patch # Absent =>
              w.ann.patch # BadPatch /\ Kind[w.obj] \notin SensitiveKinds
        /\ w.ann.ignore # Absent => w.ann.ignore # BadPointers

\* Annotations that no gate skips satisfy the spec's rules.
LEMMA PassedGates ==
    ASSUME NEW o, NEW a, ~SkipObject(o, a)
    PROVE  /\ a.mode \in {Absent, ""}
           /\ a.paused # "true"
           /\ a.patch # Absent => a.patch # BadPatch /\ Kind[o] \notin SensitiveKinds
           /\ a.ignore # Absent => a.ignore # BadPointers
<1>1. ~IsUnmanaged(a) /\ ValidateAnnotations(o, a) /\ ~IsPaused(a)
  BY DEF SkipObject
<1>2. a.mode \in {Absent, ""}
  BY <1>1 DEF IsUnmanaged, ValidateAnnotations
<1>3. a.paused # "true"
  BY <1>1 DEF IsPaused
<1>4. QED
  BY <1>1, <1>2, <1>3 DEF ValidateAnnotations, ValidateJSONPatch,
                          ValidatePatchSecurity, ValidatePointers

\* Only an apply adds a write, and it writes what passed the gates.
LEMMA GateStepHolds == IInv /\ [Next]_vars => GateStep
<1> SUFFICES ASSUME IInv, [Next]_vars PROVE GateStep
  OBVIOUS
<1>1. CASE Apply
  <2>1. writes' \ writes \subseteq {[obj |-> ObjOrder[cur], ann |-> fetched]}
    BY <1>1 DEF Apply
  <2>2. ~SkipObject(ObjOrder[cur], fetched)
    BY <1>1 DEF Apply, IInv, ApplyGated
  <2>3. /\ fetched.mode \in {Absent, ""}
        /\ fetched.paused # "true"
        /\ fetched.patch # Absent =>
              fetched.patch # BadPatch /\ Kind[ObjOrder[cur]] \notin SensitiveKinds
        /\ fetched.ignore # Absent => fetched.ignore # BadPointers
    BY <2>2, PassedGates
  <2>4. ASSUME NEW w \in writes' \ writes
        PROVE  w.ann = fetched /\ w.obj = ObjOrder[cur]
    BY <2>1
  <2>5. QED
    BY <2>3, <2>4 DEF GateStep
<1>2. CASE \/ ReconcileDisabled \/ ReconcileStart \/ FetchSkip \/ FetchForApply
           \/ ApplyFailed \/ ReconcileFinish \/ EditAnnotation \/ EditAutopilot
           \/ UNCHANGED vars
  <2>1. writes' = writes
    BY <1>2 DEF ReconcileDisabled, ReconcileStart, FetchSkip, FetchForApply,
                ApplyFailed, ReconcileFinish, EditAnnotation, EditAutopilot, vars
  <2>2. QED
    BY <2>1 DEF GateStep
<1>3. QED
  BY <1>1, <1>2 DEF Next

(* WritesPassGates for every reconcile order and kind table: no Server-Side *)
(* Apply writes an object on annotations that opt it out, pause it, or     *)
(* carry an invalid or forbidden override, as the fetch before it read     *)
(* them, however users edit them while the pass runs.                      *)
THEOREM WritesPassGatesHolds == Spec => WritesPassGates
<1>1. Spec => [][GateStep]_vars
  BY IInvInvariant, GateStepHolds, PTL DEF Spec
<1>2. QED
  BY <1>1 DEF WritesPassGates, GateStep
====
