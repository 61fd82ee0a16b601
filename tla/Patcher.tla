------------------------------ MODULE Patcher ------------------------------
(***************************************************************************)
(* The gates of the patcher pipeline (spec.md 4.6, steps 2, 3 and 7, and   *)
(* the opt-in of 4.8) built from the override predicates of package        *)
(* overrides (pkg/engine/tombstone.go 216-372), against users who edit the *)
(* annotations of the live objects at any time.                            *)
(*                                                                         *)
(* For each managed object in reconcile order the engine fetches the live  *)
(* object, reads its annotations once, and either skips it (unmanaged,     *)
(* invalid overrides, paused) or applies the rendered object with          *)
(* Server-Side Apply.  Fetch and apply are separate API calls; the apply   *)
(* carries no precondition.  Rendering, patch application and the          *)
(* throttle are not modelled here: a write records what the engine read.   *)
(*                                                                         *)
(* An annotation value is a model value or a string; ValidateJSONPatch and *)
(* ValidatePointers are reduced to whether the text parses.                *)
(***************************************************************************)
EXTENDS Naturals, Sequences, FiniteSets

CONSTANTS
    ObjOrder,       \* the managed objects, in reconcile order
    Kind,           \* the kind of each object
    PatchValues,    \* texts the patch annotation may hold
    PointerValues,  \* texts the ignore-fields annotation may hold
    ModeValues,     \* texts the mode annotation may hold
    PausedValues,   \* texts the reconcile-paused annotation may hold
    AutopilotValues, \* texts the autopilot annotation of the HCO may hold
    BadPatch,       \* a patch text that is not an RFC 6902 array
    BadPointers,    \* an ignore-fields text that is not a list of RFC 6901 pointers
    Absent,         \* an annotation that is not set
    MaxEdits        \* bound: annotation edits by users

Objects == {ObjOrder[j] : j \in DOMAIN ObjOrder}

ASSUME PatcherAssumption ==
    /\ ObjOrder \in Seq(Objects)
    /\ Kind \in [Objects -> STRING]
    /\ MaxEdits \in Nat
    /\ Absent \notin {"unmanaged", "true"}   \* unset is none of the values compared with

\* sensitiveKinds: JSON patches are refused on these kinds.
SensitiveKinds ==
    {"MachineConfig", "KubeletConfig",
     "ClusterRole", "ClusterRoleBinding", "Role", "RoleBinding", "ServiceAccount",
     "PodSecurityPolicy", "SecurityContextConstraints",
     "ValidatingWebhookConfiguration", "MutatingWebhookConfiguration"}

\* The values each annotation the engine reads may hold, unset included.
FieldValues ==
    [patch  |-> PatchValues \cup {Absent},
     ignore |-> PointerValues \cup {Absent},
     mode   |-> ModeValues \cup {Absent},
     paused |-> PausedValues \cup {Absent}]

\* The annotations the engine reads on a live object.
Annotations ==
    [patch : FieldValues.patch, ignore : FieldValues.ignore,
     mode : FieldValues.mode, paused : FieldValues.paused]

VARIABLES
    ann,        \* the live annotations of each managed object
    autopilot,  \* the platform.kubevirt.io/autopilot annotation of the HCO
    phase,      \* "idle", "fetch" or "apply"
    cur,        \* index in ObjOrder of the object being reconciled
    fetched,    \* the annotations read by the fetch of the current object
    writes,     \* history: each apply, with the annotations it was decided on
    lateWrites, \* history: applies of each object since its mode became unmanaged
    edits       \* annotation edits by users so far

vars == <<ann, autopilot, phase, cur, fetched, writes, lateWrites, edits>>

-----------------------------------------------------------------------------
(* The override predicates.                                                *)

\* ValidateJSONPatch: the text parses as an RFC 6902 array.
ValidateJSONPatch(p) == p # BadPatch

\* ValidatePointers: the text parses as RFC 6901 pointers.
ValidatePointers(p) == p # BadPointers

\* ValidatePatchSecurity: no patch annotation on a sensitive kind.
ValidatePatchSecurity(o, a) == ~(Kind[o] \in SensitiveKinds /\ a.patch # Absent)

\* Mutant: the security check of the patch left out.
ValidateAnnotationsNoSecurity(o, a) ==
    /\ a.patch # Absent => ValidateJSONPatch(a.patch)
    /\ a.ignore # Absent => ValidatePointers(a.ignore)
    /\ a.mode # Absent => a.mode \in {"unmanaged", ""}

(* ValidateAnnotations: the patch parses and is allowed on the kind, the  *)
(* pointers parse, and mode is "unmanaged" or empty.                       *)
ValidateAnnotations(o, a) ==
    /\ a.patch # Absent => ValidateJSONPatch(a.patch) /\ ValidatePatchSecurity(o, a)
    /\ a.ignore # Absent => ValidatePointers(a.ignore)
    /\ a.mode # Absent => a.mode \in {"unmanaged", ""}

\* Mutant: the mode compared with the wrong case.
IsUnmanagedCaseSensitive(a) == a.mode # Absent /\ a.mode = "Unmanaged"

\* IsUnmanaged: mode is set to "unmanaged".
IsUnmanaged(a) == a.mode # Absent /\ a.mode = "unmanaged"

\* IsPaused: reconcile-paused is set to "true".
IsPaused(a) == a.paused # Absent /\ a.paused = "true"

\* IsAutopilotEnabled: the HCO opts in with autopilot="true".
IsAutopilotEnabled(v) == v = "true"

TypeOK ==
    /\ ann \in [Objects -> Annotations]
    /\ autopilot \in AutopilotValues \cup {Absent}
    /\ phase \in {"idle", "fetch", "apply"}
    /\ cur \in 1..Len(ObjOrder) + 1
    /\ fetched \in Annotations
    /\ writes \subseteq [obj : Objects, ann : Annotations]
    /\ lateWrites \in [Objects -> Nat]
    /\ edits \in 0..MaxEdits

(* Any annotations users may have set before the process starts.           *)
Init ==
    /\ ann \in [Objects -> Annotations]
    /\ autopilot \in AutopilotValues \cup {Absent}
    /\ phase = "idle"
    /\ cur = 1
    /\ fetched = [patch |-> Absent, ignore |-> Absent, mode |-> Absent, paused |-> Absent]
    /\ writes = {}
    /\ lateWrites = [o \in Objects |-> 0]
    /\ edits = 0

-----------------------------------------------------------------------------
(* The reconciler (spec.md 4.8) and the patcher's gates (spec.md 4.6).     *)

\* Steps 2, 3 and the paused check of step 6: the object is left alone.
SkipObject(o, a) ==
    \/ IsUnmanaged(a)
    \/ ~ValidateAnnotations(o, a)
    \/ IsPaused(a)

(* Reconciler step 2: without autopilot="true" on the HCO a reconcile      *)
(* request is a no-op.                                                     *)
ReconcileDisabled ==
    /\ phase = "idle"
    /\ ~IsAutopilotEnabled(autopilot)
    /\ UNCHANGED vars

\* Reconciler step 4: the assets are processed in reconcile order.
ReconcileStart ==
    /\ phase = "idle"
    /\ IsAutopilotEnabled(autopilot)
    /\ phase' = "fetch"
    /\ cur' = 1
    /\ UNCHANGED <<ann, autopilot, fetched, writes, lateWrites, edits>>

\* Mutant: a skipped object also skips the next one.
FetchSkipAdvancingTwo ==
    /\ phase = "fetch"
    /\ cur <= Len(ObjOrder)
    /\ SkipObject(ObjOrder[cur], ann[ObjOrder[cur]])
    /\ fetched' = ann[ObjOrder[cur]]
    /\ cur' = cur + 2
    /\ UNCHANGED <<ann, autopilot, phase, writes, lateWrites, edits>>

(* Patcher step 2: the live fetch; an unmanaged, invalid or paused object  *)
(* is skipped and the sequence goes on.                                    *)
FetchSkip ==
    /\ phase = "fetch"
    /\ cur <= Len(ObjOrder)
    /\ SkipObject(ObjOrder[cur], ann[ObjOrder[cur]])
    /\ fetched' = ann[ObjOrder[cur]]
    /\ cur' = cur + 1
    /\ UNCHANGED <<ann, autopilot, phase, writes, lateWrites, edits>>

\* Patcher steps 2-5: the fetched object passes every gate.
FetchForApply ==
    /\ phase = "fetch"
    /\ cur <= Len(ObjOrder)
    /\ ~SkipObject(ObjOrder[cur], ann[ObjOrder[cur]])
    /\ fetched' = ann[ObjOrder[cur]]
    /\ phase' = "apply"
    /\ UNCHANGED <<ann, autopilot, cur, writes, lateWrites, edits>>

(* Patcher step 7: Server-Side Apply with no precondition, decided on the  *)
(* annotations fetched before.  The annotations users set are kept.        *)
Apply ==
    LET o == ObjOrder[cur] IN
    /\ phase = "apply"
    /\ writes' = writes \cup {[obj |-> o, ann |-> fetched]}
    /\ lateWrites' = IF ann[o].mode = "unmanaged"
                     THEN [lateWrites EXCEPT ![o] = @ + 1]
                     ELSE lateWrites
    /\ phase' = "fetch"
    /\ cur' = cur + 1
    /\ UNCHANGED <<ann, autopilot, fetched, edits>>

\* Patcher step 7: the apply fails; the error is aggregated and the sequence goes on.
ApplyFailed ==
    /\ phase = "apply"
    /\ phase' = "fetch"
    /\ cur' = cur + 1
    /\ UNCHANGED <<ann, autopilot, fetched, writes, lateWrites, edits>>

\* Reconciler steps 5-6: the last asset is done; the request is requeued.
ReconcileFinish ==
    /\ phase = "fetch"
    /\ cur > Len(ObjOrder)
    /\ phase' = "idle"
    /\ UNCHANGED <<ann, autopilot, cur, fetched, writes, lateWrites, edits>>

(* A user changes one annotation of one managed object.  A change of mode  *)
(* starts a new opt-out period for the history.                            *)
EditAnnotation ==
    /\ edits < MaxEdits
    /\ \E o \in Objects, f \in {"patch", "ignore", "mode", "paused"} :
       \E v \in FieldValues[f] \ {ann[o][f]} :
          /\ ann' = [ann EXCEPT ![o][f] = v]
          /\ lateWrites' = IF f = "mode" THEN [lateWrites EXCEPT ![o] = 0]
                                         ELSE lateWrites
    /\ edits' = edits + 1
    /\ UNCHANGED <<autopilot, phase, cur, fetched, writes>>

\* A user changes the autopilot annotation of the HCO.
EditAutopilot ==
    /\ edits < MaxEdits
    /\ \E v \in (AutopilotValues \cup {Absent}) \ {autopilot} : autopilot' = v
    /\ edits' = edits + 1
    /\ UNCHANGED <<ann, phase, cur, fetched, writes, lateWrites>>

Next ==
    \/ ReconcileDisabled
    \/ ReconcileStart
    \/ FetchSkip
    \/ FetchForApply
    \/ Apply
    \/ ApplyFailed
    \/ ReconcileFinish
    \/ EditAnnotation
    \/ EditAutopilot

Spec == Init /\ [][Next]_vars

-----------------------------------------------------------------------------
(* Properties.                                                             *)

(* Unmanaged opt-out (spec.md 8, "mode=unmanaged at fetch time => no       *)
(* write"): once a user sets mode=unmanaged on an object and leaves it so, *)
(* the engine writes that object at most once more, the apply of a fetch   *)
(* that came before the edit.                                              *)
UnmanagedOptOutTakesEffect ==
    \A o \in Objects : lateWrites[o] <= 1


(* spec.md 4.1, 4.6 and 6: an apply writes an object only on annotations *)
(* that pass every gate as read by the fetch before it, however users    *)
(* edit them in between: mode is unset or empty (unmanaged opts out,     *)
(* anything else is invalid), reconcile-paused is not "true", a patch     *)
(* parses and is not on a sensitive kind, and the ignore-fields pointers  *)
(* parse.  Stated from the spec's rules, not the engine's predicates.     *)
WritesPassGates ==
    [][\A w \in writes' \ writes :
          /\ w.ann.mode \in {Absent, ""}
          /\ w.ann.paused # "true"
          /\ w.ann.patch # Absent =>
                w.ann.patch # BadPatch /\ Kind[w.obj] \notin SensitiveKinds
          /\ w.ann.ignore # Absent => w.ann.ignore # BadPointers]_vars
=============================================================================
