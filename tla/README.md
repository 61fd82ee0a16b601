# TLA+ models of virt-platform-autopilot

This directory holds TLA+ models of the parts of virt-platform-autopilot whose
source is in this repository. It has TLC configurations that model-check them
on small instances, and TLAPS proofs, for every value of the constants, of the
main invariants of the tombstone reconciler, the patcher's gates, the render
preview, the render CLI's status table and the process lifecycle. They also
prove action properties of the tombstone reconciler and the patcher. And they
prove that the tombstone reconciler, the status table and the process
lifecycle implement abstract specifications of what they promise.

## The system

virt-platform-autopilot is a Kubernetes controller. It keeps a set of
"opinionated" objects in line with the HyperConverged CR (the HCO), which is
both a managed object and the source of user intent. spec.md names ten
components (C1-C10). The parts this repository's `src/` holds, and how they
interact, are these:

* **Tombstone reconciler** (C7, `pkg/engine/tombstone.go` 56-199). It runs at
  the end of every reconciliation. For each embedded tombstone, in order, it
  does three things:
  1. it Gets the live object;
  2. it checks the label `platform.kubevirt.io/managed-by=virt-platform-autopilot`;
  3. it Deletes the object.

  Each outcome sets the gauge `virt_platform_tombstone_status` (Deleted 0,
  Error -1, Skipped -2). Errors are aggregated and the batch goes on. The
  count and an aggregated error are returned to the reconciler, which
  requeues. Users and other controllers write the same objects at any time.
  The runbook `VirtPlatformTombstoneStuck` tells them to add or remove the
  label, or to delete the object.
* **Override predicates** (C1, the package `overrides` in the same file,
  216-372). ValidateAnnotations, ValidatePatchSecurity, IsUnmanaged, IsPaused
  and IsAutopilotEnabled are used by the patcher, which is not under `src/`.
* **Render preview** (`pkg/render/output.go`). BuildOutputs classifies every
  asset against one render context as EXCLUDED, ERROR, FILTERED or INCLUDED.
  CheckConditions evaluates asset conditions. The disabled-resources
  annotation is parsed once, and a malformed value is ignored (fail-open).
  Parsing and matching use `pkg/engine/exclusion.go`. Two callers use it:
  * the render CLI, `cmd/render/render.go`;
  * the debug HTTP server (`src/unnamed/part_003`, package `debug`). It
    repeats the classification for one asset (`/debug/render/{asset}`) and
    for the excluded assets (`/debug/exclusions`).
* **Process wiring** (`main.go`, reproduced in `test/SETUP_COMPLETE.md`
  220-509). It covers the label-filtered cache with exemptions for the HCO
  and CRDs (unstructured objects, which the tombstone reconciler reads, are
  not cached and go to the API server), the HCO CRD validation with a
  timeout, the cancellable context the reconciler uses to shut the process down when a new CRD appears, and
  the debug server goroutines.

The patcher (C6), applier (C5), throttle (C2), CRD oracle (C4), reconciler core
(C8) and watch manager (C9) are described in spec.md, but their code is not
under `src/`.

## Modules

| Module | Models | State and actions |
|---|---|---|
| `Tombstone` | C7 and the actors that write tombstoned objects | see below |
| `TombstoneProofs` | TLAPS proofs about `Tombstone` | `CountsBounded`, `ErrorTracked`, the inductive `IInv` |
| `MCTombstone` | TLC instance: 2 tombstones, 1 recreation, 3 writes by others, 1 API error | |
| `Render` | BuildOutputs, CheckConditions, the exclusion parse, the CLI and debug callers | see below |
| `MCRender` | TLC instance: 5 assets that take every branch, 1 HCO edit | |
| `Patcher` | the override predicates (C1) gating a spec-modelled patcher pass (C6, C8 steps 2-6) | see below |
| `PatcherProofs` | TLAPS proofs about `Patcher` | `ApplyGated`, `PendingNotCounted`, the inductive `IInv` |
| `MCPatcher` | TLC instance: a MachineConfig and a ConfigMap, every kind of annotation value, 2 user edits | |
| `TombstoneAtomic` | what the tombstone reconciler promises, each visit one atomic step | see "Refinement" |
| `RenderProofs` | TLAPS proofs about `Render` | `LoopTracks`, `LastTracks`, `LoopFollows`, the rank lemmas, the inductive `IInv` |
| `StatusTable` | `writeStatusOutput` and `truncate` of the render CLI (render.go 207-250) | see below |
| `StatusTableSpec` | what `writeStatusOutput` promises, the call one atomic step | see "StatusTable" |
| `StatusTableProofs` | TLAPS proofs about `StatusTable` | `LoopsTrack`, the inductive `IInv`, the cell lemmas |
| `MCStatusTable` | TLC instance: the real column widths, names at and around them, two outputs | |
| `Lifecycle` | `runController` of main.go and the reconciler's shutdown hook, restarted by the orchestrator | see below |
| `LifecycleSpec` | what the process promises: a manager that starts on the Established kinds and restarts only for an unwatched one | see "Lifecycle" |
| `LifecycleProofs` | TLAPS proofs of `TypeOK`, `RestartsBounded` and the refinement of `LifecycleSpec` | `WatchesGrounded`, the inductive `IInv` |
| `MCLifecycle` | TLC instance: 2 managed CRDs, 2 slow periods of the API server, 1 SIGTERM | |

### Tombstone

**State.**
* `live`: for each tombstoned name, whether an object exists, whether it is
  labeled, and an incarnation number.
* `phase` and `cur`: the loop of ReconcileTombstones.
* `deletedCount` and `errCount`: the locals of the same names.
* `metric`: the gauge of each tombstone.
* `lastResult`: what the last pass returned.
* Ghost variables: `deletions` records every object deleted, with its label
  at that moment. `passFailed` and `lastFailed` record whether an API call
  really failed.

**Actions.** There is one action per branch of `reconcileTombstone`:
* `GetFailed` (lines 133-141);
* `GetNotFound` (120-131);
* `GetLabelMismatch` (145-164);
* `GetLabeled`, which leads to the Delete;
* `DeleteFailed` (174-184);
* `DeleteSucceeded` (186-198).

The loop's entry is `ReconcileTombstonesStart`, whose empty-list return is at
lines 65-68. Its exit is `ReconcileTombstonesFinish` (94-100).

Get and Delete are separate steps, because they are separate API calls. The
Delete has no precondition, so it removes whatever object holds the name when
it arrives.

`DeleteFailed` covers two causes: a failing API call, and the object having
gone away since the Get. The code treats the NotFound from Delete like any
other error.

Other actors remove or add the label, delete the object, or recreate it. Each
such write spends an environment budget.

### Refinement

`TombstoneAtomic` states what a pass promises when each visit of a tombstone
is one atomic step: the gauge is set from the cluster at one instant, the
object is removed in that same instant, and the pass returns its count with an
error exactly when some gauge reads Error. Its visit has no label guard on the
removal, because the code has none at the Delete (see `tombstone_toctou`).

`Tombstone` maps onto it with `Atomic == INSTANCE TombstoneAtomic WITH phase <-
AtomicPhase`. `AtomicPhase` is "busy" from the first Get to the return. The
Get that sees a labeled object is a stuttering step, and that visit takes
effect at the Delete. `errCount`, the budgets and the history variables have
no counterpart. The `tombstone_refinement` run checks `ImplementsAtomic`
(`Atomic!Spec`, with its fairness) on the `tombstone` instance.

### Render

**State.**
* `hco`: the cluster's HCO annotations, its `spec.featureGates`, and the
  hardware facts.
* The in-progress BuildOutputs call: the snapshot `ctx`, `show`, `list`, `i`,
  `rules` and `outputs`.
* `last`: the last completed call.

**Actions.**
* `RunRender`: the CLI, rendering all assets or only the `--asset` one.
* `HandleRender`: the debug server's `/debug/render`.
* `BuildOutputs`: takes the snapshot and parses the rules once.
* One action per branch of the loop: `ConditionsNotMet`, `RenderFailed`,
  `RenderedEmpty`, `RootExcluded` and `Included`.
* `BuildOutputsReturn`.
* `EditHCO`: a user edits one annotation, the gates, or the hardware.

**Operators.** `RenderAssetStatus` and `Exclusions` compute what
handleRenderAsset and handleExclusions report. Those handlers read the state
and change nothing.

**Data abstraction.**
* Annotation values are model values.
* The feature-gates annotation is a character sequence, because the code
  searches it with `strings.Contains`, which is modelled as a contiguous
  subsequence.
* The disabled-resources value is its list of entries after TrimSpace, or
  `Malformed`.
* Templates are embedded, so what RenderAsset returns for an asset is a
  constant.

### StatusTable

A Go string is modelled as its bytes, each reduced to its UTF-8 role: `"a"`
is ASCII, `"L"` a lead byte of a two-byte rune, `"C"` a continuation byte.
`Truncate` is `truncate`: it cuts by bytes, keeping `maxLen-3` bytes and adding
`"..."`. `RuneCount` is `utf8.RuneCountInString`, where a byte that does not
start a valid encoding counts as one rune. `PadRight` is fmt's `%-Ns`, which
pads by runes. The state follows the two loops of `writeStatusOutput`:
`PrintRow`, `StartCount`, `CountRow` and `PrintSummary`. `RowOf` is the row
the Printf of the first loop prints for an output. The headers and separators
are left out.

`StatusTableSpec` states what the call promises as one atomic step (`Write`):
* the table is the `RowOf` of each output, in order;
* the summary counts the outputs of each status.

`StatusTable` maps onto it through `Table == INSTANCE StatusTableSpec WITH
done <- TableDone, table <- TablePrinted`. The call is done once the summary
line is printed, and until then the abstract table is empty. The loop steps
are stutters, and `PrintSummary` is the call.

### Lifecycle

**State.** `proc` (down, validating, running, stopping); `pending`, whether
the CRD check in flight will miss its deadline; `watched`, the watch set of
the running process; in the cluster, `hcoCRD`, `established` (the managed CRDs
that are Established) and `apiSlow`. The ghost `restarts` counts the
shutdowns triggered by a discovered CRD.

**Actions.**
* `ProcessStart`: the orchestrator starts the process, which issues the HCO
  CRD check (lines 409-416).
* `ValidateTimedOut` (414-420) and `ValidateCRDMissing` (421-424): the process
  exits.
* `ValidatePassed`: SetupWithManager watches the Established managed kinds
  (425-454).
* `CRDDiscovered`: a managed CRD Established and not watched makes the
  reconciler cancel the context. This is spec-modelled (spec.md 4.8), because
  the controller is not under `src/`.
* `Terminate`: SIGTERM. During the check it kills the process, since
  SetupSignalHandler is called only at line 447; afterwards it cancels the
  context.
* `ManagerStopped`: mgr.Start returns and the process exits (502-509).
* `Reconcile`: the periodic requeue with nothing new.
* The cluster: `EstablishCRD`, `InstallHCOCRD`, `ApiSlowdown` and
  `ApiRecover`.

**Refinement.** `LifecycleSpec` is what the process promises from outside.
A manager is either serving or not. `Start` needs the HCO CRD and watches
exactly the Established managed kinds. `Restart` happens only while some
Established kind is unwatched. `Stop` is SIGTERM. The mapping:
* `up` is `proc = "running"`;
* `watched` is the running process's watch set, and `{}` otherwise.

Under it, `ValidatePassed` is `Start`, `CRDDiscovered` is `Restart`, and
`Terminate` of a running process is `Stop`. The CRD check and its outcomes,
`ManagerStopped`, `Reconcile`, the API server's slowness and a SIGTERM during
the check are stutters. So the stopping window, where the context is
cancelled but the process has not exited, is invisible to the abstract spec.

### Patcher

The override predicates are translated from `tombstone.go` 224-372:
`SensitiveKinds`, `ValidatePatchSecurity`, `ValidateAnnotations`,
`IsUnmanaged`, `IsPaused` and `IsAutopilotEnabled`. `ValidateJSONPatch` and
`ValidatePointers` are not under `src/`; they are reduced to whether the text
parses (`BadPatch` and `BadPointers` are the texts that do not).

The pipeline that calls them is not under `src/` and is modelled from spec.md
4.6 and 4.8 (`spec_modelled` in PROJECT.json).

**State.** `ann`, the four annotations the engine reads on each managed object;
`autopilot`, the HCO opt-in; `phase` and `cur`, the sequential pass;
`fetched`, what the live fetch read. Ghost: `writes`, every apply with the
annotations it was decided on; `lateWrites`, the applies of each object since
its mode was last changed, while it reads `unmanaged`.

**Actions.** `ReconcileDisabled` (no opt-in: a no-op), `ReconcileStart`,
`FetchSkip` (unmanaged, invalid or paused: `SkipObject`), `FetchForApply`,
`Apply` (Server-Side Apply with no precondition; users' annotations are kept),
`ApplyFailed`, `ReconcileFinish`, and the users' `EditAnnotation` and
`EditAutopilot`. Fetch and apply are separate steps because they are separate
API calls; rendering, patching, ignore-field masking and the throttle are left
out, since they do not decide whether a write happens.

## Runs

| Run | Checks | Result |
|---|---|---|
| `tombstone` | `TypeOK`, `ErrorMatchesMetrics`, `MetricsConverge`, `GaugeWritesTruthful` | pass, about 51k states |
| `tombstone_toctou` | `NoDeleteOfUnlabeled` | violation (finding) |
| `tombstone_delete_notfound` | `ErrorOnlyOnApiFailure` | violation (finding) |
| `render` | `TypeOK`, `BuildOutputsMatchesRenderAsset`, `ExclusionsMatchRender` | pass, about 1.2M states |
| `patcher` | `TypeOK`, `UnmanagedOptOutTakesEffect`, `WritesPassGates` | pass, about 268k states |
| `render_feature_gate` | `RenderPreviewMatchesController` | violation (finding) |
| `render_empty_annotation` | `RenderPreviewMatchesController` | violation (finding) |
| `tombstone_refinement` | `ImplementsAtomic` | pass, about 51k states |
| `status_table` | `RowsAligned`, `SummaryMatchesRows`, `ImplementsTableSpec` | pass, about 65k states |
| `status_table_whole_runes` | `CellsWholeRunes` | violation (finding) |
| `lifecycle` | `RestartsBounded`, `WatchesConverge`, `ImplementsLifecycleSpec` | pass, 669 states |

### What the passing runs show

* **ErrorMatchesMetrics.** Between passes, the returned error is set exactly
  when some gauge reads Error. The VirtPlatformTombstoneStuck alert reads the
  gauges, while the requeue reads the error.
* **MetricsConverge.** Once other actors stop and API calls stop failing, the
  following holds for good for every tombstone: either no object exists and
  the gauge reads Deleted, or an unlabeled object exists and the gauge reads
  Skipped. This means labeled objects do not survive.
* **GaugeWritesTruthful** (an action property). Every step that changes a
  tombstone's status gauge is a visit of that tombstone. It sets Deleted only
  when the name holds no object after the step, and Skipped only when it
  holds an object without the label. A status decided on a stale read
  breaks it: a mismatch branch that reported Deleted fails it.
* **BuildOutputsMatchesRenderAsset.** The stepwise loop returns what
  `/debug/render/{asset}` reports for the same snapshot: as many outputs as
  the shown positions of the list (all of them with showExcluded, else the
  INCLUDED and ERROR ones), and the k-th shown position's asset, with its
  `RenderAssetStatus`, at place k, its rank among the shown positions
  counted with `Cardinality`. This holds while the HCO is edited mid-call.
* **ExclusionsMatchRender.** `/debug/exclusions` lists exactly the assets that
  a full preview with show-excluded reports as non-INCLUDED, fail-open
  included. The two endpoints share `ExclusionRules` with the loop, as the
  code shares `pkg/engine/exclusion.go`, so the fail-open agreement holds by
  construction; the property checks the classification and the filter.

* **UnmanagedOptOutTakesEffect.** Once a user sets `mode=unmanaged` and leaves
  it, the object is written at most once more: the apply of a fetch that
  preceded the edit. Every later pass skips it (spec.md §8, opt-out at fetch
  time).
* **WritesPassGates** (an action property). Every apply writes on
  annotations that, as its fetch read them, pass the spec's rules: mode
  unset or empty, not paused, a patch that parses and is not on a sensitive
  kind, and pointers that parse. It is written from spec.md 4.1, 4.6 and 6,
  not from the engine's predicates. So a predicate that drops a gate breaks
  it, even though `SkipObject` still "agrees" with itself.

* **ImplementsAtomic.** Every behaviour of the code, under an implementation
  mapping, is a behaviour of `TombstoneAtomic`, with its fairness. Every gauge
  write is justified by the cluster at one instant, and the error returned
  through `errCount` is "some gauge reads Error".
* **RowsAligned.** Every ASSET cell of the status table is 30 runes wide and
  every COMPONENT cell 20, whatever the bytes of the names. So STATUS and
  REASON start at the same column on every row. This holds because `truncate`
  leaves at most `maxLen` bytes and fmt pads by runes, of which there are never
  more than bytes.
* **SummaryMatchesRows.** Each counter of the summary line equals the number
  of rows printed with that status.
* **ImplementsTableSpec.** The two loops implement `StatusTableSpec`. When the
  call returns, it has printed the row of each output, once and in order, and
  the count of each status. It claimed neither before.
* **RestartsBounded.** The process is never restarted for a discovered CRD
  more often than there are Established managed CRDs. Each restart watches a
  strictly larger set.
* **WatchesConverge.** Once the API server stays fast enough and the HCO CRD
  stays installed, the process comes up and settles running, watching every
  Established managed CRD. This holds whatever timeouts, failed checks,
  discoveries and SIGTERMs came before.
* **ImplementsLifecycleSpec.** The process implements `LifecycleSpec`. A
  restart fired for a watched kind is caught: it is not an abstract
  `Restart`. So is a start that watches anything but the Established kinds.

### What the violation runs show

Each violation run is listed under `findings` in PROJECT.json.

* **tombstone_toctou.** A user removes the label after the Get and before the
  Delete, and the object is deleted anyway. This contradicts spec.md §8.
* **tombstone_delete_notfound.** An object deleted by someone else between the
  two calls produces an Error gauge and a failed pass. spec.md §7 says
  deletion is NotFound-tolerant.
* **render_feature_gate.** The preview reads feature gates from an annotation
  with a substring match. The controller (spec.md §3, `extractFeatureGates`)
  reads `spec.featureGates`. So a gate enabled there leaves the asset out of
  the preview.
* **render_empty_annotation.** A condition `{key, value: ""}` holds in the
  preview when the annotation is absent. The spec says it holds when the
  annotation is present.

* **status_table_whole_runes.** `truncate`'s comment says "maxLen
  characters", but the function cuts by bytes. A name whose two-byte rune
  straddles byte `maxLen-3` is printed with half a character.

The preview's hardware conditions are always false. The code says so in a
comment (output.go 66-67), so this is not reported as a finding.

### Bounds

**MCTombstone.** Two tombstones are enough for the following:
* one tombstone's failure and another's success can occur in the same pass;
* the environment can interleave a write between any Get and its Delete;
* with one recreation, a name can be deleted and created again, labeled or
  not.

One API error exercises the aggregated-error path, and three environment
writes allow label, unlabel and delete in one behaviour.

**MCRender.** Five assets cover every branch. There is one annotation key with
the values unset, `""` and `"true"`. There are feature-gate strings `"a"` and
`"ab"`, the second containing the first. The disabled-resources annotation can
be unset, blank, malformed, or name the filtered object. With one edit, the
HCO can change during a call.

**MCPatcher.** One sensitive and one ordinary kind. Each annotation has an
unset value, a value that passes and one that fails validation
(`mode=managed` is invalid). Two edits allow a user to change mode after a
fetch and then change something else, or to toggle the opt-in mid-pass.
Initial annotations range over all combinations.

**MCStatusTable.** The widths are the code's own: 30, 20 and 35. The names
are 30 and 31 ASCII bytes, 31 bytes with a two-byte rune across the cut, and
31 bytes that are 30 runes. There is a 19-byte component and a 21-byte one with
a rune across its cut. The reasons are empty (printed "-"), the 47-byte "Root
exclusion ..." text, and 36 bytes with a rune across the cut. With two
outputs, a row and the summary see every status pair.

**MCLifecycle.** Two managed CRDs are enough for one to be Established at the
first start and another later, or both while the process is down. Two slow
periods let the API server slow down again after recovering, and one SIGTERM
hits either the check or the running manager.

### Fairness

`Spec` of `Tombstone` has weak fairness on the reconciler only. The controller
requeues every 5 minutes (spec.md §4.8), and a single worker runs each
ReconcileTombstones call to completion. Users owe nothing. `TombstoneAtomic`'s
`Spec` has weak fairness on its pass, for the same reason.

`Lifecycle` has weak fairness on the process's own steps. The orchestrator
restarts an exited process (a Deployment's pods restart always). The check's
deadline fires. An answered call returns. The CRD watch delivers its events
to the single worker, and a cancelled manager returns. The cluster and the
signals owe nothing. `WatchesConverge` therefore assumes, as its hypothesis,
that the API server eventually stays fast and the HCO CRD eventually stays
installed.

`Render`, `StatusTable` and `Patcher` have no liveness property and no
fairness.

## Proofs

`TombstoneProofs` proves the following with TLAPS, for every value of the
constants. It assumes only that they are naturals (`ConstantsAssumption`).

* `TypeCorrect`: `Spec => []TypeOK`.
* `ErrorMatchesMetricsHolds`: `Spec => []ErrorMatchesMetrics`.

Neither invariant is inductive on its own, so both rest on
`IInv == TypeOK /\ CountsBounded /\ ErrorTracked`:

* **CountsBounded.** `errCount + deletedCount <= cur - 1`, and a Delete happens
  only at an index that is still a tombstone. Without it, TypeOK cannot show
  that the counters stay within `0..N`.
* **ErrorTracked.** In the middle of a pass, `errCount > 0` exactly when one of
  the tombstones visited so far has an Error gauge. At the end of the pass,
  that set of visited tombstones is all of them.

TLC checked IInv as an invariant of the `tombstone` instance before the proof
was written. There is one lemma per action. Under each lemma, the arithmetic
part of TypeOK (`TypeNum`) goes to SMT and the Boolean part (`TypeFlags`) to
Zenon, because an obligation that mixes them defeats both. Two helper lemmas
are shared across the actions: `StepAtCur` (writing the gauge at `cur`) and
`NonErrorStep`.

`PatcherProofs` proves `TypeCorrect` and
`UnmanagedOptOutTakesEffectHolds` (`Spec => []P` for the invariants of the
`patcher` run), for every reconcile order, kind table, set of annotation values
and edit bound. The assumption used is `PatcherAssumption`; its one
non-trivial conjunct is that an unset annotation equals none of the strings the
predicates compare with (`"unmanaged"`, `"true"`). The inductive invariant adds
two facts:

* **ApplyGated.** In the apply phase, `cur` is a position of the order and the
  fetched annotations pass `SkipObject`'s gates. This carries the decision of
  the fetch to the apply, which reads nothing itself.
* **PendingNotCounted.** If an apply is pending on an object whose mode now
  reads `unmanaged`, no late write of it has been counted yet. The fetch saw a
  different mode, so the edit that set `unmanaged` came after it and restarted
  the count.

TLC checked this `IInv` on a 3-edit instance before the proof. There is one
lemma per action. The only split needed is for the user's edit, where the
edited record is typed one field at a time.

`TombstoneProofs` also proves `ImplementsAtomicSafety`:
`Spec => Atomic!SafetySpec`. This is the refinement without fairness. The
proof has the usual two parts:
* `InitRefines`: the initial states map to initial states.
* `NextRefines`: under `IInv`, every step maps to an `Atomic!Next` step or a
  stutter.

The Get of a labeled object maps to a stutter, and the Delete that follows
maps to the visit. `ReconcileTombstonesFinish` needs `ErrorTracked`: at the end
of a pass, `errCount > 0` is exactly "some gauge reads Error". A lemma
(`ResultEquiv`) turns that equivalence into the equality of the returned
records.

`RenderProofs` proves `TypeCorrect` and `ExclusionsMatchRenderHolds` for every
catalog, condition table and set of annotation values allowed by
`RenderAssumption`. It uses two facts about the constants: a rendered
Kind/Name is neither "error" nor "empty", and a disabled-resources value is a
list of Kind/Names or blanks. The inductive invariant adds two parts:
* **LoopTracks.** Inside a call, the rules are those of the snapshot. With
  show-excluded, the non-INCLUDED outputs are exactly the assets of the visited
  prefix that `RenderAssetStatus` does not report INCLUDED.
* **LastTracks.** The same holds for the whole list of the last completed
  call.

One lemma per loop branch shows that the branch's status is
`RenderAssetStatus` of the asset. A final lemma shows that `Exclusions` is the
set of non-INCLUDED assets. To make the proofs possible, `Render` no longer
extends SequencesExt (which reaches RECURSIVE operators).

`LifecycleProofs` proves `RestartsBoundedHolds` for every finite set of
managed CRDs. The invariant adds `WatchesGrounded`: the watch set is a subset
of the Established CRDs, and a running process has had no more restarts than
it watches. A discovery therefore means a proper subset, and by
`FS_Subset` of FiniteSetTheorems, a strictly smaller one.

`LifecycleProofs` also proves `TypeCorrect` from the same invariant. The
proof uses it, but `TypeOK` is not a property of the `lifecycle` run: no
plausible bug of `runController` breaks it, so a run of it would say nothing
about the code.

`TombstoneProofs` proves the action property `GaugeWritesTruthfulHolds`:
`Spec => GaugeWritesTruthful`. It needs only `TypeOK`. The lemma
`WriteAtCur` shows that a visit changes no gauge other than the one at `cur`.
Each of the visits that write a gauge has the fact its status states among
its guards or its assignment to `live`.

`StatusTableProofs` proves `TypeCorrect`, `RowsAlignedHolds`,
`SummaryMatchesRowsHolds` and `ImplementsTableSpecHolds`. They hold for every
width of at least three, every set of names and every number of outputs.
`StatusTableAssumption` says the widths are at least 3, because `truncate`
cuts at `maxLen-3`. It also says the names are byte strings. As for the
lifecycle, `TypeOK` is proved for the other proofs' sake and is not a
property of the `status_table` run: the loops of `writeStatusOutput` are
range loops, and no plausible bug of theirs breaks it.

`RowsAligned` rests on lemmas about the cell operators, each proved once:
* `RuneCountBound`: a string has no more runes than bytes.
* `TruncateLen`: `truncate` leaves at most `maxLen` bytes.
* `RuneCountPadded`: padding with n spaces adds exactly n runes, because no
  space completes a two-byte rune.
* `CellWidth`: a padded, truncated cell is exactly its width.

The other three theorems rest on `LoopsTrack`:
* while rows are printed, the printed rows are the `RowOf` of the outputs
  before `i`;
* while counting, each counter is the number of outputs before `i` with its
  status (`Counted`, advanced one output at a time by `CountedStep`);
* the summary is printed only at the end.

TLC checked this `IInv` on the `status_table` instance before the proof. The
refinement maps every loop step to a stutter. The summary line maps to
`Write`, by `PrintedTable` and `CountedTable`.

`RenderProofs` also proves `BuildOutputsMatchesRenderAssetHolds`:
`Spec => []BuildOutputsMatchesRenderAsset`. The invariant adds `LoopFollows`: inside a
call, the outputs follow the shown positions among the first `i - 1` of the
list. The step lemma `EmitFollows` rests on two facts. The positions shown so
far all lie before `i` (`ShownPositionsFinite`, `ShownPositionsStep`). So, by
`RankInAdd`, adding `i` keeps every earlier rank and gives `i` the place
`Len(outputs) + 1`. That is the place `Append` fills. `RankInRange` shows that
an earlier rank is a place of the old outputs, which `Append` keeps. At
`BuildOutputsReturn`, `i - 1 = Len(list)`, so the last call's outputs follow
its whole list. TLC checked the strengthened `IInv` on all 1.2M states of the
`render` instance, and the lemmas need nothing beyond `RenderAssumption`.

`PatcherProofs` also proves `WritesPassGatesHolds`: `Spec => WritesPassGates`.
It uses the same `IInv`. Only `Apply` adds a write. By `ApplyGated`, that
write's annotations passed `SkipObject`. The lemma `PassedGates` shows that
annotations no gate skips satisfy the spec's rules. It uses
`PatcherAssumption`'s fact that an unset annotation is not `"true"`.

`LifecycleProofs` also proves `ImplementsLifecycleSpecHolds`:
`Spec => Life!Spec`. It needs no invariant. `InitRefines` shows that the
initial states map to initial states. `NextRefines` takes one case per action:
* `ValidatePassedRefines`, `CRDDiscoveredRefines` and
  `TerminateRunningRefines` give the three steps of the manager;
* `ClusterRefines` gives the CRD installs;
* `HiddenStepStutters` gives the rest.

Two things stay with TLC only:
* the liveness properties `MetricsConverge`, `WatchesConverge` and the
  fairness part of `ImplementsAtomic`;
* the violated properties.

## Not modelled, and the plan

The following are planned for later modules:
* **The rest of the patcher** (C6): patch application, ignore-field masking
  and edit-war stamping of `reconcile-paused`, with the throttle.
* **Throttle** (C2). The token bucket and the bucket-capacity property of
  spec.md §8.
* **Reconciler core with the tombstone reconciler** (C8 composing C7). The
  assets in order followed by the tombstones, and the requeue.
* **Watch manager** (C9). The informers and event handlers, and the CRD
  presence oracle's TTL cache (C4).

The following are not modelled at all:
* event emission (C3), where each event mirrors a gauge value;
* log lines;
* output formatting (WriteYAML, WriteJSON); the status table is modelled;
* flag parsing;
* the HTTP plumbing.
