----------------------------- MODULE StatusTable -----------------------------
(***************************************************************************)
(* The status table of the render CLI (cmd/render/render.go 207-250,       *)
(* writeStatusOutput and truncate): one row per render output, then the    *)
(* summary counts.                                                         *)
(*                                                                         *)
(* A Go string is a sequence of bytes.  A byte is abstracted to its UTF-8  *)
(* role: "a" an ASCII character, "L" the lead byte of a two-byte rune, "C" *)
(* a continuation byte.  len(s) and s[:n] work on bytes; the width of a    *)
(* %-Ns verb of fmt counts runes (utf8.RuneCountInString), where every     *)
(* byte that does not start a valid encoding counts as one rune.  Headers, *)
(* separators and the text of the cells other than their bytes' roles are  *)
(* left out.                                                               *)
(***************************************************************************)
EXTENDS Naturals, Sequences, FiniteSets

CONSTANTS
    AssetWidth,      \* 30: width of the ASSET column
    ComponentWidth,  \* 20: width of the COMPONENT column
    ReasonWidth,     \* 35: length the REASON cell is cut to
    AssetNames,      \* the asset names the outputs may carry, as byte strings
    ComponentNames,  \* the component names, as byte strings
    Reasons,         \* the reasons, as byte strings; <<>> is the empty reason
    MaxRows          \* bound: number of render outputs

\* A byte, by its role in UTF-8.
Byte == {"a", "L", "C"}

ASSUME StatusTableAssumption ==
    /\ {AssetWidth, ComponentWidth, ReasonWidth} \subseteq Nat \ 0..2
    /\ MaxRows \in Nat
    /\ AssetNames \cup ComponentNames \cup Reasons \subseteq Seq(Byte)

\* The statuses BuildOutputs gives an output.
Statuses == {"INCLUDED", "EXCLUDED", "FILTERED", "ERROR"}

\* pkgrender.RenderOutput, reduced to the fields the table prints.
Output == [asset : AssetNames, status : Statuses,
           component : ComponentNames, reason : Reasons]

Ellipsis == <<"a", "a", "a">>

Dash == <<"a">>

\* utf8.RuneCountInString: a lead byte followed by a continuation is one rune.
RuneCount(s) ==
    Len(s) - Cardinality({j \in 2..Len(s) : s[j - 1] = "L" /\ s[j] = "C"})

\* fmt's %-Ns: spaces on the right up to N runes, never a cut.
PadRight(s, n) ==
    IF RuneCount(s) >= n THEN s
    ELSE s \o [j \in 1..(n - RuneCount(s)) |-> "a"]

\* Mutant: the cut keeps maxLen bytes before the ellipsis.
TruncateNoRoom(s, maxLen) ==
    IF Len(s) <= maxLen THEN s ELSE SubSeq(s, 1, maxLen) \o Ellipsis

\* truncate: strings longer than maxLen bytes are cut to maxLen-3 bytes and "...".
Truncate(s, maxLen) ==
    IF Len(s) <= maxLen THEN s ELSE SubSeq(s, 1, maxLen - 3) \o Ellipsis

\* Mutant: the FILTERED case of the count is missing.
CountStatusNoFiltered(counts, st) ==
    IF st = "FILTERED" THEN counts ELSE [counts EXCEPT ![st] = @ + 1]

\* The switch of the counting loop: one counter per status.
CountStatus(counts, st) == [counts EXCEPT ![st] = @ + 1]

VARIABLES
    outputs,  \* the outputs passed to writeStatusOutput
    phase,    \* "rows", "count" or "done"
    i,        \* index of the output handled next by the current loop
    printed,  \* the rows printed so far, as their cells
    counts,   \* included, excluded, filtered, errors
    summary   \* the counts the summary line printed; <<>> before it

vars == <<outputs, phase, i, printed, counts, summary>>

Row == [asset : Seq(Byte), status : Statuses, component : Seq(Byte), reason : Seq(Byte)]

TypeOK ==
    /\ outputs \in Seq(Output)
    /\ phase \in {"rows", "count", "done"}
    /\ i \in 1..Len(outputs) + 1
    /\ printed \in Seq(Row)
    /\ counts \in [Statuses -> Nat]
    /\ summary = <<>> \/ summary \in [Statuses -> Nat]

\* Any list of at most MaxRows outputs; the header has been printed.
Init ==
    /\ \E n \in 0..MaxRows : outputs \in [1..n -> Output]
    /\ phase = "rows"
    /\ i = 1
    /\ printed = <<>>
    /\ counts = [st \in Statuses |-> 0]
    /\ summary = <<>>

(* The row printed for output o: an empty reason is shown as "-", the      *)
(* asset, component and reason are truncated and the first two padded.    *)
RowOf(o) ==
    LET reason == IF o.reason = <<>> THEN Dash ELSE o.reason
    IN  [asset     |-> PadRight(Truncate(o.asset, AssetWidth), AssetWidth),
         status    |-> o.status,
         component |-> PadRight(Truncate(o.component, ComponentWidth), ComponentWidth),
         reason    |-> Truncate(reason, ReasonWidth)]

\* The first loop prints the row of one output.
PrintRow ==
    /\ phase = "rows"
    /\ i <= Len(outputs)
    /\ printed' = Append(printed, RowOf(outputs[i]))
    /\ i' = i + 1
    /\ UNCHANGED <<outputs, phase, counts, summary>>

\* The second loop starts over the same outputs.
StartCount ==
    /\ phase = "rows"
    /\ i = Len(outputs) + 1
    /\ phase' = "count"
    /\ i' = 1
    /\ UNCHANGED <<outputs, printed, counts, summary>>

\* The second loop counts one output under its status.
CountRow ==
    /\ phase = "count"
    /\ i <= Len(outputs)
    /\ counts' = CountStatus(counts, outputs[i].status)
    /\ i' = i + 1
    /\ UNCHANGED <<outputs, phase, printed, summary>>

\* The summary line prints the four counters; writeStatusOutput returns.
PrintSummary ==
    /\ phase = "count"
    /\ i = Len(outputs) + 1
    /\ summary' = counts
    /\ phase' = "done"
    /\ UNCHANGED <<outputs, i, printed, counts>>

Next == PrintRow \/ StartCount \/ CountRow \/ PrintSummary

Spec == Init /\ [][Next]_vars

-----------------------------------------------------------------------------
(* Properties.                                                             *)

(* The columns line up: whatever the bytes of the names, every printed     *)
(* ASSET cell is AssetWidth runes wide and every COMPONENT cell            *)
(* ComponentWidth runes wide, so STATUS and REASON start at the same place *)
(* on every row.  This holds because truncate leaves at most maxLen bytes  *)
(* and fmt pads by runes, of which there are never more than bytes.        *)
RowsAligned ==
    \A r \in {printed[j] : j \in DOMAIN printed} :
        /\ RuneCount(r.asset) = AssetWidth
        /\ RuneCount(r.component) = ComponentWidth

(* The summary accounts for the table: once printed, each of its counters  *)
(* equals the number of rows printed with that status.                     *)
SummaryMatchesRows ==
    summary # <<>> =>
        \A st \in Statuses :
            summary[st] = Cardinality({j \in DOMAIN printed : printed[j].status = st})

\* A byte string is made of whole runes.
WholeRunes(s) ==
    \A j \in 1..Len(s) :
        /\ s[j] = "L" => j < Len(s) /\ s[j + 1] = "C"
        /\ s[j] = "C" => j > 1 /\ s[j - 1] = "L"

(* truncate's comment says it truncates a string to maxLen characters: a   *)
(* cut of names made of whole characters leaves whole characters.          *)
CellsWholeRunes ==
    \A r \in {printed[j] : j \in DOMAIN printed} :
        WholeRunes(r.asset) /\ WholeRunes(r.component) /\ WholeRunes(r.reason)

-----------------------------------------------------------------------------
(* Refinement of StatusTableSpec.  The call has returned once the summary  *)
(* line is printed; until then the abstract table is empty, and the rows   *)
(* the first loop prints one by one appear in it all at once.              *)

TableDone == phase = "done"

TablePrinted == IF phase = "done" THEN printed ELSE <<>>

Table == INSTANCE StatusTableSpec WITH done <- TableDone, table <- TablePrinted

(* writeStatusOutput implements its promise: once it returns it has        *)
(* printed, in order, exactly the row of each output and a summary line    *)
(* counting the outputs of each status.  A loop that skipped, repeated or  *)
(* reordered an output, or a row that formatted an output otherwise,       *)
(* breaks it.                                                              *)
ImplementsTableSpec == Table!Spec
=============================================================================
