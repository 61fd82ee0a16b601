-------------------------- MODULE StatusTableProofs --------------------------
(***************************************************************************)
(* The status table for every width of its columns, every set of names and *)
(* every number of outputs.                                                *)
(*                                                                         *)
(* RowsAligned rests on three facts about the cell operators: a string has *)
(* no more runes than bytes, truncate leaves at most maxLen bytes, and     *)
(* padding with n ASCII spaces adds exactly n runes.  SummaryMatchesRows   *)
(* rests on the two loops walking the same outputs: the first has printed  *)
(* a row for each output before i, with its status, and the second has     *)
(* counted each output before i under its status.                           *)
(***************************************************************************)
EXTENDS StatusTable, SequenceTheorems, FiniteSetTheorems, TLAPS

\* The positions of the two-byte runes of s, each by its continuation byte.
Pairs(s) == {j \in 2..Len(s) : s[j - 1] = "L" /\ s[j] = "C"}

\* n spaces, the padding %-Ns adds.
Spaces(n) == [j \in 1..n |-> "a"]

\* The outputs among the first n whose status is st.
Counted(n, st) == Cardinality({j \in 1..n : outputs[j].status = st})

LEMMA SpacesType ==
    ASSUME NEW n \in Nat
    PROVE  Spaces(n) \in Seq(Byte) /\ Len(Spaces(n)) = n
BY DEF Spaces, Byte

\* A string of bytes has finitely many two-byte runes, no more than bytes.
LEMMA PairsCount ==
    ASSUME NEW s \in Seq(Byte)
    PROVE  /\ IsFiniteSet(Pairs(s))
           /\ Cardinality(Pairs(s)) \in Nat
           /\ Cardinality(Pairs(s)) <= Len(s)
<1>1. Len(s) \in Nat
  BY LenProperties
<1>2. IsFiniteSet(1..Len(s)) /\ Cardinality(1..Len(s)) = Len(s)
  BY <1>1, FS_Interval
<1>3. Pairs(s) \subseteq 1..Len(s)
  BY DEF Pairs
<1>4. IsFiniteSet(Pairs(s)) /\ Cardinality(Pairs(s)) <= Len(s)
  BY <1>2, <1>3, FS_Subset
<1>5. QED
  BY <1>4, FS_CardinalityType

\* utf8.RuneCountInString never exceeds len.
LEMMA RuneCountBound ==
    ASSUME NEW s \in Seq(Byte)
    PROVE  RuneCount(s) \in 0..Len(s)
BY PairsCount, LenProperties DEF RuneCount, Pairs

\* Spaces after a string add no two-byte rune.
LEMMA PairsPadded ==
    ASSUME NEW s \in Seq(Byte), NEW n \in Nat
    PROVE  Pairs(s \o Spaces(n)) = Pairs(s)
<1>1. Len(s) \in Nat /\ Len(s \o Spaces(n)) = Len(s) + n
  BY SpacesType, ConcatProperties, LenProperties
<1>2. \A j \in 1..Len(s) : (s \o Spaces(n))[j] = s[j]
  BY <1>1, SpacesType
<1>3. \A j \in Len(s) + 1..Len(s) + n : (s \o Spaces(n))[j] = "a"
  BY <1>1, SpacesType DEF Spaces
<1>4. QED
  BY <1>1, <1>2, <1>3 DEF Pairs

\* Padding with n spaces adds exactly n runes.
LEMMA RuneCountPadded ==
    ASSUME NEW s \in Seq(Byte), NEW n \in Nat
    PROVE  RuneCount(s \o Spaces(n)) = RuneCount(s) + n
<1>1. Len(s \o Spaces(n)) = Len(s) + n /\ Len(s) \in Nat
  BY SpacesType, ConcatProperties, LenProperties
<1>2. Cardinality(Pairs(s)) \in Nat
  BY PairsCount
<1>3. RuneCount(s \o Spaces(n)) = Len(s \o Spaces(n)) - Cardinality(Pairs(s \o Spaces(n)))
  BY DEF RuneCount, Pairs
<1>4. RuneCount(s) = Len(s) - Cardinality(Pairs(s))
  BY DEF RuneCount, Pairs
<1>5. Cardinality(Pairs(s \o Spaces(n))) = Cardinality(Pairs(s))
  BY PairsPadded
<1>6. QED
  BY <1>1, <1>2, <1>3, <1>4, <1>5

\* truncate leaves a string of bytes of at most maxLen bytes.
LEMMA TruncateLen ==
    ASSUME NEW s \in Seq(Byte), NEW w \in Nat \ 0..2
    PROVE  Truncate(s, w) \in Seq(Byte) /\ Len(Truncate(s, w)) <= w
<1>1. Len(s) \in Nat
  BY LenProperties
<1>1a. CASE Len(s) <= w
  BY <1>1a DEF Truncate
<1>2. CASE Len(s) > w
  <2>1. SubSeq(s, 1, w - 3) \in Seq(Byte) /\ Len(SubSeq(s, 1, w - 3)) = w - 3
    BY <1>1, <1>2, SubSeqProperties
  <2>2. Ellipsis \in Seq(Byte) /\ Len(Ellipsis) = 3
    BY DEF Ellipsis, Byte
  <2>3. Truncate(s, w) = SubSeq(s, 1, w - 3) \o Ellipsis
    BY <1>2 DEF Truncate
  <2>4. /\ SubSeq(s, 1, w - 3) \o Ellipsis \in Seq(Byte)
        /\ Len(SubSeq(s, 1, w - 3) \o Ellipsis) = Len(SubSeq(s, 1, w - 3)) + Len(Ellipsis)
    BY <2>1, <2>2, ConcatProperties
  <2>5. QED
    BY <2>1, <2>2, <2>3, <2>4
<1>3. QED
  BY <1>1, <1>1a, <1>2

\* %-Ns of a string of at most N runes is a string of bytes of exactly N runes.
LEMMA PadRightWidth ==
    ASSUME NEW t \in Seq(Byte), NEW w \in Nat, RuneCount(t) <= w
    PROVE  PadRight(t, w) \in Seq(Byte) /\ RuneCount(PadRight(t, w)) = w
<1>1. RuneCount(t) \in Nat
  BY RuneCountBound
<1>2. CASE RuneCount(t) >= w
  BY <1>1, <1>2 DEF PadRight
<1>3. CASE RuneCount(t) < w
  <2>1. PadRight(t, w) = t \o Spaces(w - RuneCount(t))
    BY <1>1, <1>3 DEF PadRight, Spaces
  <2>2. w - RuneCount(t) \in Nat
    BY <1>1, <1>3
  <2>3. PadRight(t, w) \in Seq(Byte)
    BY <2>1, <2>2, SpacesType, ConcatProperties
  <2>4. RuneCount(PadRight(t, w)) = RuneCount(t) + (w - RuneCount(t))
    BY <2>1, <2>2, RuneCountPadded
  <2>5. QED
    BY <1>1, <2>3, <2>4
<1>4. QED
  BY <1>1, <1>2, <1>3

\* A cell printed by truncate then %-Ns is exactly its column's width in runes.
LEMMA CellWidth ==
    ASSUME NEW s \in Seq(Byte), NEW w \in Nat \ 0..2
    PROVE  /\ PadRight(Truncate(s, w), w) \in Seq(Byte)
           /\ RuneCount(PadRight(Truncate(s, w), w)) = w
<1>1. Truncate(s, w) \in Seq(Byte) /\ Len(Truncate(s, w)) <= w
  BY TruncateLen
<1>2. RuneCount(Truncate(s, w)) <= w
  BY <1>1, RuneCountBound
<1>3. QED
  BY <1>1, <1>2, PadRightWidth

(* Where the two loops of writeStatusOutput stand: the first has printed    *)
(* one row per output before i, the second has counted each output before  *)
(* i, and the summary line prints the counters once both loops are done.    *)
LoopsTrack ==
    /\ \A j \in 1..Len(printed) : printed[j] = RowOf(outputs[j])
    /\ phase = "rows" =>
          /\ Len(printed) = i - 1
          /\ counts = [st \in Statuses |-> 0]
          /\ summary = <<>>
    /\ phase \in {"count", "done"} =>
          /\ Len(printed) = Len(outputs)
          /\ \A st \in Statuses : counts[st] = Counted(i - 1, st)
    /\ phase = "count" => summary = <<>>
    /\ phase = "done" => i = Len(outputs) + 1 /\ summary = counts

IInv == TypeOK /\ LoopsTrack /\ RowsAligned

\* What the proofs use of the constants.
LEMMA ConstantFacts ==
    /\ {AssetWidth, ComponentWidth, ReasonWidth} \subseteq Nat \ 0..2
    /\ MaxRows \in Nat
    /\ AssetNames \subseteq Seq(Byte)
    /\ ComponentNames \subseteq Seq(Byte)
    /\ Reasons \subseteq Seq(Byte)
    /\ Dash \in Seq(Byte)
<1>1. Dash \in Seq(Byte)
  BY DEF Dash, Byte
<1>2. QED
  BY <1>1, StatusTableAssumption

\* The count of an output's status among the first n grows by one per output.
LEMMA CountedStep ==
    ASSUME NEW n \in Nat \ {0}, NEW st
    PROVE  Counted(n, st) = Counted(n - 1, st) + (IF outputs[n].status = st THEN 1 ELSE 0)
<1> DEFINE S(m) == {j \in 1..m : outputs[j].status = st}
<1> USE DEF Counted
<1>1. IsFiniteSet(1..n - 1) /\ S(n - 1) \subseteq 1..n - 1
  BY FS_Interval
<1>2. IsFiniteSet(S(n - 1)) /\ Cardinality(S(n - 1)) \in Nat
  BY <1>1, FS_Subset, FS_CardinalityType
<1>3. CASE outputs[n].status = st
  <2>1. S(n) = S(n - 1) \cup {n} /\ n \notin S(n - 1)
    BY <1>3
  <2>2. QED
    BY <1>2, <1>3, <2>1, FS_AddElement
<1>4. CASE outputs[n].status # st
  <2>1. S(n) = S(n - 1)
    BY <1>4
  <2>2. (IF outputs[n].status = st THEN 1 ELSE 0) = 0
    BY <1>4
  <2>3. Cardinality(S(n)) = Cardinality(S(n - 1))
    BY <2>1
  <2>4. QED
    BY <1>2, <2>2, <2>3
<1>5. QED
  BY <1>2, <1>3, <1>4

LEMMA CountedZero ==
    ASSUME NEW st
    PROVE  Counted(0, st) = 0
<1>1. {j \in 1..0 : outputs[j].status = st} = {}
  OBVIOUS
<1>2. QED
  BY <1>1, FS_EmptySet DEF Counted

\* Before the first row the loops have done nothing.
LEMMA InitIInv == Init => IInv
<1> SUFFICES ASSUME Init PROVE IInv
  OBVIOUS
<1>1. PICK n \in 0..MaxRows : outputs \in [1..n -> Output]
  BY DEF Init
<1>2. outputs \in Seq(Output) /\ Len(outputs) = n
  BY <1>1, ConstantFacts
<1>3. TypeOK
  BY <1>2 DEF Init, TypeOK
<1>4. LoopsTrack
  BY DEF Init, LoopsTrack
<1>5. RowsAligned
  BY DEF Init, RowsAligned
<1>6. QED
  BY <1>3, <1>4, <1>5 DEF IInv

\* A row carries its output's status.
LEMMA RowOfStatus ==
    ASSUME NEW o
    PROVE  RowOf(o).status = o.status
BY DEF RowOf

\* Every row printed for an output is a row of aligned cells.
LEMMA RowOfAligned ==
    ASSUME NEW o \in Output
    PROVE  /\ RowOf(o) \in Row
           /\ RuneCount(RowOf(o).asset) = AssetWidth
           /\ RuneCount(RowOf(o).component) = ComponentWidth
<1>1. o.asset \in Seq(Byte) /\ o.component \in Seq(Byte) /\ o.reason \in Seq(Byte)
  BY ConstantFacts DEF Output
<1>2. /\ PadRight(Truncate(o.asset, AssetWidth), AssetWidth) \in Seq(Byte)
      /\ RuneCount(PadRight(Truncate(o.asset, AssetWidth), AssetWidth)) = AssetWidth
  BY <1>1, ConstantFacts, CellWidth
<1>3. /\ PadRight(Truncate(o.component, ComponentWidth), ComponentWidth) \in Seq(Byte)
      /\ RuneCount(PadRight(Truncate(o.component, ComponentWidth), ComponentWidth)) = ComponentWidth
  BY <1>1, ConstantFacts, CellWidth
<1>4. (IF o.reason = <<>> THEN Dash ELSE o.reason) \in Seq(Byte)
  BY <1>1, ConstantFacts
<1>5. Truncate(IF o.reason = <<>> THEN Dash ELSE o.reason, ReasonWidth) \in Seq(Byte)
  BY <1>4, ConstantFacts, TruncateLen
<1>6. o.status \in Statuses
  BY DEF Output
<1>7. QED
  BY <1>2, <1>3, <1>5, <1>6 DEF RowOf, Row

\* The first loop prints the row of output i.
LEMMA PrintRowIInv ==
    ASSUME IInv, PrintRow
    PROVE  IInv'
<1>1. /\ phase = "rows"
      /\ i \in 1..Len(outputs)
      /\ printed' = Append(printed, RowOf(outputs[i]))
      /\ i' = i + 1
      /\ UNCHANGED <<outputs, phase, counts, summary>>
  BY DEF PrintRow, RowOf, IInv, TypeOK
<1>2. outputs[i] \in Output /\ Len(outputs) \in Nat
  BY <1>1, LenProperties DEF IInv, TypeOK
<1>3. /\ RowOf(outputs[i]) \in Row
      /\ RuneCount(RowOf(outputs[i]).asset) = AssetWidth
      /\ RuneCount(RowOf(outputs[i]).component) = ComponentWidth
  BY <1>2, RowOfAligned
<1>4. /\ printed \in Seq(Row)
      /\ Len(printed) = i - 1
  BY <1>1 DEF IInv, TypeOK, LoopsTrack
<1>5. /\ printed' \in Seq(Row)
      /\ Len(printed') = Len(printed) + 1
      /\ \A j \in 1..Len(printed) : printed'[j] = printed[j]
      /\ printed'[Len(printed) + 1] = RowOf(outputs[i])
  BY <1>1, <1>3, <1>4, AppendProperties
<1>6. TypeOK'
  BY <1>1, <1>2, <1>5 DEF IInv, TypeOK
<1>7. \A j \in 1..Len(printed') : printed'[j] = RowOf(outputs'[j])
  BY <1>1, <1>4, <1>5 DEF IInv, LoopsTrack
<1>8. LoopsTrack'
  BY <1>1, <1>4, <1>5, <1>7 DEF IInv, LoopsTrack
<1>9. RowsAligned'
  <2>1. \A j \in 1..Len(printed') :
           /\ RuneCount(printed'[j].asset) = AssetWidth
           /\ RuneCount(printed'[j].component) = ComponentWidth
    BY <1>3, <1>4, <1>5 DEF IInv, RowsAligned
  <2>2. DOMAIN printed' = 1..Len(printed')
    BY <1>5
  <2>3. QED
    BY <2>1, <2>2 DEF RowsAligned
<1>10. QED
  BY <1>6, <1>8, <1>9 DEF IInv

\* The second loop starts with every counter still at zero.
LEMMA StartCountIInv ==
    ASSUME IInv, StartCount
    PROVE  IInv'
<1>1. /\ phase = "rows" /\ phase' = "count"
      /\ i = Len(outputs) + 1 /\ i' = 1
      /\ UNCHANGED <<outputs, printed, counts, summary>>
  BY DEF StartCount
<1>2. Len(outputs) \in Nat
  BY LenProperties DEF IInv, TypeOK
<1>3. \A st \in Statuses : counts[st] = Counted(0, st)
  BY <1>1, CountedZero DEF IInv, LoopsTrack
<1>4. TypeOK'
  BY <1>1, <1>2 DEF IInv, TypeOK
<1>5. Len(printed) = Len(outputs)
  BY <1>1, <1>2 DEF IInv, LoopsTrack
<1>6. \A st \in Statuses : counts'[st] = Counted(i' - 1, st)
  <2>1. i' - 1 = 0
    BY <1>1
  <2>2. QED
    BY <1>1, <1>3, <2>1
<1>7. LoopsTrack'
  BY <1>1, <1>5, <1>6 DEF IInv, LoopsTrack, Counted
<1>8. QED
  BY <1>1, <1>4, <1>7 DEF IInv, RowsAligned

\* The second loop counts output i under its status.
LEMMA CountRowIInv ==
    ASSUME IInv, CountRow
    PROVE  IInv'
<1>1. /\ phase = "count"
      /\ i \in 1..Len(outputs)
      /\ counts' = [counts EXCEPT ![outputs[i].status] = @ + 1]
      /\ i' = i + 1
      /\ UNCHANGED <<outputs, phase, printed, summary>>
  BY DEF CountRow, CountStatus, IInv, TypeOK
<1>2a. outputs \in [1..Len(outputs) -> Output]
  BY LenProperties DEF IInv, TypeOK
<1>2. outputs[i].status \in Statuses /\ counts \in [Statuses -> Nat]
  BY <1>1, <1>2a DEF IInv, TypeOK, Output
<1>3. \A st \in Statuses : counts[st] = Counted(i - 1, st)
  BY <1>1 DEF IInv, LoopsTrack
<1>4. \A st \in Statuses :
         Counted(i, st) = Counted(i - 1, st) + (IF outputs[i].status = st THEN 1 ELSE 0)
  <2>1. i \in Nat \ {0}
    BY <1>1
  <2>2. ASSUME NEW st \in Statuses
        PROVE  Counted(i, st) = Counted(i - 1, st) + (IF outputs[i].status = st THEN 1 ELSE 0)
    BY <2>1, CountedStep
  <2>3. QED
    BY <2>2
<1>5. \A st \in Statuses : counts'[st] = Counted(i' - 1, st)
  BY <1>1, <1>2, <1>3, <1>4
<1>6. TypeOK'
  BY <1>1, <1>2 DEF IInv, TypeOK
<1>7a. phase' \in {"count", "done"} /\ phase' # "rows" /\ phase' # "done"
  BY <1>1
<1>7b. Len(printed') = Len(outputs') /\ summary' = <<>>
  BY <1>1 DEF IInv, LoopsTrack
<1>7c. \A j \in 1..Len(printed') : printed'[j] = RowOf(outputs'[j])
  BY <1>1 DEF IInv, LoopsTrack
<1>7. LoopsTrack'
  BY <1>1, <1>5, <1>7a, <1>7b, <1>7c DEF LoopsTrack, Counted
<1>8. QED
  BY <1>1, <1>6, <1>7 DEF IInv, RowsAligned

\* The summary line prints the counters the second loop left.
LEMMA PrintSummaryIInv ==
    ASSUME IInv, PrintSummary
    PROVE  IInv'
<1>1. /\ phase = "count" /\ phase' = "done"
      /\ i = Len(outputs) + 1
      /\ summary' = counts
      /\ UNCHANGED <<outputs, i, printed, counts>>
  BY DEF PrintSummary
<1>2. TypeOK'
  BY <1>1 DEF IInv, TypeOK
<1>3a. Len(printed') = Len(outputs')
  BY <1>1 DEF IInv, LoopsTrack
<1>3b. \A st \in Statuses : counts'[st] = Counted(i' - 1, st)
  BY <1>1 DEF IInv, LoopsTrack, Counted
<1>3c. \A j \in 1..Len(printed') : printed'[j] = RowOf(outputs'[j])
  BY <1>1 DEF IInv, LoopsTrack
<1>3d. i' = Len(outputs') + 1 /\ summary' = counts'
  BY <1>1
<1>3. LoopsTrack'
  BY <1>1, <1>3a, <1>3b, <1>3c, <1>3d DEF LoopsTrack, Counted
<1>4. QED
  BY <1>1, <1>2, <1>3 DEF IInv, RowsAligned

LEMMA NextIInv == IInv /\ [Next]_vars => IInv'
<1> SUFFICES ASSUME IInv, [Next]_vars PROVE IInv'
  OBVIOUS
<1>1. CASE PrintRow
  BY <1>1, PrintRowIInv
<1>2. CASE StartCount
  BY <1>2, StartCountIInv
<1>3. CASE CountRow
  BY <1>3, CountRowIInv
<1>4. CASE PrintSummary
  BY <1>4, PrintSummaryIInv
<1>5. CASE UNCHANGED vars
  BY <1>5 DEF IInv, TypeOK, LoopsTrack, RowsAligned, Counted, vars
<1>6. QED
  BY <1>1, <1>2, <1>3, <1>4, <1>5 DEF Next

LEMMA IInvInvariant == Spec => []IInv
BY InitIInv, NextIInv, PTL DEF Spec

(* The table's variables keep their types whatever the outputs: every      *)
(* printed cell is a string of bytes and the counters are naturals.        *)
THEOREM TypeCorrect == Spec => []TypeOK
<1>1. IInv => TypeOK
  BY DEF IInv
<1>2. QED
  BY <1>1, IInvInvariant, PTL

(* writeStatusOutput's columns line up for every width of at least three   *)
(* and every name: each ASSET and COMPONENT cell that truncate and %-Ns     *)
(* print is exactly its column's width in runes.                           *)
THEOREM RowsAlignedHolds == Spec => []RowsAligned
<1>1. IInv => RowsAligned
  BY DEF IInv
<1>2. QED
  BY <1>1, IInvInvariant, PTL

(* The summary line of writeStatusOutput agrees with its table for every   *)
(* list of outputs: each counter is the number of rows with its status.    *)
THEOREM SummaryMatchesRowsHolds == Spec => []SummaryMatchesRows
<1>1. IInv => SummaryMatchesRows
  <2> SUFFICES ASSUME IInv, summary # <<>>, NEW st \in Statuses
               PROVE  summary[st] = Cardinality({j \in DOMAIN printed : printed[j].status = st})
    BY DEF SummaryMatchesRows
  <2>1. phase = "done"
    BY DEF IInv, TypeOK, LoopsTrack
  <2>2a. /\ summary[st] = Counted(Len(outputs), st)
         /\ Len(printed) = Len(outputs)
         /\ \A j \in 1..Len(printed) : printed[j] = RowOf(outputs[j])
    BY <2>1 DEF IInv, LoopsTrack
  <2>2. /\ summary[st] = Counted(Len(outputs), st)
        /\ Len(printed) = Len(outputs)
        /\ \A j \in 1..Len(printed) : printed[j].status = outputs[j].status
    BY <2>2a, RowOfStatus
  <2>3. DOMAIN printed = 1..Len(printed)
    BY DEF IInv, TypeOK
  <2>4. {j \in DOMAIN printed : printed[j].status = st}
          = {j \in 1..Len(outputs) : outputs[j].status = st}
    BY <2>2, <2>3
  <2>5. QED
    BY <2>2, <2>4 DEF Counted
<1>2. QED
  BY <1>1, IInvInvariant, PTL
-----------------------------------------------------------------------------
(* The refinement of StatusTableSpec.  The steps of the two loops are      *)
(* stutters of the abstract call; the summary line is the call itself, and  *)
(* LoopsTrack says the rows and counters it leaves are the abstract ones.  *)

LEMMA InitRefines == Init => Table!Init
<1> SUFFICES ASSUME Init PROVE Table!Init
  OBVIOUS
<1>1. PICK n \in 0..MaxRows : outputs \in [1..n -> Output]
  BY DEF Init
<1>2. outputs \in Seq(Output)
  BY <1>1, ConstantFacts
<1>3. QED
  BY <1>2 DEF Init, Table!Init, TableDone, TablePrinted

\* A step of the loops that does not print the summary leaves the call pending.
LEMMA LoopStepStutters ==
    ASSUME phase # "done", phase' # "done", UNCHANGED <<outputs, summary>>
    PROVE  UNCHANGED Table!avars
BY DEF Table!avars, TableDone, TablePrinted

\* The first loop has printed, in order, the row of each output.
LEMMA PrintedTable ==
    ASSUME IInv, phase \in {"count", "done"}
    PROVE  printed = [j \in 1..Len(outputs) |-> RowOf(outputs[j])]
<1>1. printed \in Seq(Row)
  BY DEF IInv, TypeOK
<1>2. printed = [j \in 1..Len(printed) |-> printed[j]]
  BY <1>1
<1>3. Len(printed) = Len(outputs) /\ \A j \in 1..Len(printed) : printed[j] = RowOf(outputs[j])
  BY DEF IInv, LoopsTrack
<1>4. QED
  BY <1>2, <1>3

\* The second loop has counted, for each status, the outputs that carry it.
LEMMA CountedTable ==
    ASSUME IInv, phase = "count", i = Len(outputs) + 1
    PROVE  counts = [st \in Statuses |-> Table!CountOf(st)]
<1>1. counts \in [Statuses -> Nat]
  BY DEF IInv, TypeOK
<1>2. \A st \in Statuses : counts[st] = Counted(Len(outputs), st)
  BY DEF IInv, LoopsTrack
<1>3. \A st \in Statuses : Table!CountOf(st) = Counted(Len(outputs), st)
  BY DEF Table!CountOf, Counted, Table!Cardinality, Cardinality
<1>4. QED
  BY <1>1, <1>2, <1>3

\* The summary line completes the call.
LEMMA PrintSummaryRefines ==
    ASSUME IInv, PrintSummary
    PROVE  Table!Write
<1>1. /\ phase = "count" /\ phase' = "done"
      /\ i = Len(outputs) + 1
      /\ summary' = counts
      /\ UNCHANGED <<outputs, i, printed, counts>>
  BY DEF PrintSummary
<1>2. printed = [j \in 1..Len(outputs) |-> RowOf(outputs[j])]
  BY <1>1, PrintedTable
<1>3. counts = [st \in Statuses |-> Table!CountOf(st)]
  BY <1>1, CountedTable
<1>4. ~TableDone /\ TableDone' = TRUE /\ TablePrinted' = printed'
  BY <1>1 DEF TableDone, TablePrinted
<1>5. QED
  BY <1>1, <1>2, <1>3, <1>4 DEF Table!Write, Table!CountOf

LEMMA NextRefines == IInv /\ [Next]_vars => [Table!Write]_Table!avars
<1> SUFFICES ASSUME IInv, [Next]_vars PROVE [Table!Write]_Table!avars
  OBVIOUS
<1>1. CASE PrintRow \/ StartCount \/ CountRow
  BY <1>1, LoopStepStutters DEF PrintRow, StartCount, CountRow
<1>2. CASE PrintSummary
  BY <1>2, PrintSummaryRefines
<1>3. CASE UNCHANGED vars
  BY <1>3 DEF vars, Table!avars, TableDone, TablePrinted
<1>4. QED
  BY <1>1, <1>2, <1>3 DEF Next

(* For every width, every set of names and every number of outputs,        *)
(* writeStatusOutput implements its promise: when it returns it has        *)
(* printed the row of each output in order and the summary of their        *)
(* statuses, and before that it has claimed neither.                       *)
THEOREM ImplementsTableSpecHolds == Spec => ImplementsTableSpec
<1>1. QED
  BY InitRefines, NextRefines, IInvInvariant, PTL
     DEF Spec, ImplementsTableSpec, Table!Spec
=============================================================================
