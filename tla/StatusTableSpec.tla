---------------------------- MODULE StatusTableSpec ----------------------------
(***************************************************************************)
(* What writeStatusOutput promises its caller: one call prints, in the     *)
(* order of the outputs, the row of each output, then a summary line with   *)
(* the number of outputs of each status.  The call is one atomic step: the  *)
(* two loops and the order they run in are the implementation's business.   *)
(***************************************************************************)
EXTENDS Naturals, Sequences, FiniteSets

CONSTANTS
    Output,    \* the render outputs the call may be given
    Statuses,  \* the statuses the summary line counts
    RowOf(_)   \* the row printed for an output

VARIABLES
    outputs,  \* the outputs passed to the call
    done,     \* the call has returned
    table,    \* the rows printed, once the call has returned
    summary   \* the counters of the summary line; <<>> before it

avars == <<outputs, done, table, summary>>

Init ==
    /\ outputs \in Seq(Output)
    /\ done = FALSE
    /\ table = <<>>
    /\ summary = <<>>

\* The number of the outputs that carry status st.
CountOf(st) == Cardinality({j \in 1..Len(outputs) : outputs[j].status = st})

\* The call: the table of the outputs' rows and the summary of their statuses.
Write ==
    /\ ~done
    /\ done' = TRUE
    /\ table' = [j \in 1..Len(outputs) |-> RowOf(outputs[j])]
    /\ summary' = [st \in Statuses |-> CountOf(st)]
    /\ UNCHANGED outputs

Spec == Init /\ [][Write]_avars
=============================================================================
