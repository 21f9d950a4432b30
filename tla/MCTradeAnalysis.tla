-------------------------- MODULE MCTradeAnalysis --------------------------
(***************************************************************************)
(* The analysis of every short file.  A step appends a row.                *)
(***************************************************************************)
EXTENDS TradeAnalysis

CONSTANTS
  MaxRows,    \* bound: rows of the file
  Pnls,       \* what rows may say
  Notionals,
  Gaps        \* time between two rows

ASSUME RowAssumption ==
  /\ MaxRows \in Nat /\ Gaps \subseteq Nat
  /\ Pnls \subseteq Finite /\ Notionals \subseteq Amounts

VARIABLE df

Now == IF df = <<>> THEN 0 ELSE Last(df).tickReceiveTime

Init == df = <<>>

\* An opportunity, or a row of no interest.
AppendRow(opportunity, pnl, notional, gap) ==
  /\ Len(df) < MaxRows
  /\ df' = Append(df, [isArbitrageOpportunity |-> opportunity,
                       unrealisedPnl |-> pnl, tradedNotional |-> notional,
                       tickReceiveTime |-> Now + gap])

Next ==
  \/ \E pnl \in Pnls, notional \in Notionals, gap \in Gaps : AppendRow(TRUE, pnl, notional, gap)
  \/ AppendRow(FALSE, Zero, One, 1)

Spec == Init /\ [][Next]_df

\* With them returns lie on breaks, between them and beyond the last one.
SomePnls      == {Double(0), Double(1), Double(3)}
SomeNotionals == {Double(1), Double(2)}

-----------------------------------------------------------------------------
(* Properties.                                                             *)

\* The rows first..last are opportunities and no longer run contains them.
IsRun(first, last) ==
  /\ \A i \in first..last : df[i].isArbitrageOpportunity
  /\ first > 1 => ~df[first - 1].isArbitrageOpportunity
  /\ last < Len(df) => ~df[last + 1].isArbitrageOpportunity

Runs == {run \in (1..Len(df)) \X (1..Len(df)) : run[1] <= run[2] /\ IsRun(run[1], run[2])}

\* The n-th run, counted from zero, or no rows.
NthRun(n) ==
  LET earlier(run) == {other \in Runs : other[1] < run[1]}
      nth == {run \in Runs : Cardinality(earlier(run)) = n}
  IN  IF nth = {} THEN <<>>
      ELSE LET run == CHOOSE run \in nth : TRUE IN SubSeq(df, run[1], run[2])

WithoutId(rows) == [i \in DOMAIN rows |-> [c \in DOMAIN rows[i] \ {"group_id"} |-> rows[i][c]]]

\* What the docstrings of the two grouping functions say: the n-th group is
\* the n-th longest sequence of adjacent opportunities, also when the file
\* starts or ends with one.
GroupsAreRuns ==
  \A n \in 0..Len(df) : WithoutId(get_nth_opportunity_path_df(df, n)) = NthRun(n)

Summaries == summarise_arbitrages_by_group(get_grouped_opportunity_path_df(df))
Durations == [n \in DOMAIN Summaries |-> Summaries[n].Duration]

\* One summary for every group; its average return (a quotient of two means,
\* not the mean of quotients) lies between the returns of the group's rows,
\* and together the groups last no longer than the recording.
SummariesFit ==
  /\ Len(Summaries) = Cardinality(Runs)
  /\ \A n \in DOMAIN Summaries :
       LET group == NthRun(n - 1)
           average == Summaries[n].AverageReturn
       IN  /\ \E i \in DOMAIN group : AtMost(Return(group[i]), average)
           /\ \E i \in DOMAIN group : AtMost(average, Return(group[i]))
  /\ FoldLeft(+, 0, Durations) <= Now

Breaks == <<Double(0), Double(50), Double(100), Double(200)>>
Returns == [n \in DOMAIN Summaries |-> Summaries[n].Return]

\* Although empty bins have no row, the running total of a row counts all
\* values up to the end of its bin, and the last one counts every value.
TotalsAreCumulative ==
  LET table == create_frequency_table_df(Returns, Breaks)
  IN  /\ \A k \in DOMAIN table :
           table[k].Total =
             IF table[k].bin > Len(Breaks) THEN Len(Returns)
             ELSE Cardinality({n \in DOMAIN Returns : AtMost(Returns[n], Breaks[table[k].bin])})
      /\ table # <<>> => table[Len(table)].Total = Len(Returns)
=============================================================================
