--------------------------- MODULE TradeAnalysis ---------------------------
(***************************************************************************)
(* The analysis of a recorded file: rows flagged as opportunities are      *)
(* grouped, every group is summarised, and the summaries are counted in    *)
(* bins.  The scripts are chains of Polars expressions; a data frame is a  *)
(* sequence of records here, in the order of the file.                     *)
(*                                                                         *)
(* A definition whose name starts with Slip is a plausible mistake in the  *)
(* definition that follows it and is used nowhere else.                    *)
(***************************************************************************)
EXTENDS Doubles, Subsequences, SequencesExt

-----------------------------------------------------------------------------
(* gather_data.py                                                          *)

SlipPrevious(df, i) == i < Len(df) /\ df[i + 1].isArbitrageOpportunity

\* shift(1).fill_null(False)
Previous(df, i) == i > 1 /\ df[i - 1].isArbitrageOpportunity

StartsGroup(df, i) == df[i].isArbitrageOpportunity /\ ~Previous(df, i)

\* The cumulative sum of the starts.
with_groups(df) ==
  [i \in DOMAIN df |->
     [c \in DOMAIN df[i] \cup {"group_id"} |->
        IF c = "group_id" THEN Cardinality({j \in 1..i : StartsGroup(df, j)}) ELSE df[i][c]]]

opportunities(df) == Selected(df, {i \in DOMAIN df : df[i].isArbitrageOpportunity})

get_grouped_opportunity_path_df(df) == opportunities(with_groups(df))

\* unique().sort()
GroupIds(grouped) == Ascending({grouped[i].group_id : i \in DOMAIN grouped})

OfGroup(grouped, id) == Selected(grouped, {i \in DOMAIN grouped : grouped[i].group_id = id})

\* n counts from zero; there may be no such group.
get_nth_opportunity_path_df(df, n) ==
  LET grouped == get_grouped_opportunity_path_df(df)
      ids     == GroupIds(grouped)
  IN  IF n >= Len(ids) THEN <<>> ELSE OfGroup(grouped, ids[n + 1])

Return(row) == Times(Over(row.unrealisedPnl, row.tradedNotional), Double(100))

Mean(column) == Over(FoldLeft(Plus, Zero, column), Double(Len(column)))

SlipMeanReturn(pnls, notionals) ==
  Times(Over(Mean(pnls), notionals[1]), Double(100))

MeanReturn(pnls, notionals) == Times(Over(Mean(pnls), Mean(notionals)), Double(100))

Summary(group) ==
  LET pnls      == [i \in DOMAIN group |-> group[i].unrealisedPnl]
      notionals == [i \in DOMAIN group |-> group[i].tradedNotional]
  IN  [Return                |-> Return(Head(group)),
       Duration              |-> Last(group).tickReceiveTime - Head(group).tickReceiveTime,
       TradedNotional        |-> Head(notionals),
       AverageReturn         |-> MeanReturn(pnls, notionals),
       AverageTradedNotional |-> Mean(notionals)]

\* group_by keeps no order of the groups; here they come by id.
summarise_arbitrages_by_group(grouped) ==
  LET ids == GroupIds(grouped)
  IN  [n \in DOMAIN ids |-> Summary(OfGroup(grouped, ids[n]))]

-----------------------------------------------------------------------------
(* visualise_data.py                                                       *)

SlipCut(value, bins) == 1 + Cardinality({i \in DOMAIN bins : AtMost(bins[i], value)})

\* Bin 1 ends at the first break, the last bin has no end; a value that is a
\* break belongs to the bin it ends.
cut(value, bins) == 1 + Cardinality({i \in DOMAIN bins : Less(bins[i], value)})

\* cum_sum
RunningTotal(column) == [k \in DOMAIN column |-> FoldLeft(+, 0, SubSeq(column, 1, k))]

\* One row for every bin that is not empty, sorted by bin.
create_frequency_table_df(values, bins) ==
  LET categories  == [i \in DOMAIN values |-> cut(values[i], bins)]
      present     == Ascending({categories[i] : i \in DOMAIN categories})
      frequencies == [k \in DOMAIN present |->
                        Cardinality({i \in DOMAIN values : categories[i] = present[k]})]
      totals      == RunningTotal(frequencies)
  IN  [k \in DOMAIN present |->
         [bin |-> present[k], Frequency |-> frequencies[k], Total |-> totals[k]]]
=============================================================================
