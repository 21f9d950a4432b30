----------------------- MODULE TriangularArbitrageBot -----------------------
(***************************************************************************)
(* The whole bot: a feed of order books, the server that evaluates them,   *)
(* and the file that the evaluations are written to.  One step is one      *)
(* handler of the client, with the server's on_update and the writer's     *)
(* write inside.  The bot may end at any time and be started again with    *)
(* the same environment, on the same file.                                 *)
(*                                                                         *)
(* The client is taken as the feed that it implements, and the disk does   *)
(* not fail: BinanceClient and TradeFileWriter cover the rest.             *)
(*                                                                         *)
(* A definition whose name starts with Slip is a plausible mistake in the  *)
(* definition that follows it and is used nowhere else.                    *)
(***************************************************************************)
EXTENDS Configuration, FiniteSets, SequencesExt

CONSTANTS
  MaxPublished,  \* bound: updates the exchange publishes
  MaxUnheard,    \* bound: updates in flight or missed
  MaxStarts,     \* bound: processes
  Symbols,       \* the streams of BINANCE_STREAM_TARGET
  Ticks,         \* order books [bids, asks] that an update may bring
  Paths,         \* what BINANCE_ARBITRAGE_PATH may say
  Environments   \* what the other variables of the environment may say

ASSUME BoundsAssumption == MaxPublished \in Nat /\ MaxUnheard \in Nat /\ MaxStarts \in Nat

VARIABLES
  alive, connected, published, carried, subscribed, delivered,
  path, config, pairToPriceMap, ticksRemaining, startingNotional,
  currentNotional, status, result, age,
  file, buffer, is_open, running, failures, starts, results, base, since,
  first, announced, unsettled,
  stream,  \* for every update published, its symbol
  rows,    \* history: for every result, what the writer was given
  outcome  \* history: for every update that reached the server, what it came to

Feed   == INSTANCE MarketFeed
Server == INSTANCE ArbitrageServer WITH
            MaxAge <- MaxPublished, Configs <- {server_config(env) : env \in Environments}
Writer == INSTANCE TradeFileWriter WITH MaxResults <- MaxPublished, MaxFailures <- 0

Analysis == INSTANCE TradeAnalysis

feedVars   == <<alive, connected, published, carried, subscribed, delivered>>
serverVars == <<path, config, pairToPriceMap, ticksRemaining, startingNotional,
                currentNotional, status, result, age>>
writerVars == <<file, buffer, is_open, running, failures, starts, results, base,
                since, first, announced, unsettled>>
vars == <<feedVars, serverVars, writerVars, stream, rows, outcome>>

-----------------------------------------------------------------------------
(* Data.                                                                   *)

OrderBookTick(u, s, b, a) == [updateId |-> u, symbol |-> s, bids |-> b, asks |-> a]

\* Update u of the feed, with this order book as its data.
to_struct(u, book) == OrderBookTick(u, stream[u], book.bids, book.asks)

\* What a result says of the update and of the round trip.
ArbitrageResult(tick, evaluation) ==
  [updateId             |-> tick.updateId,
   process              |-> starts,
   unrealisedPnl        |-> Minus(evaluation.newNotional, evaluation.tradedNotional),
   tradedNotional       |-> evaluation.tradedNotional,
   isArbitrageOpportunity |-> evaluation.arbitrageOpportunity]

-----------------------------------------------------------------------------
Init ==
  /\ Feed!Init /\ Server!Init /\ Writer!Init
  /\ stream = <<>> /\ rows = <<>> /\ outcome = <<>>

\* A new server knows no books.
NewServer ==
  /\ pairToPriceMap' = [s \in {} |-> {}]
  /\ ticksRemaining' = 0
  /\ startingNotional' = Server!Indeterminate
  /\ currentNotional' = Zero
  /\ status' = "running" /\ result' = Server!Waiting /\ age' = -1

\* main reads the environment and builds writer, server and client.  (Without
\* BINANCE_UPDATE_FILE_PATH there is no writer, which leaves as little behind
\* as one that could not open its file.)
main ==
  /\ Feed!Start
  /\ Writer!TradeFileWriter
  /\ NewServer
  /\ UNCHANGED <<path, config, stream, rows, outcome>>

Publish(symbol) ==
  /\ Feed!Publish /\ published - Cardinality(DOMAIN outcome) < MaxUnheard
  /\ stream' = Append(stream, symbol)
  /\ UNCHANGED <<serverVars, writerVars, rows, outcome>>

\* Neither the end of a connection nor a new one reaches the server.
Connect == Feed!Connect /\ UNCHANGED <<serverVars, writerVars, stream, rows, outcome>>

Disconnect == Feed!Disconnect /\ UNCHANGED <<serverVars, writerVars, stream, rows, outcome>>

SlipRecord(tick) ==
  IF result'.kind = "recorded" /\ result'.arbitrageOpportunity
  THEN Writer!write(results + 1) /\ rows' = Append(rows, ArbitrageResult(tick, result'))
  ELSE UNCHANGED <<writerVars, rows>>

\* A result is written before on_update returns.
Record(tick) ==
  IF result'.kind = "recorded"
  THEN Writer!write(results + 1) /\ rows' = Append(rows, ArbitrageResult(tick, result'))
  ELSE UNCHANGED <<writerVars, rows>>

\* What the updates came to, with that of one more.
Known(id, what) ==
  [u \in DOMAIN outcome \cup {id} |-> IF u = id THEN what ELSE outcome[u]]

\* The next update reaches the server.  An exception of on_update ends the
\* process.
on_read(book) ==
  /\ Feed!Position < carried
  /\ LET tick == to_struct(Feed!Position + 1, book) IN
     /\ Server!on_update(tick.symbol, tick)
     /\ \/ status' = "running" /\ Feed!Deliver(FALSE) /\ Record(tick)
        \/ status' # "running" /\ Feed!Deliver(TRUE) /\ Writer!Terminate /\ UNCHANGED rows
     /\ outcome' = Known(tick.updateId,
                         IF status' = "running" THEN result'.kind ELSE "exception")
  /\ UNCHANGED stream

\* A malformed message or a signal.
Die == Feed!Die /\ Writer!Terminate /\ UNCHANGED <<serverVars, stream, rows, outcome>>

Next ==
  \/ main
  \/ \E symbol \in Symbols : Publish(symbol)
  \/ Connect
  \/ Disconnect
  \/ \E book \in Ticks : on_read(book)
  \/ Die

Spec == Init /\ [][Next]_vars

-----------------------------------------------------------------------------
(* Properties.                                                             *)

\* Books are as old as the last update of their symbol that the bot could
\* have had: only what was published before the current connection can be
\* newer.  (So a book of an old connection is evaluated together with new
\* ones only until its own symbol is heard on the new connection.)
BooksLagOnlyByOutage ==
  alive =>
    \A s \in DOMAIN pairToPriceMap :
      \A u \in (pairToPriceMap[s].updateId + 1)..Feed!Position :
        stream[u] = s => u <= subscribed

\* The exception of the sizing ends a process only before its first result,
\* at the third symbol it ever hears of: reconnecting brings no new danger.
DiesOnlyBeforeFirstResult ==
  status = "terminated" =>
    /\ Cardinality(DOMAIN pairToPriceMap) = 3
    /\ results < first

\* Across reconnections and restarts the file is in the order of the updates
\* and has each at most once.
FileIsInOrder ==
  \A i, j \in DOMAIN file :
    i < j /\ file[i] > 0 /\ file[j] > 0 =>
      rows[file[i]].updateId < rows[file[j]].updateId

\* The analysis takes adjacent lines for consecutive updates (of what a line
\* says of its update, the message and two times, it uses a time, and that only
\* for durations).  Between adjacent lines of one process lie only updates that
\* the bot missed without a connection and updates that the server dropped.
GapsAreExplained ==
  \A i, j \in DOMAIN file :
    /\ i < j /\ file[i] > 0 /\ file[j] > 0
    /\ \A k \in (i + 1)..(j - 1) : file[k] <= 0
    /\ rows[file[i]].process = rows[file[j]].process
    => \A u \in (rows[file[i]].updateId + 1)..(rows[file[j]].updateId - 1) :
         u \in DOMAIN outcome => outcome[u] = "dropped"

\* The results whose text is in the file, in its order.
Kept == SelectSeq(file, LAMBDA token : token > 0)

\* gather_data.py: "Finds the nth group of consecutive arbitrage
\* opportunities, returning all data points in that sequence."
OpportunitiesAreConsecutive ==
  \A n \in 0..Len(Kept) :
    LET group == Analysis!get_nth_opportunity_path_df([i \in DOMAIN Kept |-> rows[Kept[i]]], n)
    IN  \A i \in 1..(Len(group) - 1) : group[i + 1].updateId = group[i].updateId + 1
=============================================================================
