# TriangularArbitrageSim in TLA+

The program under `src/` listens to the order books of a few Binance streams,
looks for a triangular arbitrage along one configured path, and appends every
evaluation to a file that Python scripts analyse later. Nothing is traded. These
modules model the program's control and arithmetic, part by part and as a whole. TLC
checks them on small instances, and TLAPS proves the central invariants for every value
of the constants.

## Inventory

| Part | State | Operations | Interacts with |
|---|---|---|---|
| `main.cpp` | `io_context`, work guard, configuration from the environment | build path and configuration, register the server, connect, run | creates all other parts; an exception from any handler ends it |
| `BinanceClient` (`exchange/`) | stream `ws`, `buffer`, `reconnect_timer`, outstanding asynchronous operations | `async_connect`, `on_resolve`, `on_connect`, `on_ssl_handshake`, `on_ws_handshake`, `on_read`, the timer's lambda | exchange over the network; calls `Server::on_update` from `on_read` |
| `Server` (`server/arbitrage_server`) | `pairToPriceMap`, `ticksRemainingBeforeRecalc`, `startingNotional`, `currentNotional` | `on_update`, `recalcStartingNotional` | called by the client; calls the calculator and the writer |
| calculator (`server/arbitrage_calculator`) | none | two average prices, effective rate, two sizings | pure functions |
| `TradeFileWriter` (`file/`) | output stream and its buffer | `write`, reopen after an error | called by the server; the file system |
| `ArbitragePath` (`common/trade_leg.h`) | three legs | `from_string` | configuration of the server |
| analysis (`analysis/src`) | none | group opportunities, summarise, plot | reads the writer's file |
| build, container, scripts, tests | - | - | - |

All C++ handlers run on one strand of one thread, so there is no data race. What is
hard is the order of events: completions and failures of asynchronous operations,
reconnections, exceptions that leave a handler half done, books that change under an
old sizing, symbols that arrive in any order, and boundary values of the arithmetic.
`PROJECT.json` lists these hazards line by line.

What makes each part correct:

* client: one operation outstanding at a time, each on a stream that is ready for it;
  an open connection loses, repeats and reorders no message; a reconnection comes to
  an end;
* server: nothing is read before it is there; the trade is sized when the
  configuration says so; what is recorded can be executed on the current books;
* calculator: the average prices are those of the best execution, and the sizing fits
  the books;
* writer: an open file is complete, what is lost is reported, and a failure spoils
  only the lines next to it;
* path: exactly three legs, in the given order;
* analysis: adjacent opportunities, and only those, form a group, and a table counts
  every group once;
* the whole: books are never older than the connection explains, a process dies early or
  not at all of its own exceptions, and the file keeps the order of the market.

## Modules

**`BinanceClient`** models the client. `pending` counts the outstanding
operations of each kind, `ws` says what the current stream object has reached, and there
is one action per completion handler, with the error code as its parameter. `on_read`
has three actions: closed by the peer, any other error, and a message. A message is
parsed, handed to the server and consumed in one step, as in the code; an exception of
the parser or the server skips the rest of the handler and ends the process. The
network is external: `Publish` puts a message on the wire of an open connection, and
`ec` decides freely whether an operation succeeds. The histories `subscribed`,
`delivered` and `restarting` exist for the properties only.

**`MarketFeed`** is what a client promises to the server: a process starts, connects,
is given what is published from then on, each update once and in order, until the
connection ends, falls silent, or the process dies. `BinanceClient` implements it with
`status = "running"` as `alive`, an open stream as `connected`, and the last message on
the wire as `carried`: `ImplementsFeed` is `Feed!FairSpec` of that instance. A connection
falls silent when `Publish` leaves an update off the wire of an open stream; from then
on it carries nothing, because a later TCP segment is not delivered without the earlier
one.

**`Configuration`** is what `main` makes of the environment: the defaults, the comparison with
the text `"true"`, and the factors that `ServerConfig` keeps instead of a threshold and
a fee.

**`Doubles`** is the arithmetic: a double is a reduced fraction, with infinity and NaN
for divisions by zero. There is no rounding, so the code's tolerances
(`EPSILON` in `calculateVwapBid` and `calculateVwapAsk`) are zero.

**`ArbitrageCalculator`** has one operator per function of `arbitrage_calculator.cpp`,
written as folds over the levels. `Least` is `std::min` of an initializer list,
including what it does with NaN.

**`ArbitrageServer`** models `on_update` as one action: the book is stored, then the server
waits for three symbols, or dies of the exception in the sizing, or sizes when due
and evaluates the three legs. Path and configuration are chosen in `Init` and never
change. Ticks are counted in halves, because the code's counter is a double and its
interval may be fractional or negative. Undefined behaviour is the status
`"undefined"`. `result` is what the last call came to (it is also what the writer
would be given), and `age` counts evaluations since the last sizing.

**`TradeFileWriter`** models the writer and the output stream under it. File and buffer
are sequences of tokens: a text, the end of a line, or a fragment of a text. The
operators of the stream (`Insert`, `Close`) give the set of states that an insertion or
a close may leave, and `write` is one action that chains them as the code
does: insert the text, insert the end of the line unless the stream went bad, and if it
did, close and reopen. The stream is external. It follows libstdc++, with which the
container is built: an insertion is either buffered or written together with the whole buffer; a
failing write may leave any part of that in the file and keeps the buffer; `close`
tries to write the buffer again. `TradeFileWriter` is the constructor in a new process
on the same file, and `Terminate` ends a process, which always loses the buffer because no code path
runs the destructor.

**`ArbitragePath`** is `from_string` on texts already split at commas and colons, which
are the only characters it looks for.

**`Subsequences`** has what sorting and filtering return, for a text whose empty segments
are skipped and for the data frames of the scripts: the numbers of a set in order
(`Ascending`) and the elements of a sequence at some of its indices (`Selected`). Both are
functions of an index and no recursion, so that they can be reasoned about.

**`TradeAnalysis`** is the part of the Python scripts that computes: data frames are
sequences of records, and every Polars expression chain is one operator.

**`TriangularArbitrageBot`** composes `MarketFeed`, `ArbitrageServer`, `TradeFileWriter`
and `TradeAnalysis`. Its step `on_read` is one call of the client's handler with the
server's `on_update` and the writer's `write` inside, as in the code: an update is
evaluated and its result written before the next one is read, and an exception of
`on_update` ends the client and the writer with the server. `main` starts a process, or another one after
the first has ended, with a new server and the old file. An update carries its number
in the feed, which the server stores with the book. The disk does not fail here, and
the client is the feed that it implements: their own modules cover what is left out.
The histories `rows` and `outcome` say what the file and its gaps stand for.

**`MCArbitrageCalculator`**, **`MCArbitragePath`**, **`MCArbitrageServer`**,
**`MCTradeAnalysis`** and **`MCTriangularArbitrageBot`** are the instances for
TLC. The configurations of the client and the writer need only numbers and use the module itself.

**`BinanceClientProofs`**, **`ArbitrageServerProofs`**, **`TradeFileWriterProofs`**,
**`TriangularArbitrageBotProofs`**, **`MCArbitrageCalculatorProofs`** and
**`ParserAndAnalysisProofs`** hold the
proofs about the specifications. **`DataProofs`** (the greatest common divisor,
reduced fractions, the laws of an ordered field for the finite doubles, folds of the
community modules, sums, sorted and selected elements) and **`ArbitrageCalculatorProofs`**
(sums over a side, the least of the bounds, the two loops over a side, the ways to split
an order) hold lemmas that these rest on.

A definition whose name starts with `Slip` is a plausible mistake in the definition
after it. No specification uses it: substituted for the right one it must break the
property that `PROJECT.json` names beside it.

## Runs

| Run | Module and configuration | Shows |
|---|---|---|
| `client` | `BinanceClient.cfg` | every order of completions, failures, publications and silences: `OneOperationOutstanding`, `HandshakesInOrder`, `CleanBuffer`, `NothingLostWhileOpen`, `ResetsOnlyIdleStream`; what must happen: `NewsArrivesUnlessSilent`, `BackoffSettlesUnlessStalled`; and `ImplementsFeed`: the client is a feed, fairness included |
| `client_restart` | `BinanceClient_restart.cfg` | a violation, see below |
| `average_prices` | `MCArbitrageCalculator.cfg` | `SellsAtBestSplit`, `BuysAtBestSplit`: the loops over the book against the best of all splits of the order |
| `server_sizing` | `MCArbitrageServer_sizing.cfg` | `SizedZeroIffSideEmpty`, `FirstLevelSizingFits` and `FreshDropIsFavourable` of a fresh sizing, and `RecordedTradeIsExecutable` also of one that is an evaluation old |
| `server_schedule` | `MCArbitrageServer_schedule.cfg` | `TypeOK`, `NoUndefinedBehaviour`, `SizedOnSchedule` |
| `writer` | `TradeFileWriter.cfg` | `OpenFileIsComplete`, `LossIsAnnounced`, `DamageIsBounded` under disk failures and restarts |
| `writer_newline` | `TradeFileWriter_newline.cfg` | a violation, see below |
| `path_parser` | `MCArbitragePath.cfg` | `PathStandsInText`: parsing inverts formatting |
| `path_legs` | `MCArbitragePath_legs.cfg` | a violation, see below |
| `analysis` | `MCTradeAnalysis.cfg` | `GroupsAreRuns`, `SummariesFit`, `TotalsAreCumulative` on every short file |
| `bot` | `MCTriangularArbitrageBot.cfg` | `BooksLagOnlyByOutage`, `DiesOnlyBeforeFirstResult`, `FileIsInOrder` and `GapsAreExplained` across reconnections and restarts |
| `bot_groups` | `MCTriangularArbitrageBot_groups.cfg` | a violation, see below |

`client_restart` checks what the log line "Restarting connection due to unexpected
error" announces and finds it untrue: if name resolution, the connect or a handshake
fails in the new attempt, its handler only logs the failure. Nothing is outstanding
then, but the work guard of `main` keeps the process alive. The likeliest reason for a
read error, a lost network, is also the likeliest reason for the next resolution to fail.

`writer_newline` checks "on a new line" of the comment on `write()`. A write that fails
half way leaves a fragment without an end of line, and nothing ends that line before more is written.
In the run `close()` is what writes next: it writes the buffer, which still holds the whole text, directly behind the
fragment (the reopening then fails, which does not matter). If the buffer is empty or closing fails too, it is the first text after a
successful reopening that follows the fragment. `DamageIsBounded` says how far this goes: two lines per failure (a failing end
of line can spoil one when the buffer is written again and one after it) and
one per end of a process. `LossIsAnnounced` holds only as long as closing succeeds and the file can
be opened again; after that results vanish without a message.

`path_legs` checks "there must only be 3 legs" of the comment on `from_string`. Every
other malformed text is refused with an exception, but the legs are not counted: two legs are
read out of bounds, a fourth is ignored.

`bot_groups` checks "the nth group of consecutive arbitrage opportunities" of the docstring in
`gather_data.py` and finds groups that are adjacent only in the file: the run records
an opportunity, drops the next update because the third leg cannot take what an even
better market brings (see `FreshDropIsFavourable` below), and records another one. Neither the
drop nor an update missed between two connections leaves a line, and nothing in the groups
shows it. A line does hold the message, with its `lastUpdateId`, and the times at which it was received
and evaluated, but `gather_data.py` groups by adjacency alone and uses of these only a time, for
durations. `GapsAreExplained` says that nothing else can be
missing between two lines of one process.

`BooksLagOnlyByOutage` bounds how wrong an evaluation can be after a reconnection. The
server does not learn of one and keeps its books, so the first evaluations use
new books of some symbols and old books of others. Each book is replaced as soon as its own
symbol is heard again, and nothing else can make it lag. `DiesOnlyBeforeFirstResult`
excludes a late death: the exception of the sizing, for which nothing in the code waits, needs
a third symbol that is not the last one of the path, and books are never forgotten.

`FreshDropIsFavourable` says something the code does not mention. A fresh sizing bounds
the third leg by what it pays out at the sizing's prices. A round trip that gains
pays out more than it was given, so the third leg may need more than its side has; the
update is then dropped without a record, and it is exactly an opportunity that is dropped. When the
whole book is used, the second leg can fall short in the same way, because a partial
order on the first leg gets a better price than the average of its side.
`FirstLevelSizingFits` is the other half: a sizing on the first level moves no price on
the first two legs, and on the third only when the round trip gains. Both presuppose
`WithinSizing`: a share of the notional above zero and at most all of it, and a fee that
does not pay. The code checks neither number, and both properties are false without it
(half of a notional fits where twice of it does not).

### Bounds

* Client: six published messages. The number of reconnections is not
  bounded; four messages allow a message before a connection, two in flight on it and
  one after it.
* Average prices: prices 1 to 3, quantities 1 and 2, up to three levels, amounts 0 to 7.
  Orders end inside a level, exactly at the end of a level, exactly at the end
  of the side, and beyond it. Both properties are proved for all bounds.
* Server: five books (one or two levels, either side empty) for each of three symbols and all
  eight directions of the path, so that each leg is the bottleneck and paths gain and
  lose. The configurations are the defaults of `main`, and a fee of one tenth with half the
  notional and a threshold of one half, both sized at every evaluation, and the defaults sized at every second one.
  `server_schedule` needs only one book but has four symbols, a path with a
  symbol that never arrives, and intervals of 0, 1, 2, one half and -1 evaluations.
  `MaxAge` bounds how long a sizing that is never refreshed is followed.

* Writer: four results, two failures of the disk, two processes. Two failures in one write
  (the insertion and then the close) happen within them, as do a failure in each process and
  results before, between and after.
* Path parser: texts of up to four of eleven segments, which put colons and empty pieces
  in front of, inside and behind symbols and actions, and allow one leg too many. The
  property is proved for every text.

* Analysis: files of up to five rows, with three profits and two notionals. Groups at the start, at the end
  and in the middle of a file, alone and next to another, fit into five rows; returns lie
  on breaks, between them and beyond the last one. The three properties are proved for
  every file.
* Bot: `MaxUnheard` bounds the updates in flight or missed, counted over the whole run, and is two,
  so that one may be missed and others delivered after it. The first evaluation needs three updates. One
  process is followed for five (`OneProcess`): a result, an outage with an update missed in it, and a
  result from old and new books; or a result of each of two updates and a drop in between. What
  is missed before anything is heard is as if it were not published, and is left out. A
  second process on the same file, after a first one with a result and at most three updates, is followed for three
  more and until it ends, enough for a result of its own behind what is left of the first one's lines
  (`SecondProcess`). There no update is missed and only the path's symbols are heard. There are four symbols, one of them off the path (with one update and one book, `OffPath`), and two order
  books, with which the path gains, loses and cannot be traded. These three bounds are the state
  constraint `Explored` of `MCTriangularArbitrageBot`. `bot_groups` has three symbols and one process and needs no constraint. All four properties of
  `bot`, which longer runs might concern, are proved for all bounds.

Deadlock checking is off in every run: a client whose chain of handlers ended, a
terminated process and a computation that is done all stop by design of the code.

### Fairness

`FairSpec` of the client assumes weak fairness of `main`, of the TCP connect (limited
to 30 seconds in `on_resolve`), of the WebSocket handshake (limited by Beast's suggested
client timeouts), of the reconnect timer, and of a read for which bytes have arrived or
been lost. It does not assume that name resolution or the TLS handshake complete:
the code sets no limit for the first and switches the limit off before the second.
`BackoffSettlesUnlessStalled` names the two as its premise. Nor does it assume that a
read on a silent connection completes: the suggested client timeouts have no idle
limit. `NewsArrivesUnlessSilent` says what follows: what is published on an open
connection reaches the server, or the connection ends, or it is silent and stays so
without being noticed. Under the same assumptions the client has the fairness of the
feed: what was brought does not wait for ever. The server and the writer are sequential and need
no fairness, and the composed bot is checked for safety only.

## Proofs

`BinanceClientProofs` proves every safety property of `client` for any number of
messages. The inductive invariant `IInv` adds to the properties that only a running
process has operations outstanding, that a pending resolution has a fresh stream, that the buffer is
empty between handlers unless the process died, and that only an open connection
carries messages. `OneOperationOutstanding` is what makes it inductive: with it
`Continue` moves the one outstanding operation to its successor (`ContinueMoves`) and
`Stop` leaves none (`StopEnds`), so that each action needs to be checked for its successor
only (`OnlyOne`, `NoneLeft`). `NothingLostWhileOpen` is stated through `Cursor`, the last
message that left the connection, and follows because the head of the wire is always
the message after it (`HeadFollowsCursor`).

The last part of `BinanceClientProofs` shows step by step that the client implements the safety part
of the feed (`Refinement`). Every step but five is invisible there (`Invisible`). A
successful WebSocket handshake is `Connect`, the two failures of a read are `Disconnect`,
and a message is `Deliver`, with the server's exception as its parameter, or `Die` when it cannot
be parsed. The invariant is needed twice: `NothingLostWhileOpen` says that the head of the
wire is the feed's next update, and only an open connection has a wire, so that
ending a connection sets `carried` back to the position.

The schedule in `ArbitrageServerProofs`: for every path, configuration and set of streams
the server has no undefined behaviour, the age of a sizing and the counter add up
to the interval, and trades are sized exactly on schedule. The strengthening
`SizingState` records that before the first sizing the counter is zero, and that afterwards the path
is present and three symbols are known. Books only gain symbols (`PutGrows`), so the
server neither waits nor throws again.

The amounts in `ArbitrageServerProofs`: every property of `server_sizing` holds for books
of any length, and for any prices and quantities that are fractions.

* `SizedZero` (`SizedZeroIffSideEmpty`). A sum of positive terms is zero only when there
  are none (`SideSum`), a price that is 0/0 is replaced by nothing (`LeastOfThree`), and the
  least of three bounds is zero only when one of them is (`LeastIsZero`). What is proved
  of one evaluation is carried to states by `SizedOnBooks`: the sizing belongs to
  the present books as long as its age is zero.
* `RecordedExecutable` (`RecordedTradeIsExecutable`). The loop over a side ends on the level
  where the order is full, and what it has brought then is that level's `Tangent`
  (`FillsOnTangent`). On a sorted side no other tangent lies lower: the tangents fall up to
  the level of the order and rise from there (`TangentIsLeast`, `LowestPoint`). Bids and asks are
  the same argument with different gains (`IsMarket`), so `SellsAtMarket` and
  `BuysAtMarket` only translate. The inductive invariant is `SizedNumber` (a sized notional
  is a finite number) with `ResultOfBooks` (the result is the evaluation of the notional on the
  present books, `IsEvaluation`); `Evaluated` is its theorem.
* `DropsFavourable` (`FreshDropIsFavourable`). A fresh sizing gives no leg more than it
  takes at the sizing's prices (`SizingBounds`, `SizingFits`), and a share of it and a fee only
  make that less (`TradedFits`). What a leg cannot take is therefore more than the
  sizing foresaw (`TooMuch`).
* `FirstLevelFits` (`FirstLevelSizingFits`). An order within the first level is filled at
  its price (`FilledOnFirstLevel`), so the first two legs trade at the sizing's rates, and the
  third leg is given more than its first level only if the product of the rates gains
  (`RoundTrip`).

The average prices in `MCArbitrageCalculatorProofs`: `SoldAtBestSplit` and
`BoughtAtBestSplit` prove both properties of `average_prices` for sides of any length, and for
any whole prices, quantities and amount. No split of an order brings more than any tangent
(`SplitBelowTangents`): level by level, what a split puts on a level before the
tangent's brings at most what that level brings as a whole plus, or minus, the difference
at the tangent's price. The split that fills the levels in turn and ends on
level j reaches the tangent of j (`FillingSplit`), which is the lowest, and so is
what the loop brings; it is whole, and fits (`BestWay`, `FillingFits`). The sums over
a split are folds over a set, which fix no order of the elements; `AddedInAnyOrder` shows that
any order gives the sum in turn. The invariant `Priced` only records where the price came from.

`ParserAndAnalysisProofs` proves the property of `path_parser` for every text, and the three
of `analysis` for every file.

* `PathStands` (`PathStandsInText`). A text is parsed once (`ParserState`), so the
  property is one of `from_string`. The pieces of a text are a map put end to end, and for
  two texts in a row that is the pieces of one and then of the other (`FlattenConcat`,
  `MapConcat`, `PiecesAre`): wherever a text is cut, nothing is lost. It is cut at its first
  colon (`FromString`, `TextSplit`); skipping the empty segments skips no piece
  (`FlattenSkipping`, `LegSegmentsAre`); a leg written out is the segment it was read from
  (`LegWrittenOut`); and the text of the path is put together in the same way
  (`TextIs`), so it comes first. In the other direction, all three segments of a text of the
  documented form are legs, and none is skipped (`WellFormedIsAccepted`).
* `GroupsMatchRuns` (`GroupsAreRuns`). The identifier of a row counts the starts up to it
  (`Counting`). It never falls and rises exactly at a start, so every start opens
  one run, and the run is all the opportunities with its identifier (`RunFromStart`,
  `RunIsGroup`). The identifiers in use are therefore the numbers from one on
  (`IdsAreNumbers`), and the script's n-th of them is the run with n runs before it
  (`NthGroupIsRun`, `NthRunIs`).
* `SummariesFitTheRuns` (`SummariesFit`). A quotient of means is a quotient q of sums. A
  row's return is above q exactly when it earned more than q times its notional; were every
  row's above q, or every row's below, the sum of the profits would not be q times the sum of the
  notionals (`MeanReturnBetween`, `SumsInOrder`, `AverageBetween`). Runs are disjoint intervals and times never
  fall, so each duration ends before the next run begins (`DurationsFit`).
* `TotalsAreCounts` (`TotalsAreCumulative`). A value lies at most at the n-th break
  exactly when it is cut into one of the first n bins (`CutIs`); bins are disjoint, so the
  counts of the bins in use up to n add up to those values, whether or not the bins
  between them are empty (`CountsAddUp`).

The invariant of the last three is `Recording`: every row has a finite profit, a notional above
zero, and a time that is not before that of an earlier row. It is needed because
without it a return may be NaN and a duration negative. The rest relates one
file to what the scripts make of it.

`DataProofs` makes this possible. The greatest common divisor
and the folds are recursive functions, chosen by CHOOSE; induction over them is done
without an operator parameter, as the least element of the set of counterexamples, which
is a set of natural numbers (`LeastNat`). `GcdIsGreatest` and `SameRatio` give one reduced form to each
ratio; with it every law of an ordered field is reduced to a law of integers (`OnRatios`).
`FoldRuns` turns a fold over a sequence into the run of its loop, and `FoldedSum` and
`FoldedTotal` a fold of additions into a sum. `AscendingLists` shows that `Ascending` lists each
element of a finite set once and in order, and `SelectedIs` that `Selected` takes
the elements at these places; filtering twice, an interval, and a single
element are cases of it (`SelectedTwice`, `SelectedInterval`, `OneList`).

`TradeFileWriterProofs` proves that an open file is complete, for any number of results,
failures and processes. The invariant is inductive together with the types: an
insertion after which the stream is still good appended its token to file and buffer
(`InsertAppends`), and one that went bad is followed by a close that empties the buffer
(`CloseEmpties`), so that what the file then holds is the new base.
`LossesAreAnnounced` follows from three facts: no operation of the stream removes anything from
file and buffer but a close that fails (`InsertKeeps`, `CloseKeeps`), a good insertion leaves its result there, and
a bad one announces it.
`DamageBounded` counts. `Damage` is the number of texts and fragments that follow something
other than an end of line, in file and buffer together, and one more if the last line
is left open; `Allowance` is two per failure of the disk and one per end of a process.
Appending one token adds at most one such place (`GluingsAppend`); a failing write adds a
fragment that may be glued to what it follows, and the buffer that is then written again may be
glued to the fragment (`FailsGlues`, `PartialGlues`); a close that fails adds none of its own (`CloseGlues`). The
invariant needs to remember whether the last token is an unfinished line, because the process after it is
charged for it.

`TriangularArbitrageBotProofs` proves all four invariants of `bot` for every number of updates,
processes and symbols, and for every path, configuration and content of the books. The first three need
different strengthenings. `BooksInv` adds the positions of the feed and that the update
which reaches the server is the one after the position (`Heard`), so a book that
stays has no newer update behind it. `ServerInv` adds that a running server with
three symbols, or with a result, has the whole path; one update adds at most one symbol
(`PutGrows`), so a server that throws has exactly three. `OrderInv` adds that the rows grow with the results
and that file and buffer together are sorted, to which a write appends the
largest result (`WriteSorted`) and of which the end of a process keeps a prefix (`TerminateSorted`).

The fourth, `GapsAreExplained`, is proved from two more
invariants. `SilenceInv`: since its last result, and between two results, a process has only
dropped what it was given (`LastGap`, `RowGaps`); it cannot go back to waiting, because books are never forgotten.
`LinesInv`: the results of one process in file and buffer have no hole (`Convex`), because the
end of a process cuts off a suffix only. Adjacent lines of one process are then
consecutive results (`AdjacentAreConsecutive`).

The composition is proved to use its parts as their modules allow. `BotImplementsFeed`: every step of
the bot is a step of the feed or invisible to it. `BotImplementsWriter`: every step is one of the
writer, or leaves it alone. Hence what is proved of the writer holds of the bot's
file: `LinesOfTheBot` says that on a disk that does not fail the open file is complete, no result
is lost while a process runs, and every process before the last has glued at most one line.

The assumptions on the constants are that the set of streams is finite, that intervals are
whole numbers of halves, that bounds are natural numbers, and, for the amounts: an
exchange lists only prices and quantities above zero (`LevelsAssumption`), the sides are
sorted as `order_book.h` says (`OrderAssumption`; nothing in the code sorts or checks
them), and the three numbers an operator configures are finite, of any sign
(`FiniteAssumption`). The book sides of `MCArbitrageCalculator` have whole prices and quantities above
zero (`BookAssumption`), the rows of a file finite profits, notionals above zero
(a trade of nothing is never recorded) and times that do not fall
(`RowAssumption`; the clock the code reads may in principle be set back), and a text is any sequence of
segments of at least one piece (`TextAssumption`). `WithinSizing` is a premise of two properties, not an assumption.

Every invariant of every run that passes is stated by a theorem. Model-checked only:
liveness and the fairness part of `ImplementsFeed`, which are out of the prover's reach, and
of course the violations.

## Not modelled

* Rounding. A sum of products that is equal in fractions may differ in the last
  bit in doubles; the tolerances in the code are meant for this.
* JSON and number parsing beyond "it throws or it does not". `lastUpdateId` is parsed but
  never compared. `jsonStr`, the whole message, and the two times are written on every line (as
  `orderBookLevels`, `tickReceiveTime` and `tickProcessTime`). They change nothing that the
  program does, and outside its plots the analysis computes only with `tickReceiveTime`, which the rows
  of `TradeAnalysis` have. A result of the bot's model keeps only the number of the update that the message
  stands for.
* `BinanceClient::on_close` (never registered) and `write_str_to_buf` (never called).
* Logging, build files, container and scripts. The unit tests check fixed examples of the
  calculator. Values of environment variables that are not numbers or not a path end the process before
  it has any state.
* Of the analysis, the conversion to Parquet, which keeps rows and columns, and the plots. The main
  script gives the table of durations bins from 0 to 5 although durations are in
  nanoseconds; the modules have no clock in either unit.
* A loss of power that takes what the operating system had not yet written, and a
  signal in the middle of a system call. A signal between two system calls of one
  `write` leaves the same file as one after it with the rest still in the buffer.

## Where to go on

The plan this project started from (the parts, the feed and its refinement, the bot, the
analysis, the proofs) is done, and what can be proved of it is. To go further means to
model what is left out: rounding, with the tolerances that the code has for it, and a
clock, in the units that the recorded times have.
