-------------------- MODULE TriangularArbitrageBotProofs --------------------
(***************************************************************************)
(* Proofs for the composed bot, for every number of updates, processes and *)
(* streams, and for every path, configuration and content of the books.    *)
(***************************************************************************)
EXTENDS TriangularArbitrageBot, FiniteSetTheorems, SequenceTheorems, TLAPS

\* Positions of the feed: one symbol for every update published, and none
\* beyond that connected to, brought or given to the server.
Positions ==
  /\ published \in Nat /\ carried \in Nat /\ subscribed \in Nat /\ delivered \in Nat
  /\ subscribed <= published /\ carried <= published /\ delivered <= published
  /\ stream \in Seq(Symbols) /\ Len(stream) = published
  /\ alive \in BOOLEAN /\ (connected => alive)

UpdateIdsAreNumbers == \A s \in DOMAIN pairToPriceMap : pairToPriceMap[s].updateId \in Nat

BooksInv == Positions /\ UpdateIdsAreNumbers /\ BooksLagOnlyByOutage

-----------------------------------------------------------------------------
(* Books and updates.                                                      *)

LEMMA PositionType ==
  ASSUME Positions
  PROVE  /\ Feed!Position \in Nat /\ Feed!Position <= published
         /\ Feed!Position >= subscribed /\ Feed!Position >= delivered
BY DEF Positions, Feed!Position

\* A step that keeps the books and does not move the position keeps the lag.
LEMMA LagKept ==
  ASSUME BooksInv, UNCHANGED <<pairToPriceMap, subscribed, delivered>>,
         alive' => alive,
         \A u \in 1..published : stream'[u] = stream[u]
  PROVE  UpdateIdsAreNumbers' /\ BooksLagOnlyByOutage'
<1>1. UpdateIdsAreNumbers'
  BY DEF BooksInv, UpdateIdsAreNumbers
<1>2. Feed!Position' = Feed!Position
  BY DEF Feed!Position
<1>3. ASSUME alive', NEW s \in DOMAIN pairToPriceMap,
             NEW u \in (pairToPriceMap[s].updateId + 1)..Feed!Position, stream'[u] = s
      PROVE  u <= subscribed
  <2>1. pairToPriceMap[s].updateId \in Nat /\ u \in 1..published
    BY PositionType DEF BooksInv, UpdateIdsAreNumbers, Positions
  <2> QED BY <1>3, <2>1 DEF BooksInv, BooksLagOnlyByOutage
<1>4. BooksLagOnlyByOutage'
  BY <1>2, <1>3 DEF BooksLagOnlyByOutage
<1> QED BY <1>1, <1>4

LEMMA BooksInit == Init => BooksInv
<1> SUFFICES ASSUME Init PROVE BooksInv
  OBVIOUS
<1>1. Positions
  <2>1. <<>> \in Seq(Symbols) /\ Len(<<>>) = 0
    BY EmptySeq
  <2>2. /\ published = 0 /\ carried = 0 /\ subscribed = 0 /\ delivered = 0
        /\ stream = <<>> /\ alive = FALSE /\ connected = FALSE
    BY DEF Init, Feed!Init
  <2>3. /\ published \in Nat /\ carried \in Nat /\ subscribed \in Nat /\ delivered \in Nat
        /\ subscribed <= published /\ carried <= published /\ delivered <= published
    BY <2>2
  <2>4. stream \in Seq(Symbols) /\ Len(stream) = published
    BY <2>1, <2>2
  <2> QED BY <2>2, <2>3, <2>4 DEF Positions
<1>2. UpdateIdsAreNumbers /\ BooksLagOnlyByOutage
  BY DEF Init, Server!Init, UpdateIdsAreNumbers, BooksLagOnlyByOutage
<1> QED BY <1>1, <1>2 DEF BooksInv

LEMMA BooksMain ==
  ASSUME BooksInv, main PROVE BooksInv'
<1>1. Positions'
  BY DEF main, Feed!Start, BooksInv, Positions
<1>2. DOMAIN pairToPriceMap' = {}
  BY DEF main, NewServer
<1>3. UpdateIdsAreNumbers' /\ BooksLagOnlyByOutage'
  BY <1>2 DEF UpdateIdsAreNumbers, BooksLagOnlyByOutage
<1> QED BY <1>1, <1>3 DEF BooksInv

LEMMA BooksPublish ==
  ASSUME BooksInv, NEW symbol \in Symbols, Publish(symbol) PROVE BooksInv'
<1>1. /\ published' = published + 1 /\ stream' = Append(stream, symbol)
      /\ carried' = carried \/ carried' = published'
      /\ UNCHANGED <<alive, connected, subscribed, delivered, pairToPriceMap>>
  BY DEF Publish, Feed!Publish, serverVars
<1>2. /\ stream' \in Seq(Symbols) /\ Len(stream') = Len(stream) + 1
      /\ \A u \in 1..Len(stream) : stream'[u] = stream[u]
  BY <1>1, AppendProperties DEF BooksInv, Positions
<1>3. Positions'
  BY <1>1, <1>2 DEF BooksInv, Positions
<1>4. UpdateIdsAreNumbers' /\ BooksLagOnlyByOutage'
  BY <1>1, <1>2, LagKept DEF BooksInv, Positions
<1> QED BY <1>3, <1>4 DEF BooksInv

LEMMA BooksConnect ==
  ASSUME BooksInv, Connect PROVE BooksInv'
<1>1. /\ subscribed' = published /\ carried' = published
      /\ alive' = alive /\ alive
      /\ UNCHANGED <<published, delivered, pairToPriceMap, stream>>
  BY DEF Connect, Feed!Connect, serverVars
<1>2. Positions' /\ UpdateIdsAreNumbers'
  BY <1>1 DEF BooksInv, Positions, UpdateIdsAreNumbers
<1>3. Feed!Position' = subscribed'
  BY <1>1 DEF Feed!Position, BooksInv, Positions
<1>4. BooksLagOnlyByOutage'
  BY <1>2, <1>3 DEF BooksLagOnlyByOutage, Positions, UpdateIdsAreNumbers
<1> QED BY <1>2, <1>4 DEF BooksInv

LEMMA BooksEnd ==
  ASSUME BooksInv, Disconnect \/ Die PROVE BooksInv'
<1>1. /\ carried' = Feed!Position /\ (alive' => alive)
      /\ alive' \in BOOLEAN /\ ~connected'
      /\ UNCHANGED <<published, subscribed, delivered, pairToPriceMap, stream>>
  BY DEF Disconnect, Die, Feed!Disconnect, Feed!Die, serverVars, BooksInv, Positions
<1>2. Positions'
  BY <1>1, PositionType DEF BooksInv, Positions
<1> QED BY <1>1, <1>2, LagKept DEF BooksInv

\* The update that reaches the server is the next one, and its book replaces
\* the one of its symbol.
LEMMA Heard ==
  ASSUME BooksInv, NEW book \in Ticks, on_read(book)
  PROVE  LET u == Feed!Position + 1 IN
         /\ u \in 1..published /\ delivered' = u
         /\ pairToPriceMap' = Server!Put(pairToPriceMap, stream[u], to_struct(u, book))
         /\ carried' \in Nat /\ carried' <= published
         /\ alive /\ alive' \in BOOLEAN /\ (connected' => alive')
         /\ UNCHANGED <<published, subscribed, stream>>
<1>1. Feed!Position \in Nat /\ carried \in Nat /\ carried <= published /\ published \in Nat
  BY PositionType DEF BooksInv, Positions
<1>2. Feed!Position < carried /\ \E t \in BOOLEAN : Feed!Deliver(t)
  BY DEF on_read
<1>3. /\ delivered' = Feed!Position + 1 /\ carried' \in {Feed!Position + 1, carried}
      /\ alive /\ alive' \in BOOLEAN /\ (connected' => alive')
      /\ UNCHANGED <<published, subscribed>>
  BY <1>2 DEF Feed!Deliver, BooksInv, Positions
<1>4. /\ pairToPriceMap' = Server!Put(pairToPriceMap, stream[Feed!Position + 1],
                                      to_struct(Feed!Position + 1, book))
      /\ UNCHANGED stream
  BY DEF on_read, Server!on_update, to_struct, OrderBookTick
<1> QED BY <1>1, <1>2, <1>3, <1>4
LEMMA BooksRead ==
  ASSUME BooksInv, NEW book \in Ticks, on_read(book) PROVE BooksInv'
<1> DEFINE id == Feed!Position + 1
           tick == to_struct(id, book)
<1>1. /\ id \in 1..published /\ delivered' = id
      /\ pairToPriceMap' = Server!Put(pairToPriceMap, stream[id], tick)
      /\ carried' \in Nat /\ carried' <= published
      /\ alive /\ alive' \in BOOLEAN /\ (connected' => alive')
      /\ UNCHANGED <<published, subscribed, stream>>
  BY Heard
<1>2. Positions'
  BY <1>1 DEF BooksInv, Positions
<1>3. Feed!Position' = id
  BY <1>1, PositionType DEF Feed!Position, BooksInv, Positions
<1>4. tick.updateId = id
  BY DEF to_struct, OrderBookTick
<1>5. /\ DOMAIN pairToPriceMap' = DOMAIN pairToPriceMap \cup {stream[id]}
      /\ pairToPriceMap'[stream[id]] = tick
      /\ \A s \in DOMAIN pairToPriceMap \ {stream[id]} : pairToPriceMap'[s] = pairToPriceMap[s]
  BY <1>1 DEF Server!Put
<1> HIDE DEF tick
<1>6. UpdateIdsAreNumbers'
  BY <1>1, <1>4, <1>5 DEF UpdateIdsAreNumbers, BooksInv, Positions
<1>7. ASSUME NEW s \in DOMAIN pairToPriceMap',
             NEW u \in (pairToPriceMap'[s].updateId + 1)..id, stream[u] = s
      PROVE  u <= subscribed
  <2>1. s # stream[id]
    BY <1>1, <1>4, <1>5
  <2>2. s \in DOMAIN pairToPriceMap /\ pairToPriceMap'[s] = pairToPriceMap[s] /\ u # id
    BY <1>5, <1>7, <2>1
  <2>3. u \in (pairToPriceMap[s].updateId + 1)..Feed!Position
    BY <2>2, PositionType DEF BooksInv, UpdateIdsAreNumbers
  <2> QED BY <1>1, <1>7, <2>2, <2>3 DEF BooksInv, BooksLagOnlyByOutage
<1>8. BooksLagOnlyByOutage'
  BY <1>1, <1>3, <1>7 DEF BooksLagOnlyByOutage
<1> QED BY <1>2, <1>6, <1>8 DEF BooksInv

LEMMA BooksNext == BooksInv /\ [Next]_vars => BooksInv'
<1> SUFFICES ASSUME BooksInv, [Next]_vars PROVE BooksInv'
  OBVIOUS
<1>1. CASE UNCHANGED vars
  <2>1. Positions'
    BY <1>1 DEF vars, feedVars, BooksInv, Positions
  <2> QED BY <1>1, <2>1, LagKept DEF vars, feedVars, serverVars, BooksInv
<1> QED BY <1>1, BooksMain, BooksPublish, BooksConnect, BooksEnd, BooksRead DEF Next

\* A book lags behind its stream only by updates published before the current
\* connection.
THEOREM BooksAreCurrent == Spec => []BooksLagOnlyByOutage
<1>1. Spec => []BooksInv
  BY BooksInit, BooksNext, PTL DEF Spec
<1> QED BY <1>1, PTL DEF BooksInv

-----------------------------------------------------------------------------
(* The exception of the sizing.                                            *)

Present(books) == Server!PathPresent(books)

\* A running server that knows three symbols, or has had a result written,
\* has the whole path.
ServerInv ==
  /\ IsFiniteSet(DOMAIN pairToPriceMap)
  /\ results \in Nat /\ first \in Nat
  /\ alive => status = "running"
  /\ status = "running" =>
       (Cardinality(DOMAIN pairToPriceMap) >= 3 \/ results >= first => Present(pairToPriceMap))
  /\ DiesOnlyBeforeFirstResult

LEMMA PutGrows ==
  ASSUME NEW books, NEW s, NEW tick, IsFiniteSet(DOMAIN books)
  PROVE  LET after == Server!Put(books, s, tick) IN
         /\ IsFiniteSet(DOMAIN after)
         /\ Cardinality(DOMAIN books) \in Nat /\ Cardinality(DOMAIN after) \in Nat
         /\ Cardinality(DOMAIN after) <= Cardinality(DOMAIN books) + 1
         /\ Present(books) => Present(after)
<1> DEFINE after == Server!Put(books, s, tick)
<1>1. DOMAIN after = DOMAIN books \cup {s}
  BY DEF Server!Put
<1>2. Present(books) => Present(after)
  BY <1>1 DEF Present, Server!PathPresent
<1> HIDE DEF after
<1>3. IsFiniteSet(DOMAIN after)
      /\ Cardinality(DOMAIN after) = IF s \in DOMAIN books THEN Cardinality(DOMAIN books)
                                     ELSE Cardinality(DOMAIN books) + 1
  BY <1>1, FS_AddElement
<1>4. Cardinality(DOMAIN books) \in Nat /\ Cardinality(DOMAIN after) \in Nat
  BY <1>3, FS_CardinalityType
<1> QED BY <1>2, <1>3, <1>4 DEF after

LEMMA SameCardinality ==
  ASSUME NEW S PROVE Server!Cardinality(S) = Cardinality(S)
BY DEF Server!Cardinality, Cardinality

LEMMA ServerInit == Init => ServerInv
<1> SUFFICES ASSUME Init PROVE ServerInv
  OBVIOUS
<1>1. DOMAIN pairToPriceMap = {} /\ status = "running" /\ results = 0 /\ first = 1
  BY DEF Init, Server!Init, Writer!Init
<1>2. IsFiniteSet(DOMAIN pairToPriceMap) /\ Cardinality(DOMAIN pairToPriceMap) = 0
  BY <1>1, FS_EmptySet
<1> QED BY <1>1, <1>2 DEF ServerInv, DiesOnlyBeforeFirstResult, Init, Feed!Init

LEMMA ServerMain ==
  ASSUME ServerInv, main PROVE ServerInv'
<1>1. DOMAIN pairToPriceMap' = {} /\ status' = "running"
  BY DEF main, NewServer
<1>2. results' = results /\ first' = results + 1
  BY DEF main, Writer!TradeFileWriter
<1>3. IsFiniteSet(DOMAIN pairToPriceMap)' /\ Cardinality(DOMAIN pairToPriceMap)' = 0
  BY <1>1, FS_EmptySet
<1> QED BY <1>1, <1>2, <1>3 DEF ServerInv, DiesOnlyBeforeFirstResult

\* Outside on_read and main the server and the results do not change.
LEMMA ServerKept ==
  ASSUME ServerInv, UNCHANGED <<serverVars, results, first>>, alive' => alive
  PROVE  ServerInv'
BY DEF ServerInv, DiesOnlyBeforeFirstResult, Present, Server!PathPresent, serverVars

LEMMA ServerRead ==
  ASSUME ServerInv, NEW book \in Ticks, on_read(book) PROVE ServerInv'
<1> DEFINE tick == to_struct(Feed!Position + 1, book)
           books == Server!Put(pairToPriceMap, tick.symbol, tick)
<1>1. /\ Server!on_update(tick.symbol, tick)
      /\ \/ status' = "running" /\ Record(tick)
         \/ status' # "running" /\ Feed!Deliver(TRUE) /\ Writer!Terminate
  BY DEF on_read
<1>2. first' = first /\ results' \in {results, results + 1}
  BY <1>1 DEF Record, Writer!write, Writer!Terminate, writerVars
<1>3. /\ IsFiniteSet(DOMAIN books)
      /\ Cardinality(DOMAIN pairToPriceMap) \in Nat /\ Cardinality(DOMAIN books) \in Nat
      /\ Cardinality(DOMAIN books) <= Cardinality(DOMAIN pairToPriceMap) + 1
      /\ Present(pairToPriceMap) => Present(books)
  BY PutGrows DEF ServerInv
<1>4. alive' => status' = "running"
  BY <1>1 DEF Feed!Deliver
<1>5. status = "running" /\ pairToPriceMap' = books /\ UNCHANGED path
  BY DEF on_read, Server!on_update
<1>6. Present(books) = Present(pairToPriceMap)'
  BY <1>5 DEF Present, Server!PathPresent
<1> HIDE DEF tick, books
<1>7. CASE Cardinality(DOMAIN books) < 3 /\ UNCHANGED status /\ result' = Server!Waiting
  <2>1. results' = results
    BY <1>1, <1>5, <1>7 DEF Record, Server!Waiting, writerVars
  <2> QED BY <1>2, <1>3, <1>4, <1>5, <1>6, <1>7, <2>1 DEF ServerInv, DiesOnlyBeforeFirstResult
<1>8. CASE Cardinality(DOMAIN books) >= 3 /\ Server!Throws(books) /\ status' = "terminated"
  <2>1. ~Present(books)
    BY <1>8 DEF Present, Server!Throws
  <2>2. results' = results
    BY <1>1, <1>8 DEF Writer!Terminate
  <2>3. Cardinality(DOMAIN pairToPriceMap) < 3 /\ results < first
    BY <1>3, <1>5, <2>1 DEF ServerInv
  <2>4. DiesOnlyBeforeFirstResult'
    BY <1>2, <1>3, <1>5, <1>8, <2>2, <2>3 DEF DiesOnlyBeforeFirstResult
  <2> QED BY <1>2, <1>3, <1>4, <1>5, <1>8, <2>2, <2>4 DEF ServerInv
<1>9. CASE Server!evaluate(books, startingNotional', age' >= 0)
  <2>1. status' \in {"running", "undefined"} /\ (status' = "running" => Present(books))
    BY <1>5, <1>9 DEF Server!evaluate, Present
  <2> QED BY <1>2, <1>3, <1>4, <1>5, <1>6, <2>1 DEF ServerInv, DiesOnlyBeforeFirstResult
<1> QED BY <1>1, <1>7, <1>8, <1>9, SameCardinality DEF Server!on_update, books

LEMMA ServerNext == ServerInv /\ [Next]_vars => ServerInv'
<1> SUFFICES ASSUME ServerInv, [Next]_vars PROVE ServerInv'
  OBVIOUS
<1>1. ASSUME Connect \/ Disconnect \/ Die \/ (\E symbol \in Symbols : Publish(symbol))
             \/ UNCHANGED vars
      PROVE  ServerInv'
  <2>1. UNCHANGED <<serverVars, results, first>>
    BY <1>1 DEF Connect, Disconnect, Die, Publish, vars, writerVars, Writer!Terminate
  <2>2. alive' => alive
    BY <1>1 DEF Connect, Disconnect, Die, Publish, Feed!Connect, Feed!Disconnect,
                Feed!Die, Feed!Publish, vars, feedVars
  <2> QED BY <2>1, <2>2, ServerKept
<1> QED BY <1>1, ServerMain, ServerRead DEF Next

\* The exception of the sizing ends a process only at its third symbol and
\* before its first result.
THEOREM DiesEarly == Spec => []DiesOnlyBeforeFirstResult
<1>1. Spec => []ServerInv
  BY ServerInit, ServerNext, PTL DEF Spec
<1> QED BY <1>1, PTL DEF ServerInv

-----------------------------------------------------------------------------
(* The order of the file.                                                  *)

\* The results of a sequence of tokens grow.
Sorted(tokens) ==
  \A i, j \in DOMAIN tokens :
    i < j /\ tokens[i] > 0 /\ tokens[j] > 0 => tokens[i] < tokens[j]

Below(tokens, n) == \A i \in DOMAIN tokens : tokens[i] <= n

\* Every result has a row, and later results are of later updates.
RowsInv ==
  /\ results \in Nat
  /\ rows = [k \in 1..results |-> rows[k]]
  /\ \A k \in 1..results : rows[k].updateId \in Nat /\ rows[k].updateId <= delivered
  /\ \A k, l \in 1..results : k < l => rows[k].updateId < rows[l].updateId

TokensInv ==
  /\ failures \in Nat
  /\ file \in Seq(Int) /\ buffer \in Seq(Int)
  /\ Sorted(file \o buffer) /\ Below(file \o buffer, results)

OrderInv == Positions /\ RowsInv /\ TokensInv

\* A result and the end of its line.
LEMMA AppendSorted ==
  ASSUME NEW s \in Seq(Int), NEW n \in Nat, NEW token \in Int,
         Sorted(s), Below(s, n), token = 0 \/ Below(s, token - 1)
  PROVE  LET text == Append(s, token) IN
         /\ text \in Seq(Int) /\ Sorted(text)
         /\ Below(text, IF token > n THEN token ELSE n)
<1> DEFINE text == Append(s, token)
<1>1. Len(s) \in Nat /\ DOMAIN s = 1..Len(s) /\ \A i \in 1..Len(s) : s[i] \in Int
  BY LenProperties, ElementOfSeq
<1>2. /\ text \in Seq(Int) /\ Len(text) = Len(s) + 1
      /\ \A i \in 1..Len(s) : text[i] = s[i]
      /\ text[Len(s) + 1] = token
  BY AppendProperties
<1> HIDE DEF text
<1>3. DOMAIN text = 1..(Len(s) + 1)
  BY <1>2, LenProperties
<1>4. Below(text, IF token > n THEN token ELSE n)
  <2> SUFFICES ASSUME NEW i \in DOMAIN text
               PROVE  text[i] <= IF token > n THEN token ELSE n
    BY DEF Below
  <2>1. CASE i = Len(s) + 1
    BY <1>2, <2>1
  <2>2. CASE i \in 1..Len(s)
    <3>1. s[i] <= n /\ text[i] = s[i] /\ s[i] \in Int
      BY <1>1, <1>2, <2>2 DEF Below
    <3> QED BY <3>1
  <2> QED BY <1>1, <1>3, <2>1, <2>2
<1>5. Sorted(text)
  <2> SUFFICES ASSUME NEW i \in DOMAIN text, NEW j \in DOMAIN text,
                      i < j, text[i] > 0, text[j] > 0
               PROVE  text[i] < text[j]
    BY DEF Sorted
  <2>1. i \in 1..Len(s) /\ j \in 1..(Len(s) + 1) /\ text[i] = s[i]
    BY <1>1, <1>2, <1>3
  <2>2. CASE j = Len(s) + 1
    <3>1. text[j] = token /\ token # 0
      BY <1>2, <2>2
    <3>2. s[i] <= token - 1 /\ s[i] \in Int
      BY <1>1, <2>1, <3>1 DEF Below
    <3> QED BY <2>1, <3>1, <3>2
  <2>3. CASE j \in 1..Len(s)
    <3>1. text[j] = s[j]
      BY <1>2, <2>3
    <3> QED BY <1>1, <2>1, <2>3, <3>1 DEF Sorted
  <2> QED BY <1>1, <2>1, <2>2, <2>3
<1> QED BY <1>2, <1>4, <1>5 DEF text

LEMMA PrefixSorted ==
  ASSUME NEW s \in Seq(Int), NEW t \in Seq(Int), NEW n \in Nat,
         Sorted(s \o t), Below(s \o t, n)
  PROVE  Sorted(s) /\ Below(s, n)
<1>1. /\ DOMAIN s \subseteq DOMAIN (s \o t)
      /\ \A i \in DOMAIN s : (s \o t)[i] = s[i]
  BY ConcatProperties, LenProperties
<1> QED BY <1>1 DEF Sorted, Below

LEMMA AppendBehind ==
  ASSUME NEW s \in Seq(Int), NEW t \in Seq(Int), NEW token \in Int
  PROVE  /\ s \o t \in Seq(Int)
         /\ Append(t, token) \in Seq(Int)
         /\ s \o Append(t, token) = Append(s \o t, token)
<1>1. s \o t \in Seq(Int) /\ <<token>> \in Seq(Int)
  BY ConcatProperties
<1>2. (s \o t) \o <<token>> = s \o (t \o <<token>>)
  BY <1>1, ConcatAssociative
<1>3. t \o <<token>> = Append(t, token)
  BY AppendIsConcat
<1>4. (s \o t) \o <<token>> = Append(s \o t, token)
  BY <1>1, AppendIsConcat
<1> QED BY <1>1, <1>2, <1>3, <1>4, AppendProperties

\* A disk that does not fail leaves every stream good, with the token behind
\* what it had.
GoodStream == {s \in [file : Seq(Int), buffer : Seq(Int), failures : Nat, bad : BOOLEAN] : ~s.bad}

LEMMA InsertAppends ==
  ASSUME NEW s \in GoodStream, NEW token \in Int, NEW t \in Writer!Insert(s, token)
  PROVE  t \in GoodStream /\ t.file \o t.buffer = Append(s.file \o s.buffer, token)
<1> DEFINE line == Append(s.buffer, token)
<1>1. s.file \in Seq(Int) /\ s.buffer \in Seq(Int) /\ s.failures \in Nat /\ ~s.bad
  BY DEF GoodStream
<1>2. line \in Seq(Int) /\ s.file \o line = Append(s.file \o s.buffer, token)
  BY <1>1, AppendBehind
<1>3. s.file \o line \in Seq(Int)
  BY <1>1, <1>2, ConcatProperties
<1>4. CASE t = [s EXCEPT !.buffer = line]
  <2>1. t \in GoodStream /\ t.file = s.file /\ t.buffer = line
    BY <1>2, <1>4 DEF GoodStream
  <2> QED BY <1>2, <2>1
<1>5. CASE t = [s EXCEPT !.file = s.file \o line, !.buffer = <<>>]
  <2>1. t \in GoodStream /\ t.file = s.file \o line /\ t.buffer = <<>>
    BY <1>3, <1>5, EmptySeq DEF GoodStream
  <2>2. t.file \o t.buffer = s.file \o line
    BY <1>3, <2>1, ConcatEmptySeq
  <2> QED BY <1>2, <2>1, <2>2
<1>6. Writer!Fails(s, line) = {}
  <2>1. ~(s.failures < 0)
    BY <1>1
  <2> QED BY <2>1 DEF Writer!Fails
<1> QED BY <1>1, <1>4, <1>5, <1>6 DEF Writer!Insert

\* A result that is written stands, with the end of its line, behind what was
\* in the file and the buffer.
LEMMA WriteAppends ==
  ASSUME OrderInv, Writer!write(results + 1)
  PROVE  /\ results' = results + 1 /\ failures' \in Nat
         /\ file' \in Seq(Int) /\ buffer' \in Seq(Int)
         /\ \/ ~is_open /\ ~is_open' /\ (file \o buffer)' = file \o buffer
            \/ /\ is_open
               /\ (file \o buffer)' = Append(Append(file \o buffer, results + 1), 0)
<1> DEFINE before == [file |-> file, buffer |-> buffer, failures |-> failures, bad |-> FALSE]
           line == file \o buffer
           text == Append(line, results + 1)
<1>1. /\ results' = results + 1 /\ results + 1 \in Int
      /\ failures \in Nat /\ file \in Seq(Int) /\ buffer \in Seq(Int)
  BY DEF Writer!write, OrderInv, RowsInv, TokensInv
<1>2. before \in GoodStream /\ before.file \o before.buffer = line
  BY <1>1 DEF GoodStream
<1> HIDE DEF before
<1>3. CASE ~is_open
  BY <1>1, <1>3 DEF Writer!write
<1>4. CASE is_open
  <2> DEFINE good == [file |-> file, buffer |-> buffer, failures |-> failures, bad |-> FALSE]
  <2>1. PICK t \in Writer!InsertLine(good, results + 1) :
          IF t.bad THEN Writer!recover(t, results + 1) ELSE Writer!written(t)
    BY <1>4 DEF Writer!write, Writer!writeLine
  <2>2. PICK m \in Writer!Insert(before, results + 1) : t \in Writer!Insert(m, 0)
    BY <2>1 DEF Writer!InsertLine, Writer!EndOfLine, before
  <2> HIDE DEF good
  <2> HIDE DEF line
  <2>3. m \in GoodStream /\ m.file \o m.buffer = text
    <3>1. m \in GoodStream /\ m.file \o m.buffer = Append(before.file \o before.buffer, results + 1)
      BY <1>1, <1>2, <2>2, InsertAppends
    <3> QED BY <1>2, <3>1
  <2> HIDE DEF text
  <2>4. t \in GoodStream /\ t.file \o t.buffer = Append(text, 0)
    <3>1. t \in GoodStream /\ t.file \o t.buffer = Append(m.file \o m.buffer, 0)
      BY <2>2, <2>3, 0 \in Int, InsertAppends
    <3> QED BY <2>3, <3>1
  <2>5. t.file \in Seq(Int) /\ t.buffer \in Seq(Int) /\ t.failures \in Nat /\ ~t.bad
    BY <2>4 DEF GoodStream
  <2>6. file' = t.file /\ buffer' = t.buffer /\ failures' = t.failures
    BY <2>1, <2>5 DEF Writer!written
  <2> QED BY <1>1, <1>4, <2>4, <2>5, <2>6 DEF line, text
<1> QED BY <1>3, <1>4

LEMMA WriteSorted ==
  ASSUME OrderInv, Writer!write(results + 1)
  PROVE  results' = results + 1 /\ TokensInv'
<1> DEFINE line == file \o buffer
           text == Append(line, results + 1)
<1>1. /\ results \in Nat /\ results + 1 \in Nat /\ line \in Seq(Int)
      /\ Sorted(line) /\ Below(line, results)
  BY ConcatProperties DEF OrderInv, RowsInv, TokensInv
<1>2. /\ results' = results + 1 /\ failures' \in Nat
      /\ file' \in Seq(Int) /\ buffer' \in Seq(Int)
      /\ line' = line \/ line' = Append(text, 0)
  BY WriteAppends
<1> HIDE DEF line
<1>3. text \in Seq(Int) /\ Sorted(text) /\ Below(text, results + 1)
  <2>1. results + 1 \in Int /\ (results + 1) - 1 = results /\ results + 1 > results
    BY <1>1
  <2> QED BY <1>1, <2>1, AppendSorted
<1> HIDE DEF text
<1>4. LET both == Append(text, 0) IN Sorted(both) /\ Below(both, results + 1)
  <2>1. 0 \in Int /\ ~(0 > results + 1)
    BY <1>1
  <2> QED BY <1>1, <1>3, <2>1, AppendSorted
<1>5. Below(line, results + 1)
  <2>1. \A i \in DOMAIN line : line[i] \in Int
    BY <1>1, LenProperties, ElementOfSeq
  <2> QED BY <1>1, <2>1 DEF Below
<1>6. Sorted(line') /\ Below(line', results')
  BY <1>1, <1>2, <1>4, <1>5
<1> QED BY <1>2, <1>6 DEF TokensInv, line

\* The buffer of a process that ends is lost; the file stays.
LEMMA TerminateSorted ==
  ASSUME OrderInv, Writer!Terminate
  PROVE  TokensInv' /\ results' = results
<1>1. /\ results \in Nat /\ failures \in Nat /\ file \in Seq(Int) /\ buffer \in Seq(Int)
      /\ Sorted(file \o buffer) /\ Below(file \o buffer, results)
  BY DEF OrderInv, RowsInv, TokensInv
<1>2. UNCHANGED <<file, failures, results>> /\ buffer' = <<>>
  BY DEF Writer!Terminate
<1>3. Sorted(file) /\ Below(file, results)
  BY <1>1, PrefixSorted
<1>4. <<>> \in Seq(Int) /\ file \o <<>> = file
  BY <1>1, EmptySeq, ConcatEmptySeq
<1>5. (file \o buffer)' = file
  BY <1>2, <1>4
<1> QED BY <1>1, <1>2, <1>3, <1>4, <1>5 DEF TokensInv

LEMMA RowsGrow ==
  ASSUME RowsInv, NEW row, rows' = Append(rows, row)
  PROVE  /\ rows' = [k \in 1..(results + 1) |-> rows'[k]]
         /\ \A k \in 1..results : rows'[k] = rows[k]
         /\ rows'[results + 1] = row
<1> DEFINE S == {rows[k] : k \in 1..results} \cup {row}
<1>1. results \in Nat /\ row \in S
  BY DEF RowsInv
<1>2. rows \in [1..results -> S]
  BY DEF RowsInv
<1> HIDE DEF S
<1>3. rows \in Seq(S)
  BY <1>1, <1>2, SeqDef
<1>4. Len(rows) = results
  BY <1>1, <1>2, <1>3, LenProperties
<1>5. /\ rows' \in Seq(S) /\ Len(rows') = results + 1
      /\ \A k \in 1..results : rows'[k] = rows[k]
      /\ rows'[results + 1] = row
  BY <1>1, <1>3, <1>4, AppendProperties
<1> QED BY <1>1, <1>5, LenProperties

\* A row whose update is later than all that the server has had before.
LEMMA AppendRow ==
  ASSUME RowsInv, NEW row, row.updateId = delivered', delivered \in Nat,
         delivered' \in Nat, delivered < delivered',
         results' = results + 1, rows' = Append(rows, row)
  PROVE  RowsInv'
<1>1. results \in Nat /\ results' \in Nat
  BY DEF RowsInv
<1>2. /\ rows' = [k \in 1..results' |-> rows'[k]]
      /\ \A k \in 1..results : rows'[k] = rows[k]
      /\ rows'[results + 1] = row
  BY RowsGrow
<1>3. \A k \in 1..results' : rows'[k].updateId \in Nat /\ rows'[k].updateId <= delivered'
  BY <1>1, <1>2 DEF RowsInv
<1>4. \A k, l \in 1..results' : k < l => rows'[k].updateId < rows'[l].updateId
  BY <1>1, <1>2 DEF RowsInv
<1> QED BY <1>1, <1>2, <1>3, <1>4 DEF RowsInv

\* A step that keeps the results keeps the rows, whatever else was delivered.
LEMMA RowsKept ==
  ASSUME RowsInv, UNCHANGED <<rows, results>>, delivered \in Nat,
         delivered' \in Nat, delivered <= delivered'
  PROVE  RowsInv'
BY DEF RowsInv

LEMMA OrderInit == Init => OrderInv
<1> SUFFICES ASSUME Init PROVE OrderInv
  OBVIOUS
<1>1. Positions
  BY BooksInit DEF BooksInv
<1>2. /\ results = 0 /\ failures = 0 /\ file = <<>> /\ buffer = <<>> /\ rows = <<>>
  BY DEF Init, Writer!Init
<1>3. <<>> \in Seq(Int) /\ <<>> \o <<>> = <<>> /\ DOMAIN <<>> = {}
  BY EmptySeq, ConcatEmptySeq
<1>4. RowsInv
  BY <1>2, <1>3 DEF RowsInv
<1>5. TokensInv
  BY <1>2, <1>3 DEF TokensInv, Sorted, Below
<1> QED BY <1>1, <1>4, <1>5 DEF OrderInv

LEMMA OrderRead ==
  ASSUME BooksInv, OrderInv, NEW book \in Ticks, on_read(book)
  PROVE  RowsInv' /\ TokensInv'
<1> DEFINE tick == to_struct(Feed!Position + 1, book)
<1>1. delivered' = Feed!Position + 1 /\ Feed!Position \in Nat /\ delivered <= Feed!Position
      /\ delivered \in Nat
  BY Heard, PositionType DEF OrderInv, Positions
<1>2. \/ Record(tick)
      \/ Writer!Terminate /\ UNCHANGED rows
  BY DEF on_read
<1>3. ASSUME Writer!write(results + 1), rows' = Append(rows, ArbitrageResult(tick, result'))
      PROVE  RowsInv' /\ TokensInv'
  <2>1. ArbitrageResult(tick, result').updateId = delivered'
    BY <1>1 DEF ArbitrageResult, to_struct, OrderBookTick
  <2>2. results' = results + 1 /\ TokensInv'
    BY <1>3, WriteSorted
  <2> QED BY <1>1, <1>3, <2>1, <2>2, AppendRow DEF OrderInv
<1>4. CASE UNCHANGED <<writerVars, rows>>
  <2>1. UNCHANGED <<results, failures, file, buffer, rows>>
    BY <1>4 DEF writerVars
  <2>2. TokensInv'
    BY <2>1 DEF OrderInv, TokensInv, Sorted, Below
  <2> QED BY <1>1, <2>1, <2>2, RowsKept DEF OrderInv
<1>5. CASE Writer!Terminate /\ UNCHANGED rows
  BY <1>1, <1>5, TerminateSorted, RowsKept DEF OrderInv
<1> QED BY <1>2, <1>3, <1>4, <1>5 DEF Record

LEMMA OrderStep ==
  ASSUME BooksInv, OrderInv, [Next]_vars
  PROVE  RowsInv' /\ TokensInv'
<1>1. ASSUME UNCHANGED <<results, failures, file, buffer, rows, delivered>>
      PROVE  RowsInv' /\ TokensInv'
  BY <1>1 DEF OrderInv, RowsInv, TokensInv, Sorted, Below
<1>2. CASE UNCHANGED vars
  BY <1>1, <1>2 DEF vars, feedVars, writerVars
<1>3. CASE main
  BY <1>1, <1>3 DEF main, Feed!Start, Writer!TradeFileWriter
<1>4. CASE \E symbol \in Symbols : Publish(symbol)
  BY <1>1, <1>4 DEF Publish, Feed!Publish, writerVars
<1>5. CASE Connect \/ Disconnect
  BY <1>1, <1>5 DEF Connect, Disconnect, Feed!Connect, Feed!Disconnect, writerVars
<1>6. CASE \E book \in Ticks : on_read(book)
  BY <1>6, OrderRead
<1>7. CASE Die
  <2>1. Writer!Terminate /\ UNCHANGED <<rows, delivered>>
    BY <1>7 DEF Die, Feed!Die
  <2> QED BY <2>1, TerminateSorted, RowsKept DEF OrderInv, Positions
<1> QED BY <1>2, <1>3, <1>4, <1>5, <1>6, <1>7 DEF Next

LEMMA OrderNext == BooksInv /\ OrderInv /\ [Next]_vars => OrderInv'
BY BooksNext, OrderStep DEF BooksInv, OrderInv

LEMMA OrderImpliesProperty == OrderInv => FileIsInOrder
<1> SUFFICES ASSUME OrderInv, NEW i \in DOMAIN file, NEW j \in DOMAIN file,
                    i < j, file[i] > 0, file[j] > 0
             PROVE  rows[file[i]].updateId < rows[file[j]].updateId
  BY DEF FileIsInOrder
<1>1. results \in Nat /\ Sorted(file) /\ Below(file, results)
  BY PrefixSorted DEF OrderInv, RowsInv, TokensInv
<1>2. file[i] \in Int /\ file[j] \in Int
  BY ElementOfSeq, LenProperties DEF OrderInv, TokensInv
<1>3. file[i] \in 1..results /\ file[j] \in 1..results /\ file[i] < file[j]
  BY <1>1, <1>2 DEF Sorted, Below
<1> QED BY <1>3 DEF OrderInv, RowsInv

\* Across reconnections and restarts, the file is in the order of the updates
\* and has each at most once.
THEOREM FileOrder == Spec => []FileIsInOrder
<1>1. Spec => [](BooksInv /\ OrderInv)
  BY BooksInit, BooksNext, OrderInit, OrderNext, PTL DEF Spec
<1> QED BY <1>1, OrderImpliesProperty, PTL

-----------------------------------------------------------------------------
(* The parts of the bot.                                                   *)

LEMMA NextIsFeedStep == [Next]_vars => [Feed!Next]_(Feed!vars)
<1> SUFFICES ASSUME [Next]_vars PROVE [Feed!Next]_(Feed!vars)
  OBVIOUS
<1>1. CASE UNCHANGED vars
  BY <1>1 DEF vars, feedVars, Feed!vars
<1>2. CASE main
  BY <1>2 DEF main, Feed!Next
<1>3. CASE (\E symbol \in Symbols : Publish(symbol)) \/ Connect \/ Disconnect \/ Die
  BY <1>3 DEF Publish, Connect, Disconnect, Die, Feed!Next, Feed!Consume
<1>4. CASE \E book \in Ticks : on_read(book)
  BY <1>4 DEF on_read, Feed!Next, Feed!Consume
<1> QED BY <1>1, <1>2, <1>3, <1>4 DEF Next

\* To the exchange the bot is a feed like any other: neither the server nor
\* the writer makes it skip, repeat or reorder an update.
THEOREM BotImplementsFeed == Spec => Feed!Spec
<1>1. Init => Feed!Init
  BY DEF Init
<1> QED BY <1>1, NextIsFeedStep, PTL DEF Spec, Feed!Spec

LEMMA NextIsWriterStep == [Next]_vars => [Writer!Next]_(Writer!vars)
<1> SUFFICES ASSUME [Next]_vars PROVE [Writer!Next]_(Writer!vars)
  OBVIOUS
<1>1. ASSUME UNCHANGED writerVars PROVE UNCHANGED Writer!vars
  BY <1>1 DEF writerVars, Writer!vars
<1>2. CASE UNCHANGED vars \/ (\E symbol \in Symbols : Publish(symbol)) \/ Connect \/ Disconnect
  BY <1>1, <1>2 DEF vars, Publish, Connect, Disconnect
<1>3. CASE main \/ Die
  BY <1>3 DEF main, Die, Writer!Next
<1>4. CASE \E book \in Ticks : on_read(book)
  <2>1. PICK book \in Ticks : on_read(book)
    BY <1>4
  <2>2. Record(to_struct(Feed!Position + 1, book)) \/ Writer!Terminate
    BY <2>1 DEF on_read
  <2> QED BY <1>1, <2>2 DEF Record, Writer!Next
<1> QED BY <1>2, <1>3, <1>4 DEF Next

\* The bot uses its writer as the writer's specification allows: results come
\* in order, one at a time, and only to a process that runs.
THEOREM BotImplementsWriter == Spec => Writer!Spec
<1>1. Init => Writer!Init
  BY DEF Init
<1> QED BY <1>1, NextIsWriterStep, PTL DEF Spec, Writer!Spec

\* The theorems about the writer, for the bot's.
Lines == INSTANCE TradeFileWriterProofs WITH MaxResults <- MaxPublished, MaxFailures <- 0

LEMMA SameStream ==
  ASSUME NEW s, NEW token
  PROVE  /\ Lines!Insert(s, token) = Writer!Insert(s, token)
         /\ Lines!InsertLine(s, token) = Writer!InsertLine(s, token)
         /\ Lines!Close(s) = Writer!Close(s)
BY DEF Lines!Insert, Writer!Insert, Lines!InsertLine, Writer!InsertLine,
       Lines!Close, Writer!Close, Lines!Fails, Writer!Fails, Lines!Partial, Writer!Partial,
       Lines!EndOfLine, Writer!EndOfLine, Lines!Fragment, Writer!Fragment

LEMMA SameNext == Lines!Next <=> Writer!Next
BY SameStream DEF Lines!Next, Writer!Next, Lines!TradeFileWriter, Writer!TradeFileWriter,
       Lines!write, Writer!write, Lines!Terminate, Writer!Terminate, Lines!Open, Writer!Open,
       Lines!writeLine, Writer!writeLine, Lines!recover, Writer!recover,
       Lines!written, Writer!written, Lines!EndOfLine, Writer!EndOfLine

\* What the writer promises holds in the bot, whose disk does not fail: an open
\* file is complete, a result is missing only when the file could not be
\* opened, and only the end of a process spoils a line.
BotKeepsLines ==
  /\ Writer!OpenFileIsComplete
  /\ Writer!LossIsAnnounced
  /\ starts > 0 => Cardinality(Writer!Glued) <= starts - 1

THEOREM LinesOfTheBot == Spec => []BotKeepsLines
<1>1. Writer!Init => Lines!Init
  BY DEF Writer!Init, Lines!Init
<1>2. [Writer!Next]_(Writer!vars) => [Lines!Next]_(Lines!vars)
  BY SameNext DEF Writer!vars, Lines!vars
<1>3. Writer!Spec => Lines!Spec
  BY <1>1, <1>2, PTL DEF Writer!Spec, Lines!Spec
<1>4. /\ Lines!Spec => []Lines!TypeOK
      /\ Lines!Spec => []Lines!OpenFileIsComplete
      /\ Lines!Spec => []Lines!LossIsAnnounced
      /\ Lines!Spec => []Lines!DamageIsBounded
  BY BoundsAssumption, Lines!TypeCorrect, Lines!NoLineLostWhileOpen, Lines!LossesAreAnnounced,
     Lines!DamageBounded
<1>5. Lines!OpenFileIsComplete /\ Lines!LossIsAnnounced
        => Writer!OpenFileIsComplete /\ Writer!LossIsAnnounced
  BY DEF Lines!OpenFileIsComplete, Lines!LossIsAnnounced,
         Writer!OpenFileIsComplete, Writer!LossIsAnnounced
<1>6. ASSUME Lines!TypeOK, Lines!DamageIsBounded, starts > 0
      PROVE  Cardinality(Writer!Glued) <= starts - 1
  <2>1. failures = 0 /\ starts \in Nat
    BY BoundsAssumption, <1>6 DEF Lines!TypeOK
  <2>2. Lines!Glued = Writer!Glued
    BY DEF Lines!Glued, Writer!Glued, Lines!EndOfLine, Writer!EndOfLine
  <2>3. Lines!Cardinality(Writer!Glued) = Cardinality(Writer!Glued)
    BY DEF Lines!Cardinality, Cardinality
  <2>4. Cardinality(Writer!Glued) <= 2 * failures + (starts - 1)
    BY <1>6, <2>2, <2>3 DEF Lines!DamageIsBounded
  <2> QED BY <2>1, <2>4
<1>7. Lines!TypeOK /\ Lines!OpenFileIsComplete /\ Lines!LossIsAnnounced /\ Lines!DamageIsBounded
        => BotKeepsLines
  BY <1>5, <1>6 DEF BotKeepsLines
<1> QED BY <1>3, <1>4, <1>7, BotImplementsWriter, PTL

-----------------------------------------------------------------------------
(* Why a gap between adjacent lines of the file holds only updates that    *)
(* were missed or dropped: the lines of one process are of consecutive     *)
(* results, and the server was silent only about drops between them.       *)

\* The rows of the running process, or of the last one, are those from first on.
RowProcesses ==
  /\ starts \in Nat /\ first \in 1..(results + 1)
  /\ \A r \in 1..results :
       /\ rows[r].process \in 0..starts
       /\ r >= first <=> rows[r].process = starts

\* What happened to an update is known once it was delivered.
Outcomes == DOMAIN outcome \subseteq 1..delivered

\* A process that has a result does not wait for symbols again.
NoMoreWaiting == alive /\ results >= first => Cardinality(DOMAIN pairToPriceMap) >= 3

DroppedWithin(low, high) == \A u \in DOMAIN outcome : low < u /\ u < high => outcome[u] = "dropped"

\* Since its last result a process has only dropped.
LastGap ==
  alive /\ results >= first =>
    \A u \in DOMAIN outcome : u > rows[results].updateId => outcome[u] = "dropped"

\* So has it between two results.
RowGaps ==
  \A r \in 1..(results - 1) :
    rows[r].process = rows[r + 1].process =>
      DroppedWithin(rows[r].updateId, rows[r + 1].updateId)

SilenceInv == RowProcesses /\ Outcomes /\ NoMoreWaiting /\ LastGap /\ RowGaps

Occurs(r, tokens) == \E k \in DOMAIN tokens : tokens[k] = r

\* An open file has every result of its process.
AllFound == is_open => \A r \in first..results : Occurs(r, file \o buffer)

\* The results of one process in the file are consecutive.
Convex(tokens) ==
  \A i, j \in DOMAIN tokens :
    /\ tokens[i] > 0 /\ tokens[j] > 0
    /\ rows[tokens[i]].process = rows[tokens[j]].process
    => \A r \in tokens[i]..tokens[j] : Occurs(r, tokens)

LinesInv == AllFound /\ Convex(file \o buffer)

GapsInv == SilenceInv /\ LinesInv

-----------------------------------------------------------------------------
(* What the server was silent about.                                       *)

LEMMA SilenceKept ==
  ASSUME SilenceInv, UNCHANGED <<starts, first, results, rows, outcome, delivered>>,
         pairToPriceMap' = pairToPriceMap, alive' => alive
  PROVE  SilenceInv'
BY DEF SilenceInv, RowProcesses, Outcomes, NoMoreWaiting, LastGap, RowGaps, DroppedWithin

\* A new process has no results, and its number is new.
LEMMA SilenceMain ==
  ASSUME SilenceInv, results \in Nat, main
  PROVE  SilenceInv'
<1>1. /\ starts' = starts + 1 /\ first' = results + 1
      /\ UNCHANGED <<results, rows, outcome, delivered>>
  BY DEF main, Writer!TradeFileWriter, Feed!Start
<1>2. RowProcesses'
  BY <1>1 DEF SilenceInv, RowProcesses
<1>3. NoMoreWaiting' /\ LastGap'
  BY <1>1 DEF NoMoreWaiting, LastGap
<1> QED BY <1>1, <1>2, <1>3 DEF SilenceInv, Outcomes, RowGaps, DroppedWithin

\* A delivered update is the first of its number, and adds one outcome.
LEMMA OutcomeAdded ==
  ASSUME BooksInv, SilenceInv, NEW book \in Ticks, on_read(book)
  PROVE  LET known == IF status' = "running" THEN result'.kind ELSE "exception" IN
         /\ delivered \in Nat /\ delivered' \in Nat /\ delivered < delivered'
         /\ DOMAIN outcome' = DOMAIN outcome \cup {delivered'}
         /\ \A u \in DOMAIN outcome : outcome'[u] = outcome[u]
         /\ outcome'[delivered'] = known
         /\ Outcomes'
<1> DEFINE known == IF status' = "running" THEN result'.kind ELSE "exception"
           id == Feed!Position + 1
<1>1. /\ delivered' = id /\ Feed!Position \in Nat /\ delivered <= Feed!Position
      /\ delivered \in Nat
  BY Heard, PositionType DEF BooksInv, Positions
<1>2. to_struct(id, book).updateId = id
  BY DEF to_struct, OrderBookTick
<1>3. outcome' = Known(id, known)
  BY <1>2 DEF on_read
<1> HIDE DEF id, known
<1>4. DOMAIN outcome \subseteq 1..delivered
  BY DEF SilenceInv, Outcomes
<1>5. id \in Nat /\ delivered < id
  BY <1>1 DEF id
<1>6. id \notin DOMAIN outcome
  BY <1>1, <1>4, <1>5
<1>7. /\ DOMAIN outcome' = DOMAIN outcome \cup {id}
      /\ \A u \in DOMAIN outcome : outcome'[u] = outcome[u]
      /\ outcome'[id] = known
  BY <1>3, <1>6 DEF Known
<1>8. Outcomes'
  BY <1>1, <1>4, <1>5, <1>7 DEF Outcomes
<1> QED BY <1>1, <1>5, <1>7, <1>8 DEF known

\* A process with a result does not wait: what it does not record it drops.
LEMMA SilenceIsDropping ==
  ASSUME ServerInv, SilenceInv, results >= first, NEW book \in Ticks, on_read(book), alive,
         status' = "running"
  PROVE  result'.kind \in {"dropped", "recorded"} /\ Cardinality(DOMAIN pairToPriceMap') >= 3
<1> DEFINE tick == to_struct(Feed!Position + 1, book)
           books == Server!Put(pairToPriceMap, tick.symbol, tick)
<1>1. Server!on_update(tick.symbol, tick)
  BY DEF on_read
<1>2. /\ Cardinality(DOMAIN pairToPriceMap) \in Nat /\ Cardinality(DOMAIN books) \in Nat
      /\ DOMAIN pairToPriceMap \subseteq DOMAIN books /\ IsFiniteSet(DOMAIN books)
  BY PutGrows DEF ServerInv, Server!Put
<1>3. Cardinality(DOMAIN pairToPriceMap) <= Cardinality(DOMAIN books)
  BY <1>2, FS_Subset
<1>4. Cardinality(DOMAIN books) >= 3
  BY <1>2, <1>3 DEF SilenceInv, NoMoreWaiting
<1>5. pairToPriceMap' = books
  BY <1>1 DEF Server!on_update
<1> HIDE DEF tick
<1>6. Server!evaluate(books, startingNotional', age' >= 0)
  BY <1>1, <1>2, <1>4, SameCardinality DEF Server!on_update
<1> HIDE DEF books
<1>7. result' = Server!Evaluation(books, startingNotional')
  BY <1>6 DEF Server!evaluate
<1>8. result'.kind \in {"dropped", "recorded"}
  BY <1>7 DEF Server!Evaluation, Server!Outcome, Server!Dropped
<1> QED BY <1>4, <1>5, <1>8

\* Nothing is recorded before three symbols are known.
LEMMA RecordedNeedsThree ==
  ASSUME NEW book \in Ticks, on_read(book), result'.kind = "recorded", status' = "running"
  PROVE  Cardinality(DOMAIN pairToPriceMap') >= 3
<1> DEFINE tick == to_struct(Feed!Position + 1, book)
           books == Server!Put(pairToPriceMap, tick.symbol, tick)
<1>1. Server!on_update(tick.symbol, tick)
  BY DEF on_read
<1>2. pairToPriceMap' = books
  BY <1>1 DEF Server!on_update
<1>3. result' # Server!Waiting
  BY DEF Server!Waiting
<1> HIDE DEF tick
<1> QED BY <1>1, <1>2, <1>3, SameCardinality DEF Server!on_update

\* A result closes the gap behind the one before it.
LEMMA SilenceRecord ==
  ASSUME RowsInv, SilenceInv, alive, NEW row, row.updateId = delivered', row.process = starts,
         delivered \in Nat, delivered' \in Nat, delivered < delivered', Outcomes',
         DOMAIN outcome' = DOMAIN outcome \cup {delivered'},
         \A u \in DOMAIN outcome : outcome'[u] = outcome[u],
         results' = results + 1, UNCHANGED <<starts, first>>,
         \A k \in 1..results : rows'[k] = rows[k], rows'[results + 1] = row
  PROVE  RowProcesses' /\ LastGap' /\ RowGaps'
<1>1. /\ results \in Nat /\ first \in 1..(results + 1) /\ starts \in Nat
      /\ \A k \in 1..results : rows'[k] = rows[k]
      /\ rows'[results + 1] = row
  BY DEF RowsInv, SilenceInv, RowProcesses
<1>2. RowProcesses'
  BY <1>1 DEF SilenceInv, RowProcesses
<1>3. \A u \in DOMAIN outcome : u \in Nat /\ u < delivered'
  BY DEF SilenceInv, Outcomes
<1>4. LastGap'
  BY <1>1, <1>3 DEF LastGap
<1>5. ASSUME NEW r \in 1..results, rows'[r].process = rows'[r + 1].process,
             NEW u \in DOMAIN outcome', rows'[r].updateId < u, u < rows'[r + 1].updateId
      PROVE  outcome'[u] = "dropped"
  <2>1. r \in Nat /\ rows'[r] = rows[r]
    BY <1>1
  <2>2. CASE r = results
    <3>0. rows'[r + 1] = row
      BY <1>1, <2>2
    <3>1. rows[results].process = starts /\ u < delivered' /\ u \in DOMAIN outcome
      BY <1>5, <2>1, <2>2, <3>0
    <3>2. results >= first
      BY <1>1, <2>2, <3>1 DEF SilenceInv, RowProcesses
    <3>3. rows[results].updateId \in Nat /\ u \in Nat
      BY <1>3, <2>2, <3>1 DEF RowsInv
    <3> QED BY <1>5, <2>1, <2>2, <3>1, <3>2, <3>3 DEF SilenceInv, LastGap
  <2>3. CASE r \in 1..(results - 1)
    <3> DEFINE next == r + 1
    <3>0. next \in 1..results
      BY <1>1, <2>3
    <3> HIDE DEF next
    <3>1. next \in 1..results /\ rows'[next] = rows[next]
      BY <1>1, <3>0
    <3> USE DEF next
    <3>2. rows[r + 1].updateId \in Nat /\ rows[r + 1].updateId <= delivered
      BY <3>1 DEF RowsInv
    <3>3. u \in DOMAIN outcome
      BY <1>5, <3>1, <3>2
    <3> QED BY <1>5, <2>1, <2>3, <3>1, <3>3 DEF SilenceInv, RowGaps, DroppedWithin
  <2> QED BY <1>1, <2>2, <2>3
<1>6. RowGaps'
  <2>1. results' - 1 = results
    BY <1>1
  <2> QED BY <1>5, <2>1 DEF RowGaps, DroppedWithin
<1> QED BY <1>2, <1>4, <1>6

\* An update without a result lies behind all gaps that are closed.
LEMMA SilenceGoesOn ==
  ASSUME RowsInv, SilenceInv,
         delivered \in Nat, delivered' \in Nat, delivered < delivered',
         DOMAIN outcome' = DOMAIN outcome \cup {delivered'},
         \A u \in DOMAIN outcome : outcome'[u] = outcome[u],
         UNCHANGED <<rows, results, starts, first>>
  PROVE  RowProcesses' /\ RowGaps'
<1>1. RowProcesses'
  BY DEF SilenceInv, RowProcesses
<1>2. ASSUME NEW r \in 1..(results - 1), rows[r].process = rows[r + 1].process,
             NEW u \in DOMAIN outcome', rows[r].updateId < u, u < rows[r + 1].updateId
      PROVE  outcome'[u] = "dropped"
  <2>1. r + 1 \in 1..results
    BY DEF RowsInv
  <2>2. rows[r + 1].updateId \in Nat /\ rows[r + 1].updateId <= delivered
    BY <2>1 DEF RowsInv
  <2>3. u \in DOMAIN outcome
    BY <1>2, <2>2
  <2> QED BY <1>2, <2>3 DEF SilenceInv, RowGaps, DroppedWithin
<1> QED BY <1>1, <1>2 DEF RowGaps, DroppedWithin

LEMMA SilenceRead ==
  ASSUME BooksInv, ServerInv, OrderInv, SilenceInv, NEW book \in Ticks, on_read(book)
  PROVE  SilenceInv'
<1> DEFINE tick == to_struct(Feed!Position + 1, book)
           known == IF status' = "running" THEN result'.kind ELSE "exception"
<1>1. /\ delivered \in Nat /\ delivered' \in Nat /\ delivered < delivered'
      /\ DOMAIN outcome' = DOMAIN outcome \cup {delivered'}
      /\ \A u \in DOMAIN outcome : outcome'[u] = outcome[u]
      /\ outcome'[delivered'] = known
      /\ Outcomes'
  BY OutcomeAdded
<1>2. \/ status' = "running" /\ Record(tick)
      \/ status' # "running" /\ Feed!Deliver(TRUE) /\ Writer!Terminate /\ UNCHANGED rows
  BY DEF on_read
<1>3. alive /\ results \in Nat /\ RowsInv /\ RowProcesses /\ delivered' = Feed!Position + 1
  BY Heard DEF OrderInv, RowsInv, SilenceInv
<1>4. ASSUME status' = "running", result'.kind = "recorded",
             Writer!write(results + 1), rows' = Append(rows, ArbitrageResult(tick, result'))
      PROVE  SilenceInv'
  <2> DEFINE row == ArbitrageResult(tick, result')
  <2>1. row.updateId = delivered' /\ row.process = starts
    BY <1>3 DEF ArbitrageResult, to_struct, OrderBookTick
  <2>2. results' = results + 1 /\ UNCHANGED <<starts, first>>
    BY <1>4 DEF Writer!write
  <2> HIDE DEF row
  <2>3. RowProcesses' /\ LastGap' /\ RowGaps'
    <3>1. /\ \A k \in 1..results : rows'[k] = rows[k]
          /\ rows'[results + 1] = row
      BY <1>3, <1>4, RowsGrow DEF row
    <3> QED BY <1>1, <1>3, <2>1, <2>2, <3>1, SilenceRecord
  <2>4. NoMoreWaiting'
    BY <1>3, <1>4, RecordedNeedsThree DEF NoMoreWaiting
  <2> QED BY <1>1, <2>3, <2>4 DEF SilenceInv
<1>5. ASSUME status' = "running", result'.kind # "recorded", UNCHANGED <<writerVars, rows>>
      PROVE  SilenceInv'
  <2>1. UNCHANGED <<rows, results, starts, first>>
    BY <1>5 DEF writerVars
  <2>2. RowProcesses' /\ RowGaps'
    BY <1>1, <1>3, <2>1, SilenceGoesOn
  <2>3. ASSUME results >= first
        PROVE  known = "dropped" /\ Cardinality(DOMAIN pairToPriceMap') >= 3
    BY <1>3, <1>5, <2>3, SilenceIsDropping
  <2> HIDE DEF known
  <2>4. NoMoreWaiting'
    BY <2>1, <2>3 DEF NoMoreWaiting
  <2>5. LastGap'
    BY <1>1, <1>3, <2>1, <2>3 DEF SilenceInv, LastGap
  <2> QED BY <1>1, <2>2, <2>4, <2>5 DEF SilenceInv
<1>6. ASSUME Feed!Deliver(TRUE), Writer!Terminate, UNCHANGED rows
      PROVE  SilenceInv'
  <2>1. UNCHANGED <<rows, results, starts, first>>
    BY <1>6 DEF Writer!Terminate
  <2>2. RowProcesses' /\ RowGaps'
    BY <1>1, <1>3, <2>1, SilenceGoesOn
  <2>3. ~alive'
    BY <1>6 DEF Feed!Deliver
  <2> QED BY <1>1, <2>2, <2>3 DEF SilenceInv, NoMoreWaiting, LastGap
<1> QED BY <1>2, <1>4, <1>5, <1>6 DEF Record

LEMMA SilenceInit == Init => SilenceInv
<1> SUFFICES ASSUME Init PROVE SilenceInv
  OBVIOUS
<1>1. /\ starts = 0 /\ first = 1 /\ results = 0 /\ outcome = <<>> /\ alive = FALSE
  BY DEF Init, Writer!Init, Feed!Init
<1>2. DOMAIN outcome = {}
  BY <1>1, EmptySeq
<1> QED BY <1>1, <1>2 DEF SilenceInv, RowProcesses, Outcomes, NoMoreWaiting, LastGap, RowGaps

LEMMA SilenceNext ==
  ASSUME BooksInv, ServerInv, OrderInv, SilenceInv, [Next]_vars
  PROVE  SilenceInv'
<1>1. CASE UNCHANGED vars
  BY <1>1, SilenceKept DEF vars, feedVars, serverVars, writerVars
<1>2. CASE main
  BY <1>2, SilenceMain DEF OrderInv, RowsInv
<1>3. CASE \E symbol \in Symbols : Publish(symbol)
  BY <1>3, SilenceKept DEF Publish, Feed!Publish, serverVars, writerVars
<1>4. CASE Connect \/ Disconnect
  BY <1>4, SilenceKept DEF Connect, Disconnect, Feed!Connect, Feed!Disconnect, serverVars, writerVars
<1>5. CASE \E book \in Ticks : on_read(book)
  BY <1>5, SilenceRead
<1>6. CASE Die
  BY <1>6, SilenceKept DEF Die, Feed!Die, Writer!Terminate, serverVars
<1> QED BY <1>1, <1>2, <1>3, <1>4, <1>5, <1>6 DEF Next

-----------------------------------------------------------------------------
(* Which results have lines.                                               *)

\* A longer text has what the text had, and the new tokens.
LEMMA OccursAppend ==
  ASSUME NEW s \in Seq(Int), NEW token \in Int
  PROVE  LET longer == Append(s, token) IN
         /\ longer \in Seq(Int)
         /\ \A r : Occurs(r, s) => Occurs(r, longer)
         /\ Occurs(token, longer)
         /\ \A k \in DOMAIN longer : (k \in DOMAIN s /\ longer[k] = s[k]) \/ longer[k] = token
<1> DEFINE longer == Append(s, token)
<1>1. Len(s) \in Nat /\ DOMAIN s = 1..Len(s)
  BY LenProperties
<1>2. /\ longer \in Seq(Int) /\ Len(longer) = Len(s) + 1
      /\ \A i \in 1..Len(s) : longer[i] = s[i]
      /\ longer[Len(s) + 1] = token
  BY AppendProperties
<1> HIDE DEF longer
<1>3. DOMAIN longer = 1..(Len(s) + 1)
  BY <1>2, LenProperties
<1>4. \A k \in DOMAIN longer : (k \in DOMAIN s /\ longer[k] = s[k]) \/ longer[k] = token
  BY <1>1, <1>2, <1>3
<1>5. /\ \A r : Occurs(r, s) => Occurs(r, longer)
      /\ Occurs(token, longer)
  BY <1>1, <1>2, <1>3 DEF Occurs
<1> QED BY <1>2, <1>4, <1>5 DEF longer

\* The tokens of results are among the results.
LEMMA TokenIsResult ==
  ASSUME OrderInv, NEW i \in DOMAIN (file \o buffer), (file \o buffer)[i] > 0
  PROVE  (file \o buffer)[i] \in 1..results
<1> DEFINE text == file \o buffer
<1>1. text \in Seq(Int) /\ Below(text, results) /\ results \in Nat
  BY ConcatProperties DEF OrderInv, TokensInv, RowsInv
<1> HIDE DEF text
<1>2. text[i] \in Int /\ text[i] <= results /\ text[i] > 0
  BY <1>1, ElementOfSeq, LenProperties DEF Below, text
<1>3. text[i] \in 1..results
  BY <1>1, <1>2
<1> QED BY <1>3 DEF text

\* A line more keeps the results of each process consecutive, for an open file
\* has all of the running process.
LEMMA LinesWrite ==
  ASSUME OrderInv, RowProcesses, LinesInv, Writer!write(results + 1),
         NEW row, row.process = starts, rows' = Append(rows, row)
  PROVE  LinesInv'
<1> DEFINE text == file \o buffer
           more == Append(text, results + 1)
<1>1. /\ results' = results + 1 /\ first' = first /\ results \in Nat /\ first \in 1..(results + 1)
      /\ text \in Seq(Int)
  BY ConcatProperties DEF Writer!write, OrderInv, RowsInv, TokensInv, RowProcesses
<1>2. \/ ~is_open' /\ text' = text
      \/ is_open /\ text' = Append(more, 0)
  BY WriteAppends
<1>3. /\ \A r \in 1..results : rows'[r] = rows[r]
      /\ rows'[results + 1] = row
  BY RowsGrow DEF OrderInv
<1>4. \A i \in DOMAIN text : text[i] > 0 => text[i] \in 1..results
  BY TokenIsResult
<1>5. AllFound /\ Convex(text)
  BY DEF LinesInv
<1>6. is_open => \A r \in first..results : Occurs(r, text)
  BY <1>5 DEF AllFound
<1> HIDE DEF text
<1>7. ASSUME NEW i \in DOMAIN text, NEW j \in DOMAIN text, text[i] > 0, text[j] > 0,
             rows'[text[i]].process = rows'[text[j]].process, NEW r \in text[i]..text[j]
      PROVE  Occurs(r, text)
  <2>1. text[i] \in 1..results /\ text[j] \in 1..results
    BY <1>4, <1>7
  <2>2. rows[text[i]].process = rows[text[j]].process
    BY <1>3, <1>7, <2>1
  <2> QED BY <1>5, <1>7, <2>2 DEF Convex
<1>8. CASE ~is_open' /\ text' = text
  <2>1. Convex(text)'
    BY <1>7, <1>8 DEF Convex
  <2> QED BY <1>8, <2>1 DEF LinesInv, AllFound, text
<1>9. CASE is_open /\ text' = Append(more, 0)
  <2>1. /\ more \in Seq(Int)
        /\ \A r : Occurs(r, text) => Occurs(r, more)
        /\ Occurs(results + 1, more)
        /\ \A k \in DOMAIN more : (k \in DOMAIN text /\ more[k] = text[k]) \/ more[k] = results + 1
    <3>1. results + 1 \in Int
      BY <1>1
    <3> QED BY <1>1, <3>1, OccursAppend
  <2> HIDE DEF more
  <2>2. /\ \A r : Occurs(r, more) => Occurs(r, text')
        /\ \A k \in DOMAIN text' : (k \in DOMAIN more /\ text'[k] = more[k]) \/ text'[k] = 0
    <3>1. 0 \in Int
      OBVIOUS
    <3> QED BY <1>9, <2>1, <3>1, OccursAppend
  <2>3. /\ \A r : Occurs(r, text) => Occurs(r, text')
        /\ Occurs(results + 1, text')
    BY <2>1, <2>2
  <2>4. \A k \in DOMAIN text' :
          text'[k] > 0 => (k \in DOMAIN text /\ text'[k] = text[k]) \/ text'[k] = results + 1
    BY <2>1, <2>2
  <2>5. \A r \in first..(results + 1) : Occurs(r, text')
    <3>1. \A r \in first..(results + 1) : r \in first..results \/ r = results + 1
      BY <1>1
    <3> QED BY <1>6, <1>9, <2>3, <3>1
  <2>6. AllFound'
    BY <1>1, <2>5 DEF AllFound, text
  <2>7. ASSUME NEW i \in DOMAIN text', NEW j \in DOMAIN text', text'[i] > 0, text'[j] > 0,
               rows'[text'[i]].process = rows'[text'[j]].process, NEW r \in text'[i]..text'[j]
        PROVE  Occurs(r, text')
    <3>1. CASE /\ i \in DOMAIN text /\ text'[i] = text[i]
               /\ j \in DOMAIN text /\ text'[j] = text[j]
      BY <1>7, <2>3, <2>7, <3>1
    <3>2. CASE i \in DOMAIN text /\ text'[i] = text[i] /\ text'[j] = results + 1
      <4>1. text[i] \in 1..results
        BY <1>4, <2>7, <3>2
      <4>2. rows[text[i]].process = starts
        BY <1>3, <2>7, <3>2, <4>1
      <4>3. text[i] >= first
        BY <4>1, <4>2 DEF RowProcesses
      <4>4. r \in first..(results + 1)
        BY <1>1, <2>7, <3>2, <4>1, <4>3
      <4> QED BY <2>5, <4>4
    <3>3. CASE text'[i] = results + 1
      <4>1. text'[j] \in Int /\ text'[j] <= results + 1
        BY <1>1, <1>4, <2>4, <2>7
      <4>2. r = results + 1
        BY <1>1, <2>7, <3>3, <4>1
      <4> QED BY <2>3, <4>2
    <3> QED BY <2>4, <2>7, <3>1, <3>2, <3>3
  <2>8. Convex(text)'
    BY <2>7 DEF Convex
  <2> QED BY <2>6, <2>8 DEF LinesInv, text
<1> QED BY <1>2, <1>8, <1>9

\* What is lost with the buffer lay behind all that is in the file.
LEMMA LinesTerminate ==
  ASSUME OrderInv, LinesInv, Writer!Terminate, UNCHANGED rows
  PROVE  LinesInv'
<1> DEFINE text == file \o buffer
<1>1. ~is_open' /\ file' = file /\ buffer' = <<>>
  BY DEF Writer!Terminate
<1>2. file \in Seq(Int) /\ buffer \in Seq(Int) /\ Sorted(text) /\ Convex(text)
  BY DEF OrderInv, TokensInv, LinesInv
<1>3. /\ (file \o buffer)' = file /\ text \in Seq(Int)
      /\ Len(file) \in Nat /\ DOMAIN file = 1..Len(file)
      /\ DOMAIN text \subseteq Nat /\ DOMAIN file \subseteq DOMAIN text
      /\ \A k \in DOMAIN file : text[k] = file[k]
  BY <1>1, <1>2, ConcatEmptySeq, ConcatProperties, LenProperties
<1>4. \A k \in DOMAIN text : text[k] \in Int
  BY <1>3, ElementOfSeq, LenProperties
<1> HIDE DEF text
<1>5. ASSUME NEW i \in DOMAIN file, NEW j \in DOMAIN file, file[i] > 0, file[j] > 0,
             rows[file[i]].process = rows[file[j]].process, NEW r \in file[i]..file[j]
      PROVE  Occurs(r, file)
  <2>1. /\ i \in DOMAIN text /\ j \in DOMAIN text /\ text[i] = file[i] /\ text[j] = file[j]
        /\ file[i] \in Int /\ file[j] \in Int
    BY <1>3, <1>4
  <2>2. PICK k \in DOMAIN text : text[k] = r
    BY <1>2, <1>5, <2>1 DEF Convex, Occurs
  <2>3. r > 0 /\ r <= text[j] /\ r \in Int
    BY <1>5, <2>1
  <2>4. ~(j < k)
    BY <1>2, <1>5, <2>1, <2>2, <2>3 DEF Sorted
  <2>5. k \in 1..Len(file)
    <3>1. j \in 1..Len(file) /\ k \in Nat /\ k >= 1
      BY <1>3, <2>2, LenProperties
    <3> QED BY <1>3, <2>4, <3>1
  <2> QED BY <1>3, <2>2, <2>5 DEF Occurs
<1>6. Convex(file)'
  BY <1>1, <1>5 DEF Convex
<1> QED BY <1>1, <1>3, <1>6 DEF LinesInv, AllFound

LEMMA LinesInit == Init => LinesInv
<1> SUFFICES ASSUME Init PROVE LinesInv
  OBVIOUS
<1>1. file = <<>> /\ buffer = <<>> /\ is_open = FALSE
  BY DEF Init, Writer!Init
<1>2. <<>> \o <<>> = <<>> /\ DOMAIN <<>> = {}
  BY EmptySeq, ConcatEmptySeq
<1> QED BY <1>1, <1>2 DEF LinesInv, AllFound, Convex

LEMMA LinesNext ==
  ASSUME OrderInv, RowProcesses, LinesInv, [Next]_vars
  PROVE  LinesInv'
<1>1. ASSUME UNCHANGED <<file, buffer, rows, results>>,
             \/ first' = results + 1
             \/ first' = first /\ is_open' = is_open
      PROVE  LinesInv'
  <2>1. results \in Nat /\ first \in Int
    BY DEF OrderInv, RowsInv, RowProcesses
  <2>2. Convex(file \o buffer)'
    BY <1>1 DEF LinesInv, Convex, Occurs
  <2>3. ASSUME is_open', NEW r \in first'..results PROVE Occurs(r, file \o buffer)'
    <3>1. first' # results + 1
      BY <2>1, <2>3
    <3>2. is_open /\ r \in first..results
      BY <1>1, <2>3, <3>1, Zenon
    <3> QED BY <1>1, <3>2 DEF LinesInv, AllFound, Occurs
  <2> QED BY <1>1, <2>2, <2>3 DEF LinesInv, AllFound
<1>2. ASSUME UNCHANGED <<writerVars, rows>> PROVE LinesInv'
  BY <1>1, <1>2 DEF writerVars
<1>3. CASE UNCHANGED vars \/ (\E symbol \in Symbols : Publish(symbol)) \/ Connect \/ Disconnect
  BY <1>2, <1>3 DEF vars, Publish, Connect, Disconnect
<1>4. CASE main
  <2>1. UNCHANGED <<file, buffer, rows, results>> /\ first' = results + 1
    BY <1>4 DEF main, Writer!TradeFileWriter
  <2>2. results \in Nat
    BY DEF OrderInv, RowsInv
  <2> QED BY <1>1, <2>1, <2>2
<1>5. ASSUME NEW book \in Ticks, on_read(book) PROVE LinesInv'
  <2>1. \/ Record(to_struct(Feed!Position + 1, book))
        \/ Writer!Terminate /\ UNCHANGED rows
    BY <1>5 DEF on_read
  <2>2. ArbitrageResult(to_struct(Feed!Position + 1, book), result').process = starts
    BY DEF ArbitrageResult
  <2> QED BY <1>2, <2>1, <2>2, LinesWrite, LinesTerminate DEF Record
<1>6. CASE Die
  BY <1>6, LinesTerminate DEF Die
<1> QED BY <1>3, <1>4, <1>5, <1>6 DEF Next

-----------------------------------------------------------------------------
(* The property.                                                           *)

\* Adjacent lines of one process are of consecutive results.
LEMMA AdjacentAreConsecutive ==
  ASSUME OrderInv, LinesInv, NEW i \in DOMAIN file, NEW j \in DOMAIN file,
         i < j, file[i] > 0, file[j] > 0, \A k \in (i + 1)..(j - 1) : file[k] <= 0,
         rows[file[i]].process = rows[file[j]].process
  PROVE  file[i] \in 1..(results - 1) /\ file[j] = file[i] + 1
<1> DEFINE text == file \o buffer
<1>1. file \in Seq(Int) /\ buffer \in Seq(Int) /\ Sorted(text) /\ Convex(text) /\ results \in Nat
  BY DEF OrderInv, RowsInv, TokensInv, LinesInv
<1>2. /\ Len(file) \in Nat /\ DOMAIN file = 1..Len(file)
      /\ DOMAIN text \subseteq Nat /\ DOMAIN file \subseteq DOMAIN text
      /\ \A k \in DOMAIN file : text[k] = file[k]
  BY <1>1, ConcatProperties, LenProperties
<1>3. file[i] \in 1..results /\ file[j] \in 1..results
  BY <1>2, TokenIsResult
<1> HIDE DEF text
<1>4. i \in DOMAIN text /\ j \in DOMAIN text /\ text[i] = file[i] /\ text[j] = file[j]
  BY <1>2
<1>5. file[i] < file[j]
  BY <1>1, <1>4 DEF Sorted
<1>6. ASSUME file[i] + 1 < file[j] PROVE FALSE
  <2> DEFINE r == file[i] + 1
  <2>1. r \in file[i]..file[j] /\ r > 0 /\ r \in Int
    BY <1>3, <1>6
  <2>2. PICK k \in DOMAIN text : text[k] = r
    BY <1>1, <1>4, <2>1 DEF Convex, Occurs
  <2>3. k \in Nat /\ i \in Nat /\ j \in Nat
    BY <1>2
  <2>4. i < k
    <3>1. ~(k < i)
      BY <1>1, <1>3, <1>4, <2>1, <2>2 DEF Sorted
    <3>2. k # i
      BY <1>3, <1>4, <2>2
    <3> QED BY <2>3, <3>1, <3>2
  <2>5. k < j
    <3>1. ~(j < k)
      BY <1>1, <1>3, <1>4, <1>6, <2>1, <2>2 DEF Sorted
    <3>2. k # j
      BY <1>3, <1>4, <1>6, <2>2
    <3> QED BY <2>3, <3>1, <3>2
  <2>6. k \in (i + 1)..(j - 1) /\ k \in DOMAIN file
    BY <1>2, <2>3, <2>4, <2>5
  <2> QED BY <1>2, <2>1, <2>2, <2>6
<1> QED BY <1>1, <1>3, <1>5, <1>6

LEMMA GapsImplyProperty ==
  ASSUME OrderInv, GapsInv PROVE GapsAreExplained
<1> SUFFICES ASSUME NEW i \in DOMAIN file, NEW j \in DOMAIN file,
                    i < j, file[i] > 0, file[j] > 0,
                    \A k \in (i + 1)..(j - 1) : file[k] <= 0,
                    rows[file[i]].process = rows[file[j]].process,
                    NEW u \in (rows[file[i]].updateId + 1)..(rows[file[j]].updateId - 1),
                    u \in DOMAIN outcome
             PROVE  outcome[u] = "dropped"
  BY DEF GapsAreExplained
<1> DEFINE r == file[i]
<1>1. r \in 1..(results - 1) /\ file[j] = r + 1 /\ results \in Nat
  BY AdjacentAreConsecutive DEF GapsInv, OrderInv, RowsInv
<1> HIDE DEF r
<1>2. r \in 1..results /\ r + 1 \in 1..results
  BY <1>1
<1>3. rows[r].updateId \in Nat /\ rows[r + 1].updateId \in Nat
  BY <1>2 DEF OrderInv, RowsInv
<1>4. rows[r].process = rows[r + 1].process
  BY <1>1 DEF r
<1>5. DroppedWithin(rows[r].updateId, rows[r + 1].updateId)
  BY <1>1, <1>4 DEF GapsInv, SilenceInv, RowGaps
<1>6. rows[r].updateId < u /\ u < rows[r + 1].updateId
  BY <1>1, <1>3 DEF r
<1> QED BY <1>5, <1>6 DEF DroppedWithin

\* Between adjacent lines of one process lie only updates that the bot missed
\* and updates that the server dropped: none that waited for symbols, none
\* that ended a process, and no result whose line is missing.
THEOREM GapsExplained == Spec => []GapsAreExplained
<1>1. Init => BooksInv /\ ServerInv /\ OrderInv /\ GapsInv
  BY BooksInit, ServerInit, OrderInit, SilenceInit, LinesInit DEF GapsInv
<1>2. BooksInv /\ ServerInv /\ OrderInv /\ GapsInv /\ [Next]_vars
        => (BooksInv /\ ServerInv /\ OrderInv /\ GapsInv)'
  BY BooksNext, ServerNext, OrderNext, SilenceNext, LinesNext DEF GapsInv, SilenceInv
<1> QED BY <1>1, <1>2, GapsImplyProperty, PTL DEF Spec
=============================================================================
