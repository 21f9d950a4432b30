------------------------ MODULE BinanceClientProofs ------------------------
(***************************************************************************)
(* The safety properties of the client, proved for every number of         *)
(* published messages and any number of reconnections.                     *)
(***************************************************************************)
EXTENDS BinanceClient, TLAPS

StreamOps == DOMAIN StreamStage

\* Outside a dying process nothing stays in the buffer between handlers.
BufferDropped == status # "terminated" => buffer = <<>>

\* Only a running process has an operation outstanding.
RunningOnly == status # "running" => \A op \in Operations : pending[op] = 0

\* A connection attempt starts on a fresh stream.
ResolvesFresh == pending["resolve"] > 0 => ws = "reset"

\* Only an open connection carries messages, and nothing is passed on that
\* was not published.
Carries ==
  /\ ws # "open" => wire = <<>>
  /\ delivered <= published
  /\ subscribed <= published

\* An open connection is being read.
OpenReads == ws = "open" => pending["read"] > 0

\* The inductive invariant.
IInv ==
  /\ TypeOK
  /\ OneOperationOutstanding
  /\ RunningOnly
  /\ ResolvesFresh
  /\ HandshakesInOrder
  /\ OpenReads
  /\ BufferDropped
  /\ Carries
  /\ NothingLostWhileOpen

LEMMA StagesOfOperations ==
  /\ StreamOps = {"connect", "ssl_handshake", "ws_handshake", "read"}
  /\ StreamStage["connect"] = "reset"
  /\ StreamStage["ssl_handshake"] = "connected"
  /\ StreamStage["ws_handshake"] = "secured"
  /\ StreamStage["read"] = "open"
BY DEF StreamOps, StreamStage

\* What Continue and Stop do to the counters when op is the only operation
\* outstanding: the successor alone is outstanding, or nothing is.
LEMMA StopEnds ==
  ASSUME TypeOK, OneOperationOutstanding, NEW op \in Operations, pending[op] > 0
  PROVE  [pending EXCEPT ![op] = @ - 1] = [o \in Operations |-> 0]
<1>1. pending[op] = 1 /\ \A o \in Operations : o # op => pending[o] = 0
  BY DEF TypeOK, OneOperationOutstanding
<1>2. pending = [o \in Operations |-> IF o = op THEN 1 ELSE 0]
  BY <1>1 DEF TypeOK
<1> QED BY <1>2

LEMMA ContinueMoves ==
  ASSUME TypeOK, OneOperationOutstanding,
         NEW op \in Operations, NEW next \in Operations,
         pending[op] > 0, Continue(op, next)
  PROVE  pending' = [o \in Operations |-> IF o = next THEN 1 ELSE 0]
<1> DEFINE rest == [pending EXCEPT ![op] = @ - 1]
<1>1. rest = [o \in Operations |-> 0]
  BY StopEnds
<1>2. pending' = [rest EXCEPT ![next] = @ + 1]
  BY DEF Continue
<1> HIDE DEF rest
<1> QED BY <1>1, <1>2


\* With one operation outstanding, or none, it is enough to look at that one.
LEMMA OnlyOne ==
  ASSUME NEW next \in Operations,
         pending' = [o \in Operations |-> IF o = next THEN 1 ELSE 0],
         next \in StreamOps => ws' = StreamStage[next],
         next = "resolve" => ws' = "reset",
         ws' = "open" => next = "read",
         status' = "running"
  PROVE  /\ pending' \in [Operations -> Nat]
         /\ OneOperationOutstanding'
         /\ RunningOnly'
         /\ ResolvesFresh'
         /\ HandshakesInOrder'
         /\ OpenReads'
<1>1. \A o \in Operations : pending'[o] > 0 => o = next
  OBVIOUS
<1>2. StreamOps \subseteq Operations /\ "resolve" \in Operations
  BY StagesOfOperations DEF Operations
<1>3. HandshakesInOrder'
  BY <1>1, <1>2 DEF HandshakesInOrder, StreamOps
<1>4. OpenReads'
  BY DEF OpenReads
<1> QED
  BY <1>1, <1>2, <1>3, <1>4
     DEF OneOperationOutstanding, RunningOnly, ResolvesFresh

LEMMA NoneLeft ==
  ASSUME pending' = [o \in Operations |-> 0], ws' # "open"
  PROVE  /\ pending' \in [Operations -> Nat]
         /\ OneOperationOutstanding'
         /\ RunningOnly'
         /\ ResolvesFresh'
         /\ HandshakesInOrder'
         /\ OpenReads'
<1>1. StreamOps \subseteq Operations /\ "resolve" \in Operations
  BY StagesOfOperations DEF Operations
<1>2. HandshakesInOrder'
  BY <1>1 DEF HandshakesInOrder, StreamOps
<1> QED
  BY <1>1, <1>2 DEF OneOperationOutstanding, RunningOnly, ResolvesFresh, OpenReads

LEMMA InitIInv == Init => IInv
<1> SUFFICES ASSUME Init PROVE IInv
  OBVIOUS
<1>1. TypeOK
  <2>1. 0 \in 0..MaxPublished
    BY PublishedAssumption
  <2>2. pending \in [Operations -> Nat] /\ ws \in Stages
    BY DEF Init, Stages
  <2>3. <<>> \in Seq(Messages)
    OBVIOUS
  <2>4. /\ status \in {"starting", "running", "terminated"}
        /\ callback \in BOOLEAN /\ restarting \in BOOLEAN
    BY DEF Init
  <2>5. /\ buffer \in Seq(Messages) /\ wire \in Seq(Messages)
        /\ published \in 0..MaxPublished /\ subscribed \in 0..MaxPublished
        /\ delivered \in 0..MaxPublished
    BY <2>1, <2>3 DEF Init
  <2> QED BY <2>2, <2>4, <2>5 DEF TypeOK
<1>2. \A op \in Operations : pending[op] = 0
  BY DEF Init
<1>3. StreamOps \subseteq Operations /\ "resolve" \in Operations
  BY StagesOfOperations DEF Operations
<1>4. HandshakesInOrder
  BY <1>2, <1>3 DEF HandshakesInOrder, StreamOps
<1>5. OneOperationOutstanding /\ RunningOnly /\ ResolvesFresh
  BY <1>2, <1>3 DEF OneOperationOutstanding, RunningOnly, ResolvesFresh
<1>6. BufferDropped /\ Carries /\ NothingLostWhileOpen /\ OpenReads
  BY DEF Init, BufferDropped, Carries, NothingLostWhileOpen, OpenReads
<1> QED BY <1>1, <1>4, <1>5, <1>6 DEF IInv

-----------------------------------------------------------------------------
(* One lemma per action.                                                   *)

LEMMA SetCallbackIInv == IInv /\ set_callback => IInv'
<1> SUFFICES ASSUME IInv, set_callback PROVE IInv'
  OBVIOUS
<1> USE DEF set_callback, env
<1>1. TypeOK'
  BY DEF IInv, TypeOK
<1>2. HandshakesInOrder'
  BY DEF IInv, HandshakesInOrder
<1>3. OneOperationOutstanding' /\ RunningOnly' /\ ResolvesFresh' /\ OpenReads'
  BY DEF IInv, OneOperationOutstanding, RunningOnly, ResolvesFresh, OpenReads
<1>4. BufferDropped' /\ Carries' /\ NothingLostWhileOpen'
  BY DEF IInv, BufferDropped, Carries, NothingLostWhileOpen, Cursor
<1> QED BY <1>1, <1>2, <1>3, <1>4 DEF IInv

LEMMA MainAsyncConnectIInv == IInv /\ main_async_connect => IInv'
<1> SUFFICES ASSUME IInv, main_async_connect PROVE IInv'
  OBVIOUS
<1> USE DEF main_async_connect, reset_stream
<1>1. pending = [o \in Operations |-> 0]
  BY DEF IInv, RunningOnly, TypeOK
<1>2. "resolve" \in Operations /\ "resolve" \notin StreamOps
  BY StagesOfOperations DEF Operations
<1>3. pending' = [o \in Operations |-> IF o = "resolve" THEN 1 ELSE 0]
  BY <1>1, <1>2
<1>4. /\ pending' \in [Operations -> Nat] /\ OneOperationOutstanding'
      /\ RunningOnly' /\ ResolvesFresh' /\ HandshakesInOrder' /\ OpenReads'
  BY <1>2, <1>3, OnlyOne
<1>5. TypeOK'
  BY <1>4 DEF IInv, TypeOK, Stages
<1>6. BufferDropped' /\ Carries' /\ NothingLostWhileOpen'
  BY DEF IInv, BufferDropped, Carries, NothingLostWhileOpen
<1> QED BY <1>4, <1>5, <1>6 DEF IInv

LEMMA OnResolveIInv ==
  ASSUME IInv, NEW ec \in BOOLEAN, on_resolve(ec) PROVE IInv'
<1> USE DEF on_resolve, Completes, env
<1>1. {"resolve", "connect"} \subseteq Operations
  BY DEF Operations
<1>2. StreamStage["connect"] = "reset" /\ ws = "reset"
  BY <1>1, StagesOfOperations DEF IInv, ResolvesFresh
<1>3. /\ pending' \in [Operations -> Nat] /\ OneOperationOutstanding'
      /\ RunningOnly' /\ ResolvesFresh' /\ HandshakesInOrder' /\ OpenReads'
  <2>1. CASE ec
    <3>1. pending' = [o \in Operations |-> 0]
      BY <1>1, <2>1, StopEnds DEF IInv, Stop
    <3>2. ws' # "open"
      BY <1>2
    <3> QED BY <3>1, <3>2, NoneLeft
  <2>2. CASE ~ec
    <3>1. pending' = [o \in Operations |-> IF o = "connect" THEN 1 ELSE 0]
      BY <1>1, <2>2, ContinueMoves DEF IInv
    <3> QED BY <1>1, <1>2, <3>1, OnlyOne
  <2> QED BY <2>1, <2>2
<1>4. TypeOK'
  BY <1>3 DEF IInv, TypeOK
<1>5. BufferDropped' /\ Carries' /\ NothingLostWhileOpen'
  BY DEF IInv, BufferDropped, Carries, NothingLostWhileOpen, Cursor
<1> QED BY <1>3, <1>4, <1>5 DEF IInv

\* What the three handlers of the stream's setup have in common: op leads to
\* next and its stage, or to nothing and a broken stream.
LEMMA StreamOutcomeIInv ==
  ASSUME IInv, NEW ec \in BOOLEAN,
         NEW op \in Operations, NEW next \in StreamOps,
         StreamOutcome(op, ec, next, StreamStage[next]),
         status' = status
  PROVE  /\ pending' \in [Operations -> Nat]
         /\ OneOperationOutstanding'
         /\ RunningOnly'
         /\ ResolvesFresh'
         /\ HandshakesInOrder'
         /\ OpenReads'
         /\ ws' \in Stages
<1> USE DEF StreamOutcome, Completes
<1>1. /\ next \in Operations /\ next # "resolve" /\ StreamStage[next] \in Stages
      /\ StreamStage[next] = "open" => next = "read"
  BY StagesOfOperations DEF Operations, Stages
<1>2. CASE ec
  <2>1. pending' = [o \in Operations |-> 0]
    BY <1>2, StopEnds DEF IInv, Stop
  <2> QED BY <1>2, <2>1, NoneLeft DEF Stages
<1>3. CASE ~ec
  <2>1. pending' = [o \in Operations |-> IF o = next THEN 1 ELSE 0]
    BY <1>1, <1>3, ContinueMoves DEF IInv
  <2> QED BY <1>1, <1>3, <2>1, OnlyOne
<1> QED BY <1>2, <1>3

LEMMA OnConnectIInv ==
  ASSUME IInv, NEW ec \in BOOLEAN, on_connect(ec) PROVE IInv'
<1> USE DEF on_connect, env
<1>1. {"connect", "ssl_handshake"} \subseteq Operations
  BY DEF Operations
<1>2. /\ pending' \in [Operations -> Nat] /\ OneOperationOutstanding'
      /\ RunningOnly' /\ ResolvesFresh' /\ HandshakesInOrder' /\ OpenReads' /\ ws' \in Stages
  BY <1>1, StagesOfOperations, StreamOutcomeIInv
<1>3. TypeOK'
  BY <1>2 DEF IInv, TypeOK
<1>4. ws # "open" /\ ws' # "open"
  BY <1>1, StagesOfOperations
     DEF IInv, HandshakesInOrder, StreamOps, StreamOutcome, Completes
<1>5. BufferDropped' /\ Carries' /\ NothingLostWhileOpen'
  BY <1>4 DEF IInv, BufferDropped, Carries, NothingLostWhileOpen
<1> QED BY <1>2, <1>3, <1>5 DEF IInv

LEMMA OnSslHandshakeIInv ==
  ASSUME IInv, NEW ec \in BOOLEAN, on_ssl_handshake(ec) PROVE IInv'
<1> USE DEF on_ssl_handshake, env
<1>1. {"ssl_handshake", "ws_handshake"} \subseteq Operations
  BY DEF Operations
<1>2. /\ pending' \in [Operations -> Nat] /\ OneOperationOutstanding'
      /\ RunningOnly' /\ ResolvesFresh' /\ HandshakesInOrder' /\ OpenReads' /\ ws' \in Stages
  BY <1>1, StagesOfOperations, StreamOutcomeIInv
<1>3. TypeOK'
  BY <1>2 DEF IInv, TypeOK
<1>4. ws # "open" /\ ws' # "open"
  BY <1>1, StagesOfOperations
     DEF IInv, HandshakesInOrder, StreamOps, StreamOutcome, Completes
<1>5. BufferDropped' /\ Carries' /\ NothingLostWhileOpen'
  BY <1>4 DEF IInv, BufferDropped, Carries, NothingLostWhileOpen
<1> QED BY <1>2, <1>3, <1>5 DEF IInv

\* The connection opens with nothing on the wire, and the messages published
\* so far are the ones it will never carry.
LEMMA OnWsHandshakeIInv ==
  ASSUME IInv, NEW ec \in BOOLEAN, on_ws_handshake(ec) PROVE IInv'
<1> USE DEF on_ws_handshake, env
<1>1. {"ws_handshake", "read"} \subseteq Operations
  BY DEF Operations
<1>2. /\ pending' \in [Operations -> Nat] /\ OneOperationOutstanding'
      /\ RunningOnly' /\ ResolvesFresh' /\ HandshakesInOrder' /\ OpenReads' /\ ws' \in Stages
  BY <1>1, StagesOfOperations, StreamOutcomeIInv
<1>3. TypeOK'
  BY <1>2 DEF IInv, TypeOK
<1>4. ws # "open" /\ wire = <<>>
  BY <1>1, StagesOfOperations
     DEF IInv, HandshakesInOrder, StreamOps, StreamOutcome, Completes, Carries
<1>5. BufferDropped' /\ Carries'
  BY <1>4 DEF IInv, TypeOK, BufferDropped, Carries
<1>6. NothingLostWhileOpen'
  <2>1. CASE ec
    BY <2>1 DEF StreamOutcome, NothingLostWhileOpen
  <2>2. CASE ~ec
    <3>1. Cursor' = published' /\ wire' = <<>> /\ published' \in Nat
      BY <1>4, <2>2, PublishedAssumption DEF IInv, TypeOK, Carries, Cursor
    <3> QED BY <3>1 DEF NothingLostWhileOpen
  <2> QED BY <2>1, <2>2
<1> QED BY <1>2, <1>3, <1>5, <1>6 DEF IInv

LEMMA OnReadClosedIInv == IInv /\ on_read_closed => IInv'
<1> SUFFICES ASSUME IInv, on_read_closed PROVE IInv'
  OBVIOUS
<1> USE DEF on_read_closed, Completes
<1>1. pending' = [o \in Operations |-> 0]
  BY StopEnds DEF IInv, Stop, Operations
<1>2. /\ pending' \in [Operations -> Nat] /\ OneOperationOutstanding'
      /\ RunningOnly' /\ ResolvesFresh' /\ HandshakesInOrder' /\ OpenReads'
  BY <1>1, NoneLeft
<1>3. TypeOK'
  BY <1>2 DEF IInv, TypeOK, Stages
<1>4. BufferDropped' /\ Carries' /\ NothingLostWhileOpen'
  BY DEF IInv, BufferDropped, Carries, NothingLostWhileOpen
<1> QED BY <1>2, <1>3, <1>4 DEF IInv

LEMMA OnReadErrorIInv == IInv /\ on_read_error => IInv'
<1> SUFFICES ASSUME IInv, on_read_error PROVE IInv'
  OBVIOUS
<1> USE DEF on_read_error, Completes, consume
<1>1. {"read", "timer"} \subseteq Operations /\ "timer" \notin StreamOps
  BY StagesOfOperations DEF Operations
<1>2. pending' = [o \in Operations |-> IF o = "timer" THEN 1 ELSE 0]
  BY <1>1, ContinueMoves DEF IInv
<1>3. /\ pending' \in [Operations -> Nat] /\ OneOperationOutstanding'
      /\ RunningOnly' /\ ResolvesFresh' /\ HandshakesInOrder' /\ OpenReads'
  BY <1>1, <1>2, OnlyOne
<1>4. TypeOK'
  BY <1>3 DEF IInv, TypeOK, Stages
<1>5. BufferDropped' /\ Carries' /\ NothingLostWhileOpen'
  BY DEF IInv, BufferDropped, Carries, NothingLostWhileOpen
<1> QED BY <1>3, <1>4, <1>5 DEF IInv

LEMMA OnReconnectTimerIInv == IInv /\ on_reconnect_timer => IInv'
<1> SUFFICES ASSUME IInv, on_reconnect_timer PROVE IInv'
  OBVIOUS
<1> USE DEF on_reconnect_timer, Completes, reset_stream
<1>1. {"timer", "resolve"} \subseteq Operations /\ "resolve" \notin StreamOps
  BY StagesOfOperations DEF Operations
<1>2. pending' = [o \in Operations |-> IF o = "resolve" THEN 1 ELSE 0]
  BY <1>1, ContinueMoves DEF IInv
<1>3. /\ pending' \in [Operations -> Nat] /\ OneOperationOutstanding'
      /\ RunningOnly' /\ ResolvesFresh' /\ HandshakesInOrder' /\ OpenReads'
  BY <1>1, <1>2, OnlyOne
<1>4. TypeOK'
  BY <1>3 DEF IInv, TypeOK, Stages
<1>5. BufferDropped' /\ Carries' /\ NothingLostWhileOpen'
  BY DEF IInv, BufferDropped, Carries, NothingLostWhileOpen
<1> QED BY <1>3, <1>4, <1>5 DEF IInv

\* The message read is the one after the last that left the connection.
LEMMA HeadFollowsCursor ==
  ASSUME IInv, ws = "open", wire # <<>>
  PROVE  /\ Head(wire) \in Messages
         /\ Head(wire).id = Cursor + 1
         /\ Cursor \in Nat
         /\ Cursor + 1 <= published
         /\ Cursor >= subscribed
         /\ Tail(wire) \in Seq(Messages)
         /\ Len(Tail(wire)) = Len(wire) - 1
         /\ \A i \in DOMAIN Tail(wire) : Tail(wire)[i] = wire[i + 1] /\ i + 1 \in DOMAIN wire
<1>1. wire \in Seq(Messages) /\ Len(wire) \in Nat \ {0} /\ Head(wire) = wire[1]
  BY DEF IInv, TypeOK
<1>2. Cursor \in Nat /\ published \in Nat /\ Cursor >= subscribed
  BY PublishedAssumption DEF IInv, TypeOK, Cursor
<1>3. wire[1].id = Cursor + 1 /\ Len(wire) <= published - Cursor
  BY <1>1 DEF IInv, NothingLostWhileOpen
<1> QED BY <1>1, <1>2, <1>3

LEMMA OnReadMessageIInv ==
  ASSUME IInv, NEW throws \in BOOLEAN, on_read_message(throws) PROVE IInv'
<1> DEFINE data == Append(buffer, Head(wire))
<1>1. "read" \in Operations /\ "read" \in StreamOps /\ StreamStage["read"] = "open"
  BY StagesOfOperations DEF Operations
<1>2. pending["read"] > 0 /\ status = "running" /\ ws = "open" /\ wire # <<>>
  BY <1>1 DEF on_read_message, Completes
<1>3. buffer = <<>> /\ data \in Seq(Messages)
  BY <1>2, HeadFollowsCursor DEF IInv, BufferDropped
<1>4. /\ delivered' = IF Parses(data) THEN Head(wire).id ELSE delivered
      /\ UNCHANGED <<callback, published, subscribed, restarting>>
  BY DEF on_read_message
<1>5. delivered' \in 0..MaxPublished /\ delivered' <= published
  BY <1>2, <1>4, HeadFollowsCursor, PublishedAssumption DEF IInv, TypeOK, Carries
<1>6. CASE /\ Parses(data) /\ buffer' = consume(data) /\ wire' = Tail(wire)
           /\ Continue("read", "read") /\ UNCHANGED <<status, ws>>
  <2>1. pending' = [o \in Operations |-> IF o = "read" THEN 1 ELSE 0]
    BY <1>1, <1>2, <1>6, ContinueMoves DEF IInv
  <2>2. /\ pending' \in [Operations -> Nat] /\ OneOperationOutstanding'
        /\ RunningOnly' /\ ResolvesFresh' /\ HandshakesInOrder' /\ OpenReads'
    BY <1>1, <1>2, <1>6, <2>1, OnlyOne
  <2>3. buffer' = <<>>
    BY <1>6 DEF consume
  <2>4. TypeOK'
    <3>1. <<>> \in Seq(Messages)
      OBVIOUS
    <3>2. buffer' \in Seq(Messages)
      BY <2>3, <3>1
    <3>3. wire' \in Seq(Messages)
      BY <1>2, <1>6, HeadFollowsCursor
    <3> QED BY <1>4, <1>5, <1>6, <2>2, <3>2, <3>3 DEF IInv, TypeOK
  <2>5. BufferDropped' /\ Carries'
    BY <1>2, <1>4, <1>5, <1>6, <2>3 DEF IInv, BufferDropped, Carries
  <2>6. Cursor' = Cursor + 1
    <3>1. delivered' = Cursor + 1 /\ subscribed' = subscribed
      BY <1>2, <1>4, <1>6, HeadFollowsCursor
    <3>2. Cursor + 1 > subscribed
      BY <1>2, HeadFollowsCursor, PublishedAssumption DEF IInv, TypeOK
    <3> QED BY <3>1, <3>2 DEF Cursor
  <2>7. NothingLostWhileOpen'
    <3>1. Len(wire') <= published' - Cursor'
      BY <1>2, <1>4, <1>6, <2>6, HeadFollowsCursor, PublishedAssumption
         DEF IInv, TypeOK, NothingLostWhileOpen
    <3>2. ASSUME NEW i \in DOMAIN wire' PROVE wire'[i].id = Cursor' + i
      <4>1. i \in Nat /\ wire'[i] = wire[i + 1] /\ i + 1 \in DOMAIN wire
        BY <1>2, <1>6, HeadFollowsCursor
      <4>2. wire[i + 1].id = Cursor + (i + 1)
        BY <1>2, <4>1 DEF IInv, NothingLostWhileOpen
      <4> QED BY <1>2, <2>6, <4>1, <4>2, HeadFollowsCursor
    <3> QED BY <3>1, <3>2 DEF NothingLostWhileOpen
  <2> QED BY <2>2, <2>4, <2>5, <2>7 DEF IInv
<1>7. CASE buffer' = data /\ Terminate
  <2>1. pending' = [o \in Operations |-> 0]
    BY <1>7 DEF Terminate
  <2>2. /\ pending' \in [Operations -> Nat] /\ OneOperationOutstanding'
        /\ RunningOnly' /\ ResolvesFresh' /\ HandshakesInOrder' /\ OpenReads'
    BY <1>7, <2>1, NoneLeft DEF Terminate
  <2>3. TypeOK'
    BY <1>3, <1>4, <1>5, <1>7, <2>2 DEF IInv, TypeOK, Terminate, Stages
  <2>4. BufferDropped' /\ Carries' /\ NothingLostWhileOpen'
    BY <1>4, <1>5, <1>7
       DEF IInv, BufferDropped, Carries, NothingLostWhileOpen, Terminate
  <2> QED BY <2>2, <2>3, <2>4 DEF IInv
<1> QED BY <1>6, <1>7 DEF on_read_message

LEMMA PublishIInv ==
  ASSUME IInv, NEW wellFormed \in BOOLEAN, Publish(wellFormed) PROVE IInv'
<1> DEFINE message == [id |-> published + 1, wellFormed |-> wellFormed]
<1>1. /\ published \in Nat /\ published' = published + 1
      /\ published' \in 0..MaxPublished /\ message \in Messages
      /\ wire \in Seq(Messages)
  BY PublishedAssumption DEF IInv, TypeOK, Publish, Messages
<1>2. UNCHANGED <<status, callback, pending, ws, buffer, subscribed, delivered,
                  restarting>>
  BY DEF Publish
<1>3. wire' = wire \/ (ws = "open" /\ wire' = Append(wire, message) /\ ~Silent)
  BY DEF Publish
<1> HIDE DEF message
<1>4. TypeOK'
  BY <1>1, <1>2, <1>3, SMTT(30) DEF IInv, TypeOK
<1>5. HandshakesInOrder'
  BY <1>2 DEF IInv, HandshakesInOrder
<1>6. OneOperationOutstanding' /\ RunningOnly' /\ ResolvesFresh' /\ BufferDropped' /\ OpenReads'
  BY <1>2 DEF IInv, OneOperationOutstanding, RunningOnly, ResolvesFresh, BufferDropped, OpenReads
<1>7. Carries'
  BY <1>1, <1>2, <1>3, PublishedAssumption DEF IInv, TypeOK, Carries
<1>8. NothingLostWhileOpen'
  <2> SUFFICES ASSUME ws = "open"
               PROVE  /\ Len(wire') <= published' - Cursor'
                      /\ \A i \in DOMAIN wire' : wire'[i].id = Cursor' + i
    BY <1>2 DEF NothingLostWhileOpen
  <2>1. Cursor' = Cursor /\ Cursor \in Nat
    BY <1>2, PublishedAssumption DEF Cursor, IInv, TypeOK
  <2>2. Len(wire) <= published - Cursor /\ \A i \in DOMAIN wire : wire[i].id = Cursor + i
    BY DEF IInv, NothingLostWhileOpen
  <2>3. CASE wire' = wire
    BY <1>1, <2>1, <2>2, <2>3
  <2>4. CASE wire' = Append(wire, message) /\ ~Silent
    <3>1. message.id = published + 1 /\ Len(wire) = published - Cursor
      <4>1. message.id = published + 1
        BY DEF message
      <4>2. Len(wire) \in Nat /\ published \in Nat /\ Cursor \in Nat
        BY <1>1, <2>1
      <4>3. ~(Cursor + Len(wire) < published) /\ Len(wire) <= published - Cursor
        BY <2>2, <2>4 DEF Silent
      <4>4. Len(wire) = published - Cursor
        BY <4>2, <4>3
      <4> QED BY <4>1, <4>4
    <3>2. Len(wire') = Len(wire) + 1
      BY <1>1, <2>4
    <3>3. ASSUME NEW i \in DOMAIN wire' PROVE wire'[i].id = Cursor' + i
      <4>1. CASE i \in DOMAIN wire
        BY <1>1, <2>1, <2>2, <2>4, <4>1
      <4>2. CASE i = Len(wire) + 1
        BY <1>1, <2>1, <2>4, <3>1, <4>2
      <4> QED BY <1>1, <2>4, <4>1, <4>2
    <3> QED BY <1>1, <2>1, <3>1, <3>2, <3>3
  <2> QED BY <1>3, <2>3, <2>4
<1> QED BY <1>4, <1>5, <1>6, <1>7, <1>8 DEF IInv

LEMMA StutterIInv == IInv /\ UNCHANGED vars => IInv'
<1> SUFFICES ASSUME IInv, UNCHANGED vars PROVE IInv'
  OBVIOUS
<1> USE DEF vars
<1>1. TypeOK' /\ HandshakesInOrder' /\ NothingLostWhileOpen'
  BY DEF IInv, TypeOK, HandshakesInOrder, NothingLostWhileOpen, Cursor
<1>2. OneOperationOutstanding' /\ RunningOnly' /\ ResolvesFresh' /\ OpenReads'
  BY DEF IInv, OneOperationOutstanding, RunningOnly, ResolvesFresh, OpenReads
<1>3. BufferDropped' /\ Carries'
  BY DEF IInv, BufferDropped, Carries
<1> QED BY <1>1, <1>2, <1>3 DEF IInv

LEMMA NextIInv == IInv /\ [Next]_vars => IInv'
<1> SUFFICES ASSUME IInv, [Next]_vars PROVE IInv'
  OBVIOUS
<1>1. CASE Main
  BY <1>1, SetCallbackIInv, MainAsyncConnectIInv DEF Main
<1>2. ASSUME NEW ec \in BOOLEAN,
             \/ on_resolve(ec) \/ on_connect(ec)
             \/ on_ssl_handshake(ec) \/ on_ws_handshake(ec)
      PROVE  IInv'
  BY <1>2, OnResolveIInv, OnConnectIInv, OnSslHandshakeIInv, OnWsHandshakeIInv
<1>3. CASE OnRead
  BY <1>3, OnReadClosedIInv, OnReadErrorIInv, OnReadMessageIInv DEF OnRead
<1>4. CASE on_reconnect_timer
  BY <1>4, OnReconnectTimerIInv
<1>5. ASSUME NEW wellFormed \in BOOLEAN, Publish(wellFormed) PROVE IInv'
  BY <1>5, PublishIInv
<1>6. CASE UNCHANGED vars
  BY <1>6, StutterIInv
<1> QED BY <1>1, <1>2, <1>3, <1>4, <1>5, <1>6 DEF Next

-----------------------------------------------------------------------------
(* The theorems.                                                           *)

\* The strengthening is an invariant of the client.
THEOREM Invariance == Spec => []IInv
BY InitIInv, NextIInv, PTL DEF Spec

\* Every variable keeps its type, the histories of message ids included.
THEOREM TypeCorrect == Spec => []TypeOK
<1>1. IInv => TypeOK
  BY DEF IInv
<1> QED BY <1>1, Invariance, PTL

\* The chain of handlers never forks: no two operations are outstanding.
THEOREM OneChain == Spec => []OneOperationOutstanding
<1>1. IInv => OneOperationOutstanding
  BY DEF IInv
<1> QED BY <1>1, Invariance, PTL

\* Every operation on the stream starts at the stage it needs, on the first
\* connection and on every later one.
THEOREM StagesInOrder == Spec => []HandshakesInOrder
<1>1. IInv => HandshakesInOrder
  BY DEF IInv
<1> QED BY <1>1, Invariance, PTL

\* Every read starts on an empty buffer.
THEOREM ReadsClean == Spec => []CleanBuffer
<1>1. IInv => CleanBuffer
  <2> SUFFICES ASSUME IInv, pending["read"] > 0 PROVE buffer = <<>>
    BY DEF CleanBuffer
  <2>1. "read" \in Operations /\ status # "terminated"
    BY DEF IInv, TypeOK, RunningOnly, Operations
  <2> QED BY <2>1 DEF IInv, BufferDropped
<1> QED BY <1>1, Invariance, PTL

\* On an open connection the read loop passes on every message, once and in
\* order.
THEOREM NothingLost == Spec => []NothingLostWhileOpen
<1>1. IInv => NothingLostWhileOpen
  BY DEF IInv
<1> QED BY <1>1, Invariance, PTL

\* A stream is replaced only when no operation on it is outstanding.
THEOREM ResetsIdle == Spec => ResetsOnlyIdleStream
<1> DEFINE Idle == ws # "reset" /\ ws' = "reset" =>
                     \A op \in StreamOps : pending'[op] = 0
<1>1. IInv /\ IInv' /\ [Next]_vars => [Idle]_vars
  <2> SUFFICES ASSUME IInv, IInv', Next, ws # "reset", ws' = "reset",
                      NEW op \in StreamOps
               PROVE  pending'[op] = 0
    BY DEF StreamOps
  <2>1. StreamOps \subseteq Operations /\ "resolve" \notin StreamOps
    BY StagesOfOperations DEF Operations
  <2>2. pending'["resolve"] > 0
    <3>1. CASE main_async_connect
      BY <3>1 DEF main_async_connect, IInv, TypeOK, Operations
    <3>2. CASE on_reconnect_timer
      BY <3>2, SMTT(30) DEF on_reconnect_timer, Continue, IInv, TypeOK, Operations
    <3>3. CASE set_callback \/ \E ec \in BOOLEAN : on_resolve(ec)
      BY <3>3 DEF set_callback, on_resolve
    <3>4. CASE \E ec \in BOOLEAN :
                 on_connect(ec) \/ on_ssl_handshake(ec) \/ on_ws_handshake(ec)
      BY <3>4 DEF on_connect, on_ssl_handshake, on_ws_handshake, StreamOutcome
    <3>5. CASE OnRead
      BY <3>5 DEF OnRead, on_read_closed, on_read_error, on_read_message, Terminate
    <3>6. CASE \E wellFormed \in BOOLEAN : Publish(wellFormed)
      BY <3>6 DEF Publish
    <3> QED BY <3>1, <3>2, <3>3, <3>4, <3>5, <3>6 DEF Next, Main
  <2>3. pending' \in [Operations -> Nat] /\ OneOperationOutstanding'
    BY DEF IInv, TypeOK
  <2>4. "resolve" \in Operations
    BY DEF Operations
  <2> QED BY <2>1, <2>2, <2>3, <2>4 DEF OneOperationOutstanding
<1>2. Spec => [][Idle]_vars
  BY <1>1, Invariance, PTL DEF Spec
<1> QED BY <1>2 DEF ResetsOnlyIdleStream, StreamOps
-----------------------------------------------------------------------------
(* The refinement: what the server sees of the client is a feed.           *)

LEMMA FeedPosition == Feed!Position = Cursor
BY DEF Feed!Position, Cursor

LEMMA InitFeed == Init => Feed!Init
BY DEF Init, Feed!Init, Cursor

\* A step that changes no more than operations, stages below "open" and the
\* buffer is invisible.
LEMMA Invisible ==
  ASSUME UNCHANGED <<wire, published, subscribed, delivered>>,
         (status' = "running") = (status = "running"),
         (ws' = "open") = (ws = "open")
  PROVE  UNCHANGED Feed!vars
BY DEF Feed!vars, Cursor

\* A connection that is not open has nothing on the wire.
LEMMA NothingCarried ==
  ASSUME IInv, ws # "open" PROVE wire = <<>> /\ Cursor + Len(wire) = Cursor
<1>1. wire = <<>> /\ Cursor \in Nat
  BY PublishedAssumption DEF IInv, Carries, TypeOK, Cursor
<1> QED BY <1>1

LEMMA AddNothing ==
  ASSUME NEW n \in Nat
  PROVE  n + 0 = n
OBVIOUS

LEMMA NothingCarriedAfter ==
  ASSUME IInv', wire' = <<>>
  PROVE  (Cursor + Len(wire))' = Cursor'
<1>1. Cursor' \in Nat
  BY PublishedAssumption DEF Cursor, IInv, TypeOK
<1>2. (Cursor + Len(wire))' = Cursor' + 0
  OBVIOUS
<1> QED BY <1>1, <1>2, AddNothing

LEMMA StartsFeed ==
  ASSUME IInv, IInv', main_async_connect \/ on_reconnect_timer
  PROVE  Feed!Start \/ UNCHANGED Feed!vars
<1>1. {"read", "timer"} \subseteq Operations
  BY DEF Operations
<1>2. ws # "open" /\ ws' # "open"
  BY <1>1 DEF main_async_connect, on_reconnect_timer, reset_stream, Completes,
              IInv, OpenReads, OneOperationOutstanding, RunningOnly
<1>3. wire = <<>> /\ wire' = <<>>
  BY <1>2, NothingCarried DEF main_async_connect, on_reconnect_timer, reset_stream
<1>4. UNCHANGED <<wire, published, subscribed, delivered>>
  BY <1>3 DEF main_async_connect, on_reconnect_timer
<1>5. UNCHANGED Cursor
  BY <1>4 DEF Cursor
<1>6. CASE main_async_connect
  BY <1>2, <1>4, <1>5, <1>6 DEF main_async_connect, Feed!Start
<1>7. CASE on_reconnect_timer
  BY <1>2, <1>4, <1>7, Invisible DEF on_reconnect_timer
<1> QED BY <1>6, <1>7

LEMMA ConnectsFeed ==
  ASSUME IInv, IInv', NEW ec \in BOOLEAN, on_ws_handshake(ec)
  PROVE  Feed!Connect \/ UNCHANGED Feed!vars
<1> USE DEF on_ws_handshake, StreamOutcome, Completes, env
<1>1. ws # "open" /\ status = "running"
  BY StagesOfOperations DEF IInv, HandshakesInOrder, StreamOps
<1>2. wire = <<>>
  BY <1>1, NothingCarried
<1>3. CASE ec
  <2>1. UNCHANGED <<wire, published, subscribed, delivered>>
    BY <1>3
  <2> QED BY <1>1, <1>3, <2>1, Invisible
<1>4. CASE ~ec
  <2>1. ws' = "open" /\ wire' = <<>> /\ subscribed' = published /\ UNCHANGED <<status, published, delivered>>
    BY <1>2, <1>4
  <2>2. Cursor' = published /\ published \in Nat
    BY <2>1, PublishedAssumption DEF Cursor, IInv, TypeOK, Carries
  <2>3. (Cursor + Len(wire))' = published
    BY <2>1, <2>2
  <2> QED BY <1>1, <2>1, <2>3 DEF Feed!Connect
<1> QED BY <1>3, <1>4

LEMMA DisconnectsFeed ==
  ASSUME IInv, IInv', on_read_closed \/ on_read_error
  PROVE  Feed!Disconnect
<1>1. "read" \in StreamOps /\ StreamStage["read"] = "open"
  BY StagesOfOperations
<1>2. /\ ws = "open" /\ ws' = "broken" /\ wire' = <<>>
      /\ UNCHANGED <<status, published, subscribed, delivered>>
  BY <1>1 DEF on_read_closed, on_read_error, Completes, IInv, HandshakesInOrder, StreamOps
<1>3. Cursor' = Cursor /\ (Cursor + Len(wire))' = Cursor
  <2>1. Cursor' = Cursor
    BY <1>2 DEF Cursor
  <2> QED BY <1>2, <2>1, NothingCarriedAfter
<1> QED BY <1>2, <1>3, FeedPosition DEF Feed!Disconnect

LEMMA MessageFeed ==
  ASSUME IInv, IInv', NEW throws \in BOOLEAN, on_read_message(throws)
  PROVE  Feed!Die \/ \E t \in BOOLEAN : Feed!Deliver(t)
<1> DEFINE data == Append(buffer, Head(wire))
<1>1. /\ ws = "open" /\ wire # <<>> /\ status = "running"
      /\ UNCHANGED <<published, subscribed>>
      /\ delivered' = IF Parses(data) THEN Head(wire).id ELSE delivered
  BY StagesOfOperations DEF on_read_message, Completes
<1>2. Head(wire).id = Cursor + 1 /\ Cursor \in Nat /\ Cursor >= subscribed
  BY <1>1, HeadFollowsCursor
<1>3. wire \in Seq(Messages) /\ Len(wire) \in Nat \ {0} /\ Cursor < Cursor + Len(wire)
  BY <1>1, <1>2 DEF IInv, TypeOK
<1>4. ASSUME Parses(data)
      PROVE  delivered' = Cursor + 1 /\ Cursor' = Cursor + 1
  <2>1. delivered' = Cursor + 1 /\ subscribed' = subscribed /\ subscribed \in Nat
    BY <1>1, <1>2, <1>4, PublishedAssumption DEF IInv, TypeOK
  <2>2. Cursor + 1 > subscribed
    BY <1>2, <2>1
  <2> QED BY <2>1, <2>2 DEF Cursor
<1>5. CASE Parses(data) /\ wire' = Tail(wire) /\ UNCHANGED <<status, ws>>
  <2>1. Len(wire') = Len(wire) - 1
    BY <1>1, <1>5, HeadFollowsCursor
  <2>2. (Cursor + Len(wire))' = Cursor + Len(wire)
    <3>1. (Cursor + Len(wire))' = Cursor' + Len(wire')
      OBVIOUS
    <3> QED BY <1>2, <1>3, <1>4, <1>5, <2>1, <3>1
  <2>3. Feed!Deliver(FALSE)
    BY <1>1, <1>3, <1>4, <1>5, <2>2, FeedPosition DEF Feed!Deliver
  <2> QED BY <2>3
<1>6. CASE Terminate
  <2>1. status' = "terminated" /\ ws' = "broken" /\ wire' = <<>>
    BY <1>6 DEF Terminate
  <2>2. (Cursor + Len(wire))' = Cursor'
    BY <2>1, NothingCarriedAfter
  <2>3. CASE Parses(data)
    <3>1. Feed!Deliver(TRUE)
      BY <1>1, <1>3, <1>4, <2>1, <2>2, <2>3, FeedPosition DEF Feed!Deliver
    <3> QED BY <3>1
  <2>4. CASE ~Parses(data)
    <3>1. delivered' = delivered /\ Cursor' = Cursor
      BY <1>1, <2>4 DEF Cursor
    <3>2. Feed!Die
      BY <1>1, <2>1, <2>2, <3>1, FeedPosition DEF Feed!Die
    <3> QED BY <3>2
  <2> QED BY <2>3, <2>4
<1> QED BY <1>5, <1>6 DEF on_read_message

LEMMA PublishFeed ==
  ASSUME IInv, IInv', NEW wellFormed \in BOOLEAN, Publish(wellFormed)
  PROVE  Feed!Publish
<1> DEFINE message == [id |-> published + 1, wellFormed |-> wellFormed]
<1>1. /\ published < MaxPublished /\ published' = published + 1
      /\ UNCHANGED <<status, ws, subscribed, delivered>>
      /\ wire' = wire \/ (ws = "open" /\ ~Silent /\ wire' = Append(wire, message))
  BY DEF Publish
<1>2. Cursor' = Cursor /\ Cursor \in Nat /\ published \in Nat
  BY <1>1, PublishedAssumption DEF Cursor, IInv, TypeOK
<1>3. wire \in Seq(Messages) /\ Len(wire) \in Nat /\ (ws = "open" => Len(wire) <= published - Cursor)
  BY DEF IInv, TypeOK, NothingLostWhileOpen
<1>4. (Cursor + Len(wire))' = Cursor + Len(wire')
  BY <1>2
<1>5. CASE wire' = wire
  BY <1>1, <1>2, <1>4, <1>5 DEF Feed!Publish
<1>6. CASE ws = "open" /\ ~Silent /\ wire' = Append(wire, message)
  <2>1. Cursor + Len(wire) = published
    BY <1>2, <1>3, <1>6 DEF Silent
  <2>2. Len(wire') = Len(wire) + 1
    BY <1>3, <1>6
  <2>3. (Cursor + Len(wire))' = published'
    BY <1>1, <1>2, <1>3, <1>4, <2>1, <2>2
  <2> QED BY <1>1, <1>6, <2>1, <2>3 DEF Feed!Publish
<1> QED BY <1>1, <1>5, <1>6

LEMMA NextFeed == IInv /\ IInv' /\ [Next]_vars => [Feed!Next]_(Feed!vars)
<1> SUFFICES ASSUME IInv, IInv', [Next]_vars PROVE Feed!Next \/ UNCHANGED Feed!vars
  OBVIOUS
<1>1. CASE set_callback
  BY <1>1, Invisible DEF set_callback, env
<1>2. CASE main_async_connect \/ on_reconnect_timer
  BY <1>2, StartsFeed DEF Feed!Next
<1>3. ASSUME NEW ec \in BOOLEAN, on_resolve(ec) \/ on_connect(ec) \/ on_ssl_handshake(ec)
      PROVE  UNCHANGED Feed!vars
  <2>1. UNCHANGED <<status, wire, published, subscribed, delivered>>
    BY <1>3 DEF on_resolve, on_connect, on_ssl_handshake, env
  <2>2. (ws' = "open") = (ws = "open")
    BY <1>3, StagesOfOperations
       DEF on_resolve, on_connect, on_ssl_handshake, StreamOutcome, Completes,
           IInv, HandshakesInOrder, StreamOps
  <2> QED BY <2>1, <2>2, Invisible
<1>4. ASSUME NEW ec \in BOOLEAN, on_ws_handshake(ec)
      PROVE  Feed!Next \/ UNCHANGED Feed!vars
  BY <1>4, ConnectsFeed DEF Feed!Next
<1>5. CASE OnRead
  BY <1>5, DisconnectsFeed, MessageFeed DEF OnRead, Feed!Next, Feed!Consume
<1>6. ASSUME NEW wellFormed \in BOOLEAN, Publish(wellFormed)
      PROVE  Feed!Next
  BY <1>6, PublishFeed DEF Feed!Next
<1>7. CASE UNCHANGED vars
  BY <1>7, Invisible DEF vars
<1> QED BY <1>1, <1>2, <1>3, <1>4, <1>5, <1>6, <1>7 DEF Next, Main

\* The client implements the safety part of the feed: every step of it opens
\* the connection, passes on the next update, loses the connection or the
\* process, or is invisible to the server.
THEOREM Refinement == Spec => Feed!Spec
<1>1. Spec => [][Feed!Next]_(Feed!vars)
  BY NextFeed, Invariance, PTL DEF Spec
<1>2. Spec => Feed!Init
  BY InitFeed DEF Spec
<1> QED BY <1>1, <1>2 DEF Feed!Spec
=============================================================================
