--------------------------- MODULE BinanceClient ---------------------------
(***************************************************************************)
(* The market data client: a chain of asynchronous operations on one       *)
(* strand, resolve -> TCP connect -> TLS handshake -> WebSocket handshake  *)
(* -> read, read, ...  Every handler either starts the next operation or   *)
(* ends the chain.  A failed read arms a five second timer whose handler   *)
(* starts over with a new stream.                                          *)
(*                                                                         *)
(* The exchange, the network and Boost.Asio/Beast are external: they       *)
(* decide when an operation completes and with which error code.           *)
(***************************************************************************)
EXTENDS Naturals, Sequences

CONSTANT MaxPublished  \* bound: messages the exchange publishes

ASSUME PublishedAssumption == MaxPublished \in Nat

Operations ==
  {"resolve", "connect", "ssl_handshake", "ws_handshake", "read", "timer"}

\* The operations that run on the stream object, and what it must have
\* reached for the operation to have a chance.
StreamStage == [connect |-> "reset", ssl_handshake |-> "connected",
                ws_handshake |-> "secured", read |-> "open"]

Stages == {"none", "reset", "connected", "secured", "open", "broken"}

\* A published message; well formed means JSON with the fields and the price
\* levels that the client extracts.
Messages == [id : Nat, wellFormed : BOOLEAN]

\* The bytes of a message whose rest never came.
Partial == [id |-> 0, wellFormed |-> FALSE]

VARIABLES
  status,     \* of the process: "starting", "running" or "terminated"
  callback,   \* whether the server object has been registered
  pending,    \* for each kind of operation, how many are outstanding
  ws,         \* what the current stream object has reached
  buffer,     \* the flat_buffer all reads append to
  wire,       \* messages sent on the current connection and not read yet
  published,  \* id of the last message the exchange published
  subscribed, \* history: id of the last message before the current connection
  delivered,  \* history: id of the last message passed to the server
  restarting  \* history: a read failed and no connection was open since

env  == <<wire, published>>
vars == <<status, callback, pending, ws, buffer, wire, published,
          subscribed, delivered, restarting>>

TypeOK ==
  /\ status \in {"starting", "running", "terminated"}
  /\ callback \in BOOLEAN
  /\ pending \in [Operations -> Nat]
  /\ ws \in Stages
  /\ buffer \in Seq(Messages)
  /\ wire \in Seq(Messages)
  /\ published \in 0..MaxPublished
  /\ subscribed \in 0..MaxPublished
  /\ delivered \in 0..MaxPublished
  /\ restarting \in BOOLEAN

Init ==
  /\ status = "starting"
  /\ callback = FALSE
  /\ pending = [op \in Operations |-> 0]
  /\ ws = "none"
  /\ buffer = <<>>
  /\ wire = <<>>
  /\ published = 0
  /\ subscribed = 0
  /\ delivered = 0
  /\ restarting = FALSE

-----------------------------------------------------------------------------
(* Pieces of the handlers.  A definition whose name starts with Slip is a  *)
(* plausible mistake in the definition that follows it; no specification   *)
(* uses it, it only shows that a property notices the mistake.             *)

SlipCompletesTwice(op) == status = "running"

\* The strand dispatches the handler of an outstanding operation.
Completes(op) == status = "running" /\ pending[op] > 0

\* The handler ends the chain of operations (it only logs).
Stop(op) == pending' = [pending EXCEPT ![op] = @ - 1]

\* The handler starts the next operation.
Continue(op, next) ==
  pending' = [ [pending EXCEPT ![op] = @ - 1] EXCEPT ![next] = @ + 1 ]

SlipKeepBytes(data) == data

\* buffer.consume(buffer.size())
consume(data) == <<>>

\* nlohmann::json::parse and to_struct accept the bytes of exactly one well
\* formed message and throw on anything else.
Parses(data) == Len(data) = 1 /\ data[1].wellFormed

SlipReuseStream == UNCHANGED <<ws, wire>>

\* A new stream object replaces the old one; what the old connection still
\* carried is gone.
reset_stream == ws' = "reset" /\ wire' = <<>>

\* An exception that leaves a handler also leaves io_context::run() and main:
\* the process dies with everything that was outstanding.
Terminate ==
  /\ status' = "terminated"
  /\ pending' = [op \in Operations |-> 0]
  /\ ws' = "broken"
  /\ wire' = <<>>

-----------------------------------------------------------------------------
(* main(): register the server, then start the first connection attempt.   *)

set_callback ==
  /\ status = "starting" /\ ~callback
  /\ callback' = TRUE
  /\ UNCHANGED <<status, pending, ws, buffer, env, subscribed, delivered,
                 restarting>>

main_async_connect ==
  /\ status = "starting" /\ callback
  /\ status' = "running"
  /\ reset_stream
  /\ pending' = [pending EXCEPT !["resolve"] = @ + 1]
  /\ UNCHANGED <<callback, buffer, published, subscribed, delivered,
                 restarting>>

-----------------------------------------------------------------------------
(* The completion handlers; ec is TRUE when the operation failed.  Before  *)
(* the WebSocket handshake has succeeded a failure is only logged.         *)

\* A watchdog for the connect, which nothing cancels.
SlipConnectWatchdog(ec) ==
  /\ Completes("resolve")
  /\ pending' = IF ec THEN [pending EXCEPT !["resolve"] = @ - 1]
                ELSE [pending EXCEPT !["resolve"] = @ - 1, !["connect"] = @ + 1,
                                     !["timer"] = @ + 1]
  /\ UNCHANGED <<status, callback, ws, buffer, env, subscribed, delivered,
                 restarting>>

on_resolve(ec) ==
  /\ Completes("resolve")
  /\ IF ec THEN Stop("resolve") ELSE Continue("resolve", "connect")
  /\ UNCHANGED <<status, callback, ws, buffer, env, subscribed, delivered,
                 restarting>>

\* An operation on the stream succeeds only if the stream is ready for it.
StreamOutcome(op, ec, next, stage) ==
  /\ Completes(op)
  /\ ec \/ ws = StreamStage[op]
  /\ ws' = IF ec THEN "broken" ELSE stage
  /\ IF ec THEN Stop(op) ELSE Continue(op, next)

on_connect(ec) ==
  /\ StreamOutcome("connect", ec, "ssl_handshake", "connected")
  /\ UNCHANGED <<status, callback, buffer, env, subscribed, delivered,
                 restarting>>

on_ssl_handshake(ec) ==
  /\ StreamOutcome("ssl_handshake", ec, "ws_handshake", "secured")
  /\ UNCHANGED <<status, callback, buffer, env, subscribed, delivered,
                 restarting>>

\* Success calls run_client, which starts the first read.  The exchange sends
\* what it publishes from now on.
on_ws_handshake(ec) ==
  /\ StreamOutcome("ws_handshake", ec, "read", "open")
  /\ subscribed' = IF ec THEN subscribed ELSE published
  /\ restarting' = (ec /\ restarting)
  /\ UNCHANGED <<status, callback, buffer, env, delivered>>

-----------------------------------------------------------------------------
(* The three outcomes of a read.                                           *)

\* The exchange closed the connection with a close frame: nothing follows.
on_read_closed ==
  /\ Completes("read")
  /\ Stop("read")
  /\ ws' = "broken"
  /\ wire' = <<>>
  /\ UNCHANGED <<status, callback, buffer, published, subscribed, delivered,
                 restarting>>

SlipRetriesAtOnce ==
  /\ Completes("read")
  /\ pending' = [pending EXCEPT !["timer"] = @ + 1]
  /\ ws' = "broken"
  /\ wire' = <<>>
  /\ buffer' = <<>>
  /\ restarting' = TRUE
  /\ UNCHANGED <<status, callback, published, subscribed, delivered>>

\* Any other error (a reset, say): part of a message may have arrived.
\* The handler drops the bytes and arms the timer.
on_read_error ==
  /\ Completes("read")
  /\ Continue("read", "timer")
  /\ ws' = "broken"
  /\ wire' = <<>>
  /\ \E rest \in {<<>>, <<Partial>>} : buffer' = consume(buffer \o rest)
  /\ restarting' = TRUE
  /\ UNCHANGED <<status, callback, published, subscribed, delivered>>

SlipSkipMalformed(throws) ==
  /\ Completes("read") /\ ws = StreamStage["read"] /\ wire # <<>>
  /\ buffer' = <<>>
  /\ delivered' = IF Head(wire).wellFormed THEN Head(wire).id ELSE delivered
  /\ wire' = Tail(wire)
  /\ UNCHANGED <<status, pending, ws, callback, published, subscribed,
                 restarting>>

SlipNoRearm(throws) ==
  /\ Completes("read") /\ ws = StreamStage["read"] /\ wire # <<>>
  /\ buffer' = <<>>
  /\ delivered' = Head(wire).id
  /\ wire' = Tail(wire)
  /\ Stop("read")
  /\ UNCHANGED <<status, ws, callback, published, subscribed, restarting>>

\* A message arrived.  It is parsed, passed to the server (whose on_update
\* may throw), the buffer is emptied and the next read is started; an
\* exception skips the rest.
on_read_message(throws) ==
  /\ Completes("read") /\ ws = StreamStage["read"] /\ wire # <<>>
  /\ LET data == Append(buffer, Head(wire)) IN
     /\ delivered' = IF Parses(data) THEN Head(wire).id ELSE delivered
     /\ \/ /\ Parses(data) /\ ~throws
           /\ buffer' = consume(data)
           /\ wire' = Tail(wire)
           /\ Continue("read", "read")
           /\ UNCHANGED <<status, ws>>
        \/ /\ ~Parses(data) \/ throws
           /\ buffer' = data
           /\ Terminate
  /\ UNCHANGED <<callback, published, subscribed, restarting>>

SlipRearmTimer ==
  /\ Completes("timer")
  /\ Continue("timer", "timer")
  /\ UNCHANGED <<status, callback, ws, buffer, env, subscribed, delivered,
                 restarting>>

\* The lambda given to reconnect_timer.async_wait ignores its error code.
on_reconnect_timer ==
  /\ Completes("timer")
  /\ reset_stream
  /\ Continue("timer", "resolve")
  /\ UNCHANGED <<status, callback, buffer, published, subscribed, delivered,
                 restarting>>

-----------------------------------------------------------------------------
(* The exchange publishes.                                                 *)

\* The last message that left the current connection.
Cursor == IF delivered > subscribed THEN delivered ELSE subscribed

\* The peer or the network is gone without a word: nothing published since
\* is on the wire, nor will be.
Silent == ws = "open" /\ Cursor + Len(wire) < published

\* An open connection carries the message, unless it falls silent.  No option
\* of the stream (an idle limit, pings) makes the client notice.
Publish(wellFormed) ==
  /\ published < MaxPublished
  /\ published' = published + 1
  /\ wire' \in IF ws = "open" /\ ~Silent
               THEN {wire, Append(wire, [id |-> published', wellFormed |-> wellFormed])}
               ELSE {wire}
  /\ UNCHANGED <<status, callback, pending, ws, buffer, subscribed, delivered,
                 restarting>>

Main == set_callback \/ main_async_connect

OnRead == on_read_closed \/ on_read_error \/ \E t \in BOOLEAN : on_read_message(t)

Next ==
  \/ Main
  \/ \E ec \in BOOLEAN :
       on_resolve(ec) \/ on_connect(ec) \/ on_ssl_handshake(ec) \/ on_ws_handshake(ec)
  \/ OnRead
  \/ on_reconnect_timer
  \/ \E wellFormed \in BOOLEAN : Publish(wellFormed)

(***************************************************************************)
(* Fairness.  main is straight-line code.  The TCP connect has a 30 second *)
(* limit, the WebSocket handshake has the 30 seconds of Beast's suggested  *)
(* client timeouts, and the timer is a timer: these complete, one way or   *)
(* the other.  Name resolution has no limit in this code, and the limit of *)
(* the TCP layer is switched off before the TLS handshake: neither is      *)
(* assumed to complete.  The suggested client timeouts have no idle limit, *)
(* so a read on a silent connection may last forever; that a read with     *)
(* bytes to receive completes is assumed of the network.                   *)
(***************************************************************************)
Fairness ==
  /\ WF_vars(Main)
  /\ WF_vars(\E ec \in BOOLEAN : on_connect(ec))
  /\ WF_vars(\E ec \in BOOLEAN : on_ws_handshake(ec))
  /\ WF_vars(wire # <<>> /\ OnRead)
  /\ WF_vars(on_reconnect_timer)

Spec == Init /\ [][Next]_vars

FairSpec == Spec /\ Fairness

-----------------------------------------------------------------------------
(* Properties.                                                             *)

\* The handlers form one chain: the client never has two operations
\* outstanding, so no two handlers race for the stream, the buffer or the
\* timer, and a read is never started while another one is outstanding.
OneOperationOutstanding ==
  \A op1, op2 \in Operations :
    /\ pending[op1] <= 1
    /\ pending[op1] > 0 /\ pending[op2] > 0 => op1 = op2

\* Every operation finds the stream at the stage it needs: the handshakes
\* happen in order, also on the second and later connections.
HandshakesInOrder ==
  \A op \in DOMAIN StreamStage : pending[op] > 0 => ws = StreamStage[op]

\* No read starts on top of bytes that an earlier message or a broken
\* connection left in the buffer shared by all connections.
CleanBuffer == pending["read"] > 0 => buffer = <<>>

\* While a connection is open, the messages published on it up to some point
\* (until it falls silent: up to now) are either passed to the server already
\* or still on the wire, in order: the read loop skips, repeats and reorders
\* nothing.
NothingLostWhileOpen ==
  ws = "open" =>
    /\ Len(wire) <= published - Cursor
    /\ \A i \in DOMAIN wire : wire[i].id = Cursor + i

\* async_connect destroys the old stream only when no operation on it is
\* outstanding, so no aborted handler of the old stream runs on the new one.
ResetsOnlyIdleStream ==
  [][ws # "reset" /\ ws' = "reset" =>
       \A op \in DOMAIN StreamStage : pending'[op] = 0]_vars

Abandoned == \A op \in Operations : pending[op] = 0

\* Every message published on an open connection reaches the server, or the
\* connection or the process ends, unless the connection is silent: only that
\* is never noticed.
NewsArrivesUnlessSilent ==
  \A id \in 1..MaxPublished :
    ws = "open" /\ id <= published ~>
      Cursor >= id \/ ws # "open" \/ (Silent /\ wire = <<>>)

\* After a failed read the client gets to reading again or gives up, unless
\* one of the two operations that nothing bounds in time, name resolution and
\* the TLS handshake, never completes.
BackoffSettlesUnlessStalled ==
  ([]<>(pending["resolve"] = 0) /\ []<>(pending["ssl_handshake"] = 0)) =>
    (pending["timer"] > 0 ~> (pending["read"] > 0 \/ Abandoned))

\* What the message "Restarting connection due to unexpected error" of
\* on_read announces: from then until a connection is open again, the client
\* is still working on it.
KeepsRestarting == restarting /\ status = "running" => ~Abandoned

\* Seen from the server, resolvers, handshakes, reads, errors and timers are
\* a feed: a connection that opens, brings what is published from then on,
\* and ends.
Feed == INSTANCE MarketFeed WITH
          alive     <- status = "running",
          connected <- ws = "open",
          carried   <- Cursor + Len(wire)

ImplementsFeed == Feed!FairSpec
=============================================================================
