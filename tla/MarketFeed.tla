----------------------------- MODULE MarketFeed -----------------------------
(***************************************************************************)
(* What a market data client promises to the server, without resolvers,    *)
(* handshakes, reads and timers: while a connection is open the server is  *)
(* given the updates published since then, each once and in order, until   *)
(* the connection is lost, falls silent, or the process dies.  What is     *)
(* published without a connection is missed.                               *)
(*                                                                         *)
(* Updates are numbered in the order of their publication.                 *)
(***************************************************************************)
EXTENDS Naturals

CONSTANT MaxPublished  \* bound: updates the exchange publishes

VARIABLES
  alive,       \* a process runs
  connected,   \* it has an open connection
  published,   \* the last update published
  carried,     \* the last update that the connection brought, or will bring
  subscribed,  \* the last update published before the connection opened
  delivered    \* the last update given to the server

vars == <<alive, connected, published, carried, subscribed, delivered>>

\* The last update that the client is through with, given to the server or
\* missed.
Position == IF delivered > subscribed THEN delivered ELSE subscribed

Init ==
  /\ alive = FALSE /\ connected = FALSE
  /\ published = 0 /\ carried = 0 /\ subscribed = 0 /\ delivered = 0

\* A process starts.
Start ==
  /\ ~alive
  /\ alive' = TRUE
  /\ UNCHANGED <<connected, published, carried, subscribed, delivered>>

\* A connection carries the update, unless it fell silent with this update
\* or before: then nothing arrives on it any more.
Publish ==
  /\ published < MaxPublished
  /\ published' = published + 1
  /\ carried' \in IF connected /\ carried = published
                  THEN {carried, published'} ELSE {carried}
  /\ UNCHANGED <<alive, connected, subscribed, delivered>>

Connect ==
  /\ alive /\ ~connected
  /\ connected' = TRUE
  /\ subscribed' = published /\ carried' = published
  /\ UNCHANGED <<alive, published, delivered>>

Disconnect ==
  /\ connected
  /\ connected' = FALSE
  /\ carried' = Position
  /\ UNCHANGED <<alive, published, subscribed, delivered>>

\* The server gets the next update; if it throws, the process dies.
Deliver(throws) ==
  /\ connected /\ Position < carried
  /\ delivered' = Position + 1
  /\ alive' = ~throws /\ connected' = ~throws
  /\ carried' = IF throws THEN Position + 1 ELSE carried
  /\ UNCHANGED <<published, subscribed>>

\* The process dies of an update that cannot be parsed, or of a signal.
Die ==
  /\ alive
  /\ alive' = FALSE /\ connected' = FALSE
  /\ carried' = Position
  /\ UNCHANGED <<published, subscribed, delivered>>

Consume == Disconnect \/ Die \/ \E throws \in BOOLEAN : Deliver(throws)

Next == Start \/ Publish \/ Connect \/ Consume

Spec == Init /\ [][Next]_vars

\* An update that was brought does not wait for ever.
Fairness == WF_vars(Position < carried /\ Consume)

FairSpec == Spec /\ Fairness
=============================================================================
