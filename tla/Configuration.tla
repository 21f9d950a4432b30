--------------------------- MODULE Configuration ---------------------------
(***************************************************************************)
(* How the environment of the process configures the server.  An           *)
(* environment is a function from the names of the variables that are set  *)
(* to their values: doubles, except for use_first_level_only, which is a   *)
(* text, and for the interval, which is counted in halves.                 *)
(*                                                                         *)
(* A definition whose name starts with Slip is a plausible mistake in the  *)
(* definition that follows it and is used nowhere else.                    *)
(***************************************************************************)
EXTENDS Doubles, TLC

\* The profit threshold and the taker fee are kept as factors.
ServerConfig(profitThresh, fee, maxNotionalFraction, maxNotionalRecalcInterval, useFirstLevel) ==
  [profitThreshold             |-> Plus(profitThresh, One),
   takerFee                    |-> Minus(One, fee),
   maxStartingNotionalFraction |-> maxNotionalFraction,
   interval                    |-> maxNotionalRecalcInterval,
   useFirstLevelOnly           |-> useFirstLevel]

Defaults == [profit_threshold |-> Zero, taker_fee |-> Zero,
             max_starting_notional_fraction |-> One,
             max_starting_notional_recalc_interval |-> 0,
             use_first_level_only |-> "true"]

\* Only the text "true" means true.
server_config(env) ==
  LET value == env @@ Defaults
  IN  ServerConfig(value.profit_threshold, value.taker_fee,
                   value.max_starting_notional_fraction,
                   value.max_starting_notional_recalc_interval,
                   value.use_first_level_only = "true")
=============================================================================
