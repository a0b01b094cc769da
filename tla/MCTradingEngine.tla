--------------------------- MODULE MCTradingEngine ---------------------------
(***************************************************************************)
(* Values of the constants for model-checking TradingEngine.  Strategy 1   *)
(* stands for trend_filtered_breakout (ATR trail, days limit), strategy 2  *)
(* for intraday_momentum_breakout (percentage trail, hours limit).         *)
(***************************************************************************)
EXTENDS TradingEngine

(* Strategy 1 alone, as strategies.yaml ships. *)
TfvbHardStopPct == <<5>>
TfvbTrailPct == <<0>>
TfvbAtrMult == <<2>>
TfvbMaxHoldDays == <<2>>
TfvbMaxHoldHours == <<-1>>
TfvbReadsAtr14 == <<TRUE>>

(* Both strategies on the same markets. *)
BothHardStopPct == <<5, 3>>
BothTrailPct == <<0, 3>>
BothAtrMult == <<2, 2>>
BothMaxHoldDays == <<2, 5>>
BothMaxHoldHours == <<-1, 24>>
BothReadsAtr14 == <<TRUE, FALSE>>
=============================================================================
