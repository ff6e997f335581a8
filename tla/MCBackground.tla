---------------------------- MODULE MCBackground ----------------------------
(***************************************************************************)
(* What an application runs beside its requests: the runner and a ticker   *)
(* job.  They share no state: a behaviour is one of either.                *)
(***************************************************************************)
EXTENDS StaticRunner, TickerJob

VARIABLE part   \* the one that moves

backgroundVars == <<vars, tickerVars, part>>

BackgroundInit == part \in {"runner", "ticker"} /\ Init /\ TickerInit

RunnerMoves == part = "runner" /\ Next /\ UNCHANGED <<tickerVars, part>>

TickerMoves == part = "ticker" /\ TickerNext /\ UNCHANGED <<vars, part>>

BackgroundNext == RunnerMoves \/ TickerMoves

\* The fairness of StaticRunner, none of whose steps is enabled while the ticker moves.
BackgroundSpec == BackgroundInit /\ [][BackgroundNext]_backgroundVars /\ Fairness
=============================================================================
