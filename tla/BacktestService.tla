---------------------------- MODULE BacktestService ----------------------------
(***************************************************************************)
(* The two halves of BacktestService: the scan of the market with the      *)
(* parts it calls, and the simulation of one stock, which pages ask for    *)
(* and which the scan's outcomes come from.  A scan takes the outcomes of  *)
(* its simulations as data (Outcomes of MarketScan).                       *)
(***************************************************************************)
EXTENDS MarketScan, Backtest

ServiceInit == Init /\ SimulationInit

Scans == Next /\ UNCHANGED simulationVars
Simulates == SimulationNext /\ UNCHANGED vars

ServiceNext == Scans \/ Simulates
================================================================================
