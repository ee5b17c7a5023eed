----------------------------- MODULE MCBenches ------------------------------
(* Bench with the parameters that the test benches mirror, the RTL's        *)
(* defaults.  Prices and sizes have 30 bits here.                          *)
EXTENDS Bench

\* The free stream's prices are at either end of the range and between.
Word == 2^30
=============================================================================
