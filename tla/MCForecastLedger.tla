--------------------------- MODULE MCForecastLedger ---------------------------
EXTENDS ForecastLedger, TLC

Symmetry == Permutations(Isolates) \union Permutations(Forecasts) \union Permutations(Scores)
=============================================================================
