--------------------------- MODULE MCPublication ----------------------------
(* Publication with two symbols, one of them that of the circuit breaker.  *)
EXTENDS Publication, TLC

CONSTANTS btc, alt, a1, a2
ShortOrBoth == {{"short"}, {"long", "short"}}

\* Without abnormal candles no symbol differs from another.
Symmetry == Permutations({a1, a2}) \cup Permutations({btc, alt})
=============================================================================
