---------------------------- MODULE MCWebRouter ----------------------------
(* Patterns and paths over the segments a and b, and an invalid pattern of  *)
(* each kind.                                                               *)
EXTENDS WebRouter, TLC
CONSTANTS a, b

MCPatterns == {<<a, b>>, <<a, Star>>, <<Star>>, <<Dot, b>>, <<a, Dot>>}
MCMidPaths == {<<>>, <<a>>, <<a, b>>, <<Star>>}
MCPaths == {<<>>, <<a>>, <<a, b>>, <<b, b>>, <<a, b, b>>, <<Star, b>>}
MCSymmetry == Permutations(Funcs) \cup Permutations(Mids)
=============================================================================
