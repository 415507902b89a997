------------------------------ MODULE MCSignIn ------------------------------
(* An instance of SignIn for TLC: two clients, directly and through one or *)
(* two proxies, and lists that name others, name a proxy or are malformed. *)
EXTENDS SignIn, TLC

CONSTANTS alice, bob, edge, inner

MCWritten == {<<>>, <<bob, Empty>>, <<edge>>, <<Malformed>>}
MCPaths == {<<>>, <<edge>>, <<edge, inner>>}

Interchangeable == Permutations(Attempts)
=============================================================================
