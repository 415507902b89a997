---------------------------- MODULE MCRateLimit -----------------------------
(* Instances of RateLimit for TLC.  Requests are interchangeable.          *)
EXTENDS RateLimit, TLC

Interchangeable == Permutations(ClientRequests)
=============================================================================
