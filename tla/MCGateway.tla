----------------------------- MODULE MCGateway ------------------------------
(* Instances of Gateway for TLC: the access list and both pattern rules; a *)
(* host inside a network; rule sets of which every one blocks what another *)
(* lets through.                                                           *)
EXTENDS Gateway

CONSTANTS net, host

MCChain == <<"ipblock", "sqli", "xss">>
MCWithin == [r \in Requests |-> {net, host}]
MCEnabledSets == {{"ipblock", "sqli"}, {"ipblock", "xss"}, {"xss"}}
MCAccessLists == {[allow |-> {host}, deny |-> {net}], [allow |-> {}, deny |-> {net}]}
=============================================================================
