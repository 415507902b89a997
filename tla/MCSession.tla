----------------------------- MODULE MCSession ------------------------------
(* An instance of Session for TLC: two tabs and two sign-ins.              *)
EXTENDS Session

CONSTANTS t1, t2
=============================================================================
