----------------------------- MODULE RateLimit ------------------------------
(***************************************************************************)
(* The rate limit of one client: requests are stamped by the engine's      *)
(* clock, travel to Redis, and run the sliding-window script there one at  *)
(* a time, not always in the order of their stamps.                        *)
(***************************************************************************)
EXTENDS Integers, FiniteSets

CONSTANTS
    ClientRequests,  \* The requests of the client; a request is its own member.
    Limit,           \* Limiter.limit
    Window,          \* Limiter.window, in ticks of the clock
    MaxDelay,        \* How long a request may travel before its caller gives up.
    MaxTime          \* Bound on the clock, for TLC.

ASSUME RateAssumption ==
    /\ IsFiniteSet(ClientRequests)
    /\ Limit \in Nat \ {0} /\ Window \in Nat \ {0}
    /\ MaxDelay \in Nat /\ MaxTime \in Nat

VARIABLES
    clock,      \* The time, at the engine and at Redis.
    request,    \* The point Evaluate has reached with each request.
    stamp,      \* now_ms of each request, the score of its member.
    members,    \* The sorted set.
    expires,    \* When its key expires.
    admitted,   \* History: the requests the script has let through.
    late        \* History: some request reached the script after its stamp.

limitVars == <<clock, request, stamp, members, expires, admitted, late>>

LimitTypeOK ==
    /\ clock \in 0..MaxTime
    /\ request \in [ClientRequests -> {"new", "sent", "allow", "block", "failedOpen"}]
    /\ stamp \in [ClientRequests -> 0..MaxTime]
    /\ members \subseteq ClientRequests
    /\ expires \in 0..(MaxTime + Window)
    /\ admitted \subseteq ClientRequests
    /\ late \in BOOLEAN

LimitInit ==
    /\ clock = 0
    /\ request = [r \in ClientRequests |-> "new"]
    /\ stamp = [r \in ClientRequests |-> 0]
    /\ members = {}
    /\ expires = 0
    /\ admitted = {}
    /\ late = FALSE

(* Allow: the time is read at the engine, before the script is sent.       *)
Send(r) ==
    /\ request[r] = "new"
    /\ request' = [request EXCEPT ![r] = "sent"]
    /\ stamp' = [stamp EXCEPT ![r] = clock]
    /\ UNCHANGED <<clock, members, expires, admitted, late>>

(* ZREMRANGEBYSCORE key 0 now-window, on a key that may have expired.      *)
(* Mutant: the range leaves out its upper end.                             *)
Unexpired == IF clock < expires THEN members ELSE {}
KeptTooLong(r) == {m \in Unexpired : stamp[m] >= stamp[r] - Window}
Kept(r) == {m \in Unexpired : stamp[m] > stamp[r] - Window}

(* PEXPIRE key window.  Mutant: the key expires with its first member.     *)
ExpiryOfFirst == IF Unexpired = {} THEN clock + Window ELSE expires
Expiry == clock + Window

(* Mutant: one too many.                                                   *)
AtLimit(r) == Cardinality(Kept(r)) <= Limit
UnderLimit(r) == Cardinality(Kept(r)) < Limit

(* The script.  Mutant: a refused request is put on record as well.        *)
RecordsAll(r) == Kept(r) \cup {r}
Recorded(r) == IF UnderLimit(r) THEN Kept(r) \cup {r} ELSE Kept(r)

(* The script runs, and Evaluate turns its answer into a verdict; without  *)
(* an answer the request is allowed, on record or not.                     *)
Script(r) ==
    /\ request[r] = "sent"
    /\ clock - stamp[r] <= MaxDelay
    /\ members' = Recorded(r)
    /\ expires' = Expiry
    /\ admitted' = IF UnderLimit(r) THEN admitted \cup {r} ELSE admitted
    /\ late' = (late \/ clock > stamp[r])
    /\ \/ request' = [request EXCEPT ![r] = IF UnderLimit(r) THEN "allow" ELSE "block"]
       \/ request' = [request EXCEPT ![r] = "failedOpen"]
    /\ UNCHANGED <<clock, stamp>>

(* Redis cannot be reached, or the caller has gone.                        *)
FailOpen(r) ==
    /\ request[r] = "sent"
    /\ request' = [request EXCEPT ![r] = "failedOpen"]
    /\ UNCHANGED <<clock, stamp, members, expires, admitted, late>>

Tick ==
    /\ clock < MaxTime
    /\ clock' = clock + 1
    /\ UNCHANGED <<request, stamp, members, expires, admitted, late>>

LimitNext ==
    \/ \E r \in ClientRequests : Send(r) \/ Script(r) \/ FailOpen(r)
    \/ Tick

LimitSpec == LimitInit /\ [][LimitNext]_limitVars

-----------------------------------------------------------------------------
(* The requests the script let through, of those that arrived in the       *)
(* window that ends at t.                                                  *)
AdmittedIn(t) == {r \in admitted : t - Window < stamp[r] /\ stamp[r] <= t}

(***************************************************************************)
(* "A cap on how many requests one client may make within a time window":  *)
(* no window, wherever it starts, holds more than Limit of them, as long   *)
(* as the requests reach the script in the tick of their stamp.            *)
(***************************************************************************)
CapHolds == ~late => \A t \in 0..MaxTime : Cardinality(AdmittedIn(t)) <= Limit

(***************************************************************************)
(* However the requests overtake each other, and the key expires under     *)
(* those on their way, no window holds more than 2 * Limit of them, as     *)
(* long as requests travel for half a window at most.  A request on its    *)
(* way for longer could find those forgotten that were late before it.     *)
(***************************************************************************)
AtMostTwice == 2 * MaxDelay <= Window =>
    \A t \in 0..MaxTime : Cardinality(AdmittedIn(t)) <= 2 * Limit

(***************************************************************************)
(* A refusal has its cause: the script let Limit requests through that are *)
(* younger than a window.  Refused requests do not count, so a client that *)
(* slows down is served again.                                             *)
(***************************************************************************)
RefusedHasCause == \A r \in ClientRequests : request[r] = "block" =>
    Cardinality({m \in admitted : stamp[m] > stamp[r] - Window}) >= Limit
=============================================================================
