------------------------------- MODULE SignIn -------------------------------
(***************************************************************************)
(* Sign-in attempts and their throttle: handleLogin, loginLimiter and the  *)
(* address an attempt is attributed to.                                    *)
(*                                                                         *)
(* The limiter is asked before the password is compared and told after it, *)
(* in two critical sections: attempts of one address overlap in between.   *)
(***************************************************************************)
EXTENDS Integers, FiniteSets, Sequences, FiniteSetsExt

CONSTANTS
    Attempts,   \* Calls of handleLogin.
    Clients,    \* Addresses of clients.
    Proxies,    \* Addresses of the edge's proxies: OS_TRUSTED_PROXY.
    Empty,      \* An empty entry of X-Forwarded-For.
    Malformed,  \* An entry that is no address.
    Written,    \* The lists that clients send along themselves.
    Paths,      \* The proxies an attempt goes through, first to last.
    Limit,      \* loginLimiter.max
    Window,     \* loginLimiter.window
    SweepAt,    \* The number of records from which on sweep works.
    MaxTime     \* Bound on the clock.

Addresses == Clients \cup Proxies

ASSUME SignInAssumption ==
    /\ IsFiniteSet(Attempts)
    /\ Clients \cap Proxies = {} /\ {Empty, Malformed} \cap Addresses = {}
    /\ Written \subseteq Seq(Addresses \cup {Empty, Malformed})
    /\ Paths \subseteq Seq(Proxies)
    /\ Limit \in Nat \ {0} /\ Window \in Nat \ {0}
    /\ SweepAt \in Nat \ {0} /\ MaxTime \in Nat

VARIABLES
    at,         \* The point each attempt has reached.
    client,     \* Who makes it.
    ip,         \* The address it is attributed to.
    attempts,   \* loginLimiter.attempts; a count of 0 is no record.
    clock,      \* The clock of the dashboard.
    ended,      \* History: when an attempt failed.
    cleared,    \* History: the failures before a success of their client.
    peak        \* History: the most attempts of an address compared at once.

vars == <<at, client, ip, attempts, clock, ended, cleared, peak>>

NoRecord == [count |-> 0, first |-> 0]

TypeOK ==
    /\ at \in [Attempts -> {"new", "compare", "malformed", "refused", "failed", "in", "cut"}]
    /\ client \in [Attempts -> Clients] /\ ip \in [Attempts -> Addresses]
    /\ attempts \in [Addresses -> [count : 0..Cardinality(Attempts), first : 0..MaxTime]]
    /\ clock \in 0..MaxTime /\ ended \in [Attempts -> 0..MaxTime]
    /\ cleared \subseteq Attempts
    /\ peak \in [Addresses -> 0..Cardinality(Attempts)]

Init ==
    /\ at = [a \in Attempts |-> "new"]
    /\ client \in [Attempts -> Clients]
    /\ ip = client
    /\ attempts = [i \in Addresses |-> NoRecord]
    /\ clock = 0 /\ ended = [a \in Attempts |-> 0]
    /\ cleared = {}
    /\ peak = [i \in Addresses |-> 0]

-----------------------------------------------------------------------------
(* The connection handleLogin sees: every proxy appends whom it was called *)
(* by to what the client wrote, and the last one is the peer.              *)
Peer(c, path) == IF path = <<>> THEN c ELSE path[Len(path)]
Forwarded(c, path, written) ==
    IF path = <<>> THEN written ELSE written \o <<c>> \o SubSeq(path, 1, Len(path) - 1)

(***************************************************************************)
(* clientIP: the last entry that is not a trusted proxy's, if the peer is  *)
(* one; a malformed entry ends the walk.  Mutant: the first such entry.    *)
(***************************************************************************)
FirstForwarded(peer, list) ==
    LET others == {i \in DOMAIN list : list[i] \notin Proxies \cup {Empty, Malformed}}
    IN  IF peer \notin Proxies \/ others = {} THEN peer ELSE list[Min(others)]

ClientIP(peer, list) ==
    LET others == {i \in DOMAIN list : list[i] \notin Proxies \cup {Empty}}
    IN  IF peer \notin Proxies \/ others = {} \/ list[Max(others)] = Malformed
        THEN peer
        ELSE list[Max(others)]

Expired(record) == record.count > 0 /\ clock - record.first > Window

(* sweep, then the record of the address itself.                           *)
Swept(i) ==
    LET full == Cardinality({j \in Addresses : attempts[j].count > 0}) >= SweepAt
    IN  [j \in Addresses |-> IF Expired(attempts[j]) /\ (full \/ j = i)
                             THEN NoRecord ELSE attempts[j]]

(* The answer of allow.  Mutant: one more.                                 *)
AtMax(record) == record.count <= Limit
BelowMax(record) == record.count < Limit

Comparing(i) == {a \in Attempts : at[a] = "compare" /\ ip[a] = i}

(* allow: the attempt goes on to its comparison, or is answered with 429.  *)
Allow(a) ==
    /\ at[a] = "new"
    /\ \E path \in Paths, written \in Written :
         LET i == ClientIP(Peer(client[a], path), Forwarded(client[a], path, written))
             n == Cardinality(Comparing(i)) + 1
         IN  /\ ip' = [ip EXCEPT ![a] = i]
             /\ attempts' = Swept(i)
             /\ \/ /\ BelowMax(Swept(i)[i])
                   /\ at' = [at EXCEPT ![a] = "compare"]
                   /\ peak' = [peak EXCEPT ![i] = Max({@, n})]
                \/ /\ ~BelowMax(Swept(i)[i])
                   /\ at' = [at EXCEPT ![a] = "refused"]
                   /\ UNCHANGED peak
    /\ UNCHANGED <<client, clock, ended, cleared>>

(* The body cannot be decoded: 400, and nothing is counted.                *)
Reject(a) ==
    /\ at[a] = "compare"
    /\ at' = [at EXCEPT ![a] = "malformed"]
    /\ UNCHANGED <<client, ip, attempts, clock, ended, cleared, peak>>

(* fail: the first failure of a window, or one more.                       *)
Counted(record) ==
    IF record.count = 0 \/ Expired(record) THEN [count |-> 1, first |-> clock]
    ELSE [record EXCEPT !.count = @ + 1]

(* Login finds other credentials; fail counts.                             *)
Fail(a) ==
    /\ at[a] = "compare"
    /\ at' = [at EXCEPT ![a] = "failed"]
    /\ ended' = [ended EXCEPT ![a] = clock]
    /\ attempts' = [attempts EXCEPT ![ip[a]] = Counted(@)]
    /\ UNCHANGED <<client, ip, clock, cleared, peak>>

(* The record after a success.  Mutant: reset forgotten.                   *)
NoReset(record) == record
Reset(record) == NoRecord

(* Login finds the right credentials and issues a token.  The outcome of   *)
(* RecordAdmin is not looked at.                                           *)
Succeed(a) ==
    /\ at[a] = "compare"
    /\ at' = [at EXCEPT ![a] = "in"]
    /\ attempts' = [attempts EXCEPT ![ip[a]] = Reset(@)]
    /\ cleared' = cleared \cup {b \in Attempts : at[b] = "failed" /\ client[b] = client[a]}
    /\ UNCHANGED <<client, ip, clock, ended, peak>>

(* The dashboard ends and starts again: the records are in its memory.     *)
Restart ==
    /\ attempts' = [i \in Addresses |-> NoRecord]
    /\ at' = [a \in Attempts |-> IF at[a] = "compare" THEN "cut" ELSE at[a]]
    /\ UNCHANGED <<client, ip, clock, ended, cleared, peak>>

Tick ==
    /\ clock < MaxTime
    /\ clock' = clock + 1
    /\ UNCHANGED <<at, client, ip, attempts, ended, cleared, peak>>

Next ==
    \/ \E a \in Attempts : Allow(a) \/ Reject(a) \/ Fail(a) \/ Succeed(a)
    \/ Restart \/ Tick

Spec == Init /\ [][Next]_vars

-----------------------------------------------------------------------------
FailuresOf(c) == {a \in Attempts : at[a] = "failed" /\ client[a] = c}

(***************************************************************************)
(* "The address to attribute a request to": nobody is charged for another  *)
(* one's failures, whatever lists clients send along and through however   *)
(* many proxies they come.                                                 *)
(***************************************************************************)
ChargedToTheirAuthor == \A i \in Addresses :
    attempts[i].count <= Cardinality(IF i \in Clients THEN FailuresOf(i) ELSE {})

(***************************************************************************)
(* A refusal has its cause: the client failed Limit times within a window, *)
(* and has not signed in since ("an operator who mistypes a few times and  *)
(* then gets it right is not punished").                                   *)
(***************************************************************************)
Causes(c) == {b \in FailuresOf(c) \ cleared : clock - ended[b] <= Window}
RefusalHasCause == [][\A a \in Attempts :
    at[a] = "new" /\ at'[a] = "refused" => Cardinality(Causes(client[a])) >= Limit]_vars

(***************************************************************************)
(* "loginLimiter caps failed sign-in attempts per source address": since   *)
(* allow and fail are apart, attempts that overlap may pass the cap, but   *)
(* by no more than their number: the failures counted and those that may   *)
(* still come stay below Limit plus the most that ever overlapped.         *)
(***************************************************************************)
OvershootIsConcurrency == \A i \in Addresses :
    attempts[i].count + Cardinality(Comparing(i)) <= Limit - 1 + peak[i]
=============================================================================
