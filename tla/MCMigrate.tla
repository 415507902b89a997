----------------------------- MODULE MCMigrate ------------------------------
(* An instance of Startup for TLC: an engine of the new release, one of    *)
(* the release before and a dashboard.  The new engine or the dashboard    *)
(* has one variable of those it reads set to other than the plain value.   *)
EXTENDS Startup, TLC

CONSTANTS new, old, board

MCRelease == [e \in Engines |-> IF e = old THEN 2 ELSE 3]

MCDefault == [db |-> 1, requests |-> 5, window |-> 6, body |-> 4, buffer |-> 3, ttl |-> 8]

A(text) == [kind |-> text]
I(number) == [kind |-> "integer", n |-> number]

Plain ==
    [k \in {"db", "requests", "window", "body", "buffer", "ttl", "secure", "proxies", "patterns"}
        |-> A("unset")]
    @@ [k \in {"dsn", "hash", "secret"} |-> A("usable")]

(* With a second of 10 and durations up to 127, 13 seconds are -126 and 26 *)
(* seconds are 4.                                                          *)
Settings ==
    ({"requests", "window", "body", "buffer", "ttl"} \X {I(0), I(-1), I(2), A("malformed")})
    \cup ({"window", "ttl"} \X {I(12), I(13), I(26)})
    \cup ({"dsn", "hash", "secret"} \X {A("unset")})
    \cup {<<"dsn", A("malformed")>>, <<"secret", A("short")>>, <<"hash", A("plaintext")>>,
          <<"hash", A("truncated")>>, <<"secure", A("malformed")>>, <<"proxies", A("malformed")>>,
          <<"db", A("malformed")>>, <<"patterns", A("malformed")>>, <<"patterns", A("usable")>>}

Read(e) ==
    Parsed(e) \cup {"dsn"} \cup (IF e \in Engines THEN {"patterns"} ELSE {"hash", "secret"})

MCDeployments ==
    {[e \in Processes |-> IF e = p[1] THEN [Plain EXCEPT ![p[2][1]] = p[2][2]] ELSE Plain] :
        p \in {q \in {new, board} \X Settings : q[2][1] \in Read(q[1])}}
=============================================================================
