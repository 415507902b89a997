------------------------------ MODULE Session -------------------------------
(***************************************************************************)
(* Sessions of the dashboard: the tokens internal/auth issues and          *)
(* verifies, the endpoints that set and clear the cookie, and the tabs of  *)
(* one browser, which share the cookie and each have calls under way.      *)
(*                                                                         *)
(* A call carries the cookie of the moment it is sent; its answer may come *)
(* late, after other answers, or never.  The dashboard keeps no sessions:  *)
(* a token is good until it expires.                                       *)
(***************************************************************************)
EXTENDS Integers, FiniteSets

CONSTANTS
    Tabs,       \* The tabs of the browser.
    MaxTokens,  \* Bound on the sign-ins that succeed.
    MaxCalls,   \* Bound on the calls under way when the operator acts.
    None,       \* No cookie, no call.
    Keep        \* The answer leaves the cookie as it is.

Tokens == 1..MaxTokens

ASSUME SessionAssumption == {MaxTokens, MaxCalls} \subseteq Nat /\ {None, Keep} \cap Tokens = {}

(* The calls a tab may have under way, one of each: the probe on load,     *)
(* sign-in, sign-out, the poll of the statistics, and a call of the Rules  *)
(* view, which is not aborted when the view goes.                          *)
Paths == {"session", "login", "logout", "stats", "rules"}

VARIABLES
    issued,     \* The number of tokens issued.
    valid,      \* Those Verify accepts.
    cookie,     \* The cookie of the browser.
    page,       \* What App shows in each tab.
    call        \* The calls under way.

vars == <<issued, valid, cookie, page, call>>

(* A call on its way; answered; and with the headers of the answer taken.  *)
(* An answer keeps the cookie or sets it (None clears it), and one that    *)
(* clears it for want of a session remembers the token of its call.        *)
Sent(token) == [at |-> "sent", token |-> token]
Answer(status, set, token) ==
    [at |-> "answered", status |-> status, set |-> set, token |-> token]
Received(status) == [at |-> "received", status |-> status]

MaybeToken == Tokens \cup {None}

CallState ==
    {None} \cup [at : {"sent"}, token : MaybeToken]
           \cup [at : {"answered"}, status : {"ok", "401"},
                 set : MaybeToken \cup {Keep}, token : MaybeToken]
           \cup [at : {"received"}, status : {"ok", "401"}]

TypeOK ==
    /\ issued \in 0..MaxTokens /\ valid \subseteq 1..issued
    /\ cookie \in MaybeToken
    /\ page \in [Tabs -> {"boot", "form", "app"}]
    /\ call \in [Tabs -> [Paths -> CallState]]

NoCalls == [p \in Paths |-> None]

(* A tab that is loaded asks for its session (the useEffect of App).       *)
Loaded(token) == [NoCalls EXCEPT !["session"] = Sent(token)]

Init ==
    /\ issued = 0 /\ valid = {}
    /\ cookie = None
    /\ page = [t \in Tabs |-> "boot"]
    /\ call = [t \in Tabs |-> Loaded(None)]

-----------------------------------------------------------------------------
(***************************************************************************)
(* The dashboard.                                                          *)
(***************************************************************************)
Verify(token) == token \in valid

(* Require, and handleSession, which does the same.  A request without a   *)
(* cookie clears none.  Mutant: it does.                                   *)
RequireClears(token) ==
    IF Verify(token) THEN Answer("ok", Keep, None) ELSE Answer("401", None, token)
Require(token) ==
    CASE token = None  -> Answer("401", Keep, None)
      [] Verify(token) -> Answer("ok", Keep, None)
      [] OTHER         -> Answer("401", None, token)

Waiting(t, p) == call[t][p] # None /\ call[t][p].at = "sent"

HandleGuarded(t, p) ==
    /\ p \in {"session", "stats", "rules"} /\ Waiting(t, p)
    /\ call' = [call EXCEPT ![t][p] = Require(@.token)]
    /\ UNCHANGED <<issued, valid, cookie, page>>

(* handleLogin: the limiter or the password refuses (SignIn), or a token   *)
(* is issued.                                                              *)
HandleLogin(t) ==
    /\ Waiting(t, "login")
    /\ \/ /\ call' = [call EXCEPT ![t]["login"] = Answer("401", Keep, None)]
          /\ UNCHANGED <<issued, valid>>
       \/ /\ issued < MaxTokens
          /\ issued' = issued + 1 /\ valid' = valid \cup {issued'}
          /\ call' = [call EXCEPT ![t]["login"] = Answer("ok", issued', None)]
    /\ UNCHANGED <<cookie, page>>

(* handleLogout: whoever calls it.  The token stays good.                  *)
HandleLogout(t) ==
    /\ Waiting(t, "logout")
    /\ call' = [call EXCEPT ![t]["logout"] = Answer("ok", None, None)]
    /\ UNCHANGED <<issued, valid, cookie, page>>

(* The expiry in a token passes, or the dashboard is started with another  *)
(* secret, which ends them all.                                            *)
Expire ==
    /\ \E token \in valid : valid' = valid \ {token}
    /\ UNCHANGED <<issued, cookie, page, call>>

-----------------------------------------------------------------------------
(***************************************************************************)
(* The browser.                                                            *)
(***************************************************************************)
(* The headers of an answer arrive: the cookie is set or cleared, whatever *)
(* has become of the session since.                                        *)
Receive(t, p) ==
    /\ call[t][p] # None /\ call[t][p].at = "answered"
    /\ cookie' = IF call[t][p].set = Keep THEN cookie ELSE call[t][p].set
    /\ call' = [call EXCEPT ![t][p] = Received(@.status)]
    /\ UNCHANGED <<issued, valid, page>>

(* Whether request leaves a status to its caller.  Mutant: always.         *)
AnyIsAnAnswer(p, status) == TRUE
IsAnAnswer(p, status) == status # "401" \/ p \in {"login", "session"}

(* What App shows after a call: the probe, onSignedIn, the sign-out        *)
(* (.catch(() => undefined)), the unauthorized handler.                    *)
Shown(t, p, status) ==
    CASE p = "session"          -> IF status = "ok" THEN "app" ELSE "form"
      [] p = "login"            -> IF status = "ok" THEN "app" ELSE page[t]
      [] p = "logout"           -> "form"
      [] p \in {"stats", "rules"} -> IF IsAnAnswer(p, status) THEN page[t] ELSE "form"

(* The call ends.  With the views goes the poll, which is aborted, and     *)
(* with them it comes back.                                                *)
Ends(t, p, status) ==
    LET next == Shown(t, p, status)
        rest == [call[t] EXCEPT ![p] = None]
    IN  /\ page' = [page EXCEPT ![t] = next]
        /\ call' = [call EXCEPT ![t] =
             CASE next # "app"                     -> [rest EXCEPT !["stats"] = None]
               [] next = "app" /\ page[t] # "app"  -> [rest EXCEPT !["stats"] = Sent(cookie)]
               [] OTHER                            -> rest]
        /\ UNCHANGED <<issued, valid, cookie>>

Continue(t, p) ==
    /\ call[t][p] # None /\ call[t][p].at = "received"
    /\ Ends(t, p, call[t][p].status)

(* No answer: the network fails, or the timer of request aborts the call.  *)
Lose(t, p) == call[t][p] # None /\ Ends(t, p, "none")

(* A call is sent with the cookie of this moment, which sign-in and        *)
(* sign-out do not look at.                                                *)
Send(t, p) ==
    /\ call' = [call EXCEPT ![t][p] = Sent(IF p \in {"login", "logout"} THEN None ELSE cookie)]
    /\ UNCHANGED <<issued, valid, cookie, page>>

(* setInterval in Live.  The poll before is aborted: it is lost first.     *)
Poll(t) == page[t] = "app" /\ call[t]["stats"] = None /\ Send(t, "stats")

UnderWay == {c \in Tabs \X Paths : call[c[1]][c[2]] # None}

(* The operator: the buttons are disabled while their call is under way.   *)
Use(t, p) ==
    /\ \/ p = "login" /\ page[t] = "form"
       \/ p \in {"logout", "rules"} /\ page[t] = "app"
    /\ call[t][p] = None /\ Cardinality(UnderWay) <= MaxCalls
    /\ Send(t, p)

(* The tab is loaded again.                                                *)
Reload(t) ==
    /\ page[t] # "boot" /\ Cardinality(UnderWay) <= MaxCalls
    /\ page' = [page EXCEPT ![t] = "boot"]
    /\ call' = [call EXCEPT ![t] = Loaded(cookie)]
    /\ UNCHANGED <<issued, valid, cookie>>

(* MaxAge: not before the token has expired.                               *)
DropCookie ==
    /\ cookie # None /\ ~Verify(cookie)
    /\ cookie' = None
    /\ UNCHANGED <<issued, valid, page, call>>

Next ==
    \/ Expire \/ DropCookie
    \/ \E t \in Tabs :
         \/ HandleLogin(t) \/ HandleLogout(t) \/ Poll(t) \/ Reload(t)
         \/ \E p \in Paths :
              HandleGuarded(t, p) \/ Receive(t, p) \/ Continue(t, p) \/ Lose(t, p) \/ Use(t, p)

Spec == Init /\ [][Next]_vars

(* The timer of the poll fires for as long as the views are there, and of  *)
(* the polls some are answered within their interval.                      *)
FairSpec == Spec /\ \A t \in Tabs :
    /\ WF_vars(Poll(t))
    /\ SF_vars(HandleGuarded(t, "stats"))
    /\ SF_vars(Receive(t, "stats"))
    /\ SF_vars(Continue(t, "stats"))

-----------------------------------------------------------------------------
(* The cookie of a good session is only lost to a sign-out, to another     *)
(* sign-in, or to the late answer to a call that carried another token,    *)
(* one that was no longer good: a call that carried no cookie, or this     *)
(* one, never ends the session however late its answer comes (Require).    *)
SessionIsKept ==
    [][cookie' # cookie /\ cookie \in valid =>
        \E t \in Tabs, p \in Paths :
            /\ Receive(t, p)
            /\ \/ p \in {"login", "logout"}
               \/ call[t][p].token \notin {None, cookie} \cup valid]_vars

(* "Any signed-in call that answers 401 means the session is gone": when   *)
(* the browser is left without a good session, every tab leaves the views  *)
(* for good, without the operator touching it.                             *)
SignedOutEverywhere ==
    <>[](cookie \notin valid) => <>[](\A t \in Tabs : page[t] # "app")
=============================================================================
