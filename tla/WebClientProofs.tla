-------------------------- MODULE WebClientProofs ---------------------------
(***************************************************************************)
(* Proofs about the web client and the API behind it: Session, for every   *)
(* number of tabs, sign-ins and calls, and EventView, for every page size  *)
(* and length of the log.                                                  *)
(***************************************************************************)
EXTENDS Session, EventView, FiniteSetTheorems, TLAPS

(* A token that is among the first n, or no cookie.                        *)
Given(n) == 1..n \cup {None}

(* The strengthening.  What a call carries, and what the browser holds, is *)
(* a token that was issued; and the answer to a guarded call that clears   *)
(* the cookie was made for a token that had expired by then and therefore  *)
(* never is good again.  n tokens are issued, those in v are good.         *)
CallKnown(p, c, n, v) ==
    /\ c.at = "sent" => c.token \in Given(n)
    /\ c.at = "answered" => c.set \in Given(n) \cup {Keep}
    /\ c.at = "answered" /\ p \notin {"login", "logout"} /\ c.set # Keep
          => c.token \in (1..n) \ v

Knowledge ==
    /\ cookie \in Given(issued)
    /\ \A t \in Tabs, p \in Paths :
          call[t][p] # None => CallKnown(p, call[t][p], issued, valid)

IInv == TypeOK /\ Knowledge

-----------------------------------------------------------------------------
(***************************************************************************)
(* Calls.                                                                  *)
(***************************************************************************)

(* The calls that actions put in place are calls.                          *)
LEMMA CallTypes ==
  /\ None \in CallState
  /\ \A token \in MaybeToken : Sent(token) \in CallState
  /\ \A status \in {"ok", "401"}, set \in MaybeToken \cup {Keep}, token \in MaybeToken :
        Answer(status, set, token) \in CallState
  /\ \A status \in {"ok", "401"} : Received(status) \in CallState
  BY DEF CallState, Sent, Answer, Received

(* What a call is made of can be told from where it is.                    *)
LEMMA CallParts ==
  ASSUME NEW c \in CallState, c # None
  PROVE  /\ c.at = "sent" => c.token \in MaybeToken
         /\ c.at = "answered" => /\ c.status \in {"ok", "401"}
                                 /\ c.set \in MaybeToken \cup {Keep}
                                 /\ c.token \in MaybeToken
         /\ c.at = "received" => c.status \in {"ok", "401"}
  BY DEF CallState

(* A call that is known stays known as a token is issued or tokens expire. *)
LEMMA StaysKnown ==
  ASSUME NEW n \in Nat, NEW m \in {n, n + 1}, NEW v, NEW w,
         w \subseteq v \cup (1..m \ 1..n),
         NEW p, NEW c, CallKnown(p, c, n, v)
  PROVE  CallKnown(p, c, m, w)
  BY DEF CallKnown, Given

(* Tokens that are issued are tokens, and none of them is None or Keep.    *)
LEMMA GivenTokens ==
  ASSUME NEW n \in 0..MaxTokens
  PROVE  Given(n) \subseteq MaybeToken /\ None \notin 1..n /\ Keep \notin 1..n
  BY SessionAssumption DEF Given, MaybeToken, Tokens

(* A call that is sent is known, if the token it carries is.               *)
LEMMA SentKnown ==
  ASSUME NEW n \in 0..MaxTokens, NEW v, NEW p, NEW token \in Given(n)
  PROVE  Sent(token) \in CallState /\ CallKnown(p, Sent(token), n, v)
  BY CallTypes, GivenTokens DEF Sent, CallKnown

(* Answers of Require are known, if what the call carried is.              *)
LEMMA RequireKnown ==
  ASSUME NEW p, NEW token \in Given(issued), issued \in 0..MaxTokens
  PROVE  Require(token) \in CallState /\ CallKnown(p, Require(token), issued, valid)
  <1>1. token \in MaybeToken /\ None \in MaybeToken
    BY GivenTokens DEF MaybeToken
  <1>2. CASE token = None
    BY <1>1, <1>2, CallTypes DEF Require, Answer, CallKnown, Given
  <1>3. CASE token # None /\ Verify(token)
    BY <1>1, <1>3, CallTypes DEF Require, Answer, CallKnown, Given
  <1>4. CASE token # None /\ ~Verify(token)
    <2>1. Require(token) = Answer("401", None, token)
      BY <1>4 DEF Require
    <2>2. token \in (1..issued) \ valid /\ None \in Given(issued)
      BY <1>4 DEF Given, Verify
    <2> QED
      BY <1>1, <2>1, <2>2, CallTypes DEF Answer, CallKnown
  <1> QED
    BY <1>2, <1>3, <1>4

(* One call is replaced by another that is known.                          *)
LEMMA Replaced ==
  ASSUME IInv, NEW t \in Tabs, NEW p \in Paths, NEW c \in CallState,
         call' = [call EXCEPT ![t][p] = c],
         issued' \in {issued, issued + 1},
         valid' \subseteq valid \cup (1..issued' \ 1..issued),
         c # None => CallKnown(p, c, issued', valid')
  PROVE  /\ call' \in [Tabs -> [Paths -> CallState]]
         /\ \A u \in Tabs, q \in Paths :
               call'[u][q] # None => CallKnown(q, call'[u][q], issued', valid')
  <1>1. /\ call' \in [Tabs -> [Paths -> CallState]]
        /\ \A u \in Tabs, q \in Paths :
              call'[u][q] = IF u = t /\ q = p THEN c ELSE call[u][q]
    BY DEF IInv, TypeOK
  <1>2. ASSUME NEW u \in Tabs, NEW q \in Paths, call[u][q] # None
        PROVE  CallKnown(q, call[u][q], issued', valid')
    <2>1. CallKnown(q, call[u][q], issued, valid) /\ issued \in Nat
      BY <1>2 DEF IInv, Knowledge, TypeOK
    <2> QED
      BY <2>1, StaysKnown
  <1> QED
    BY <1>1, <1>2

(* The calls of one tab are replaced, while nothing is issued.             *)
LEMMA TabReplaced ==
  ASSUME IInv, NEW t \in Tabs, NEW cs \in [Paths -> CallState],
         call' = [call EXCEPT ![t] = cs], UNCHANGED <<issued, valid>>,
         \A q \in Paths : cs[q] # None => CallKnown(q, cs[q], issued, valid)
  PROVE  /\ call' \in [Tabs -> [Paths -> CallState]]
         /\ \A u \in Tabs, q \in Paths :
               call'[u][q] # None => CallKnown(q, call'[u][q], issued', valid')
  <1>1. /\ call' \in [Tabs -> [Paths -> CallState]]
        /\ \A u \in Tabs : call'[u] = IF u = t THEN cs ELSE call[u]
    BY DEF IInv, TypeOK
  <1> QED
    BY <1>1 DEF IInv, Knowledge

-----------------------------------------------------------------------------
(***************************************************************************)
(* The invariant.                                                          *)
(***************************************************************************)

(* The tabs are loaded, and nobody has signed in.                          *)
LEMMA InitIInv == Init => IInv
  <1> SUFFICES ASSUME Init PROVE IInv
    OBVIOUS
  <1>1. 0 \in 0..MaxTokens /\ None \in Given(0)
    BY SessionAssumption DEF Given
  <1>2. Sent(None) \in CallState /\ \A p : CallKnown(p, Sent(None), 0, {})
    BY <1>1, SentKnown
  <1>3. Loaded(None) \in [Paths -> CallState]
    BY Zenon, <1>2, CallTypes DEF Loaded, NoCalls
  <1>4. TypeOK
    BY <1>1, <1>3 DEF Init, TypeOK, MaybeToken
  <1>5. Knowledge
    <2> SUFFICES ASSUME NEW t \in Tabs, NEW p \in Paths, call[t][p] # None
                 PROVE  CallKnown(p, call[t][p], issued, valid)
      BY <1>1 DEF Init, Knowledge
    <2>1. call[t][p] = Sent(None)
      BY DEF Init, Loaded, NoCalls
    <2> QED
      BY <1>2, <2>1 DEF Init
  <1> QED
    BY <1>4, <1>5 DEF IInv

(* The end of a call leaves calls that were there, and the first poll of   *)
(* the views, which carries the cookie.                                    *)
LEMMA EndsKnown ==
  ASSUME IInv, NEW t \in Tabs, NEW p \in Paths, NEW status, Ends(t, p, status)
  PROVE  IInv'
  <1> DEFINE rest == [call[t] EXCEPT ![p] = None]
             shown == Shown(t, p, status)
             cs == CASE shown # "app"                    -> [rest EXCEPT !["stats"] = None]
                     [] shown = "app" /\ page[t] # "app" -> [rest EXCEPT !["stats"] = Sent(cookie)]
                     [] OTHER                            -> rest
  <1>1. page' = [page EXCEPT ![t] = shown] /\ call' = [call EXCEPT ![t] = cs]
        /\ UNCHANGED <<issued, valid, cookie>>
    BY DEF Ends
  <1>2. shown \in {"boot", "form", "app"}
    BY DEF Shown, Paths, IInv, TypeOK
  <1>3. Sent(cookie) \in CallState /\ \A q : CallKnown(q, Sent(cookie), issued, valid)
    BY SentKnown DEF IInv, TypeOK, Knowledge
  <1>4. rest \in [Paths -> CallState]
        /\ \A q \in Paths : rest[q] # None => CallKnown(q, rest[q], issued, valid)
    BY CallTypes DEF IInv, TypeOK, Knowledge
  <1>5. cs \in [Paths -> CallState]
        /\ \A q \in Paths : cs[q] # None => CallKnown(q, cs[q], issued, valid)
    <2> HIDE DEF rest, shown
    <2>1. "stats" \in Paths
      BY DEF Paths
    <2>2. CASE shown # "app"
      BY <1>4, <2>1, <2>2, CallTypes
    <2>3. CASE shown = "app" /\ page[t] # "app"
      BY <1>3, <1>4, <2>1, <2>3
    <2>4. CASE shown = "app" /\ page[t] = "app"
      BY <1>4, <2>4
    <2> QED
      BY <2>2, <2>3, <2>4
  <1> HIDE DEF rest, shown, cs
  <1>6. /\ call' \in [Tabs -> [Paths -> CallState]]
        /\ \A u \in Tabs, q \in Paths :
              call'[u][q] # None => CallKnown(q, call'[u][q], issued', valid')
    BY Zenon, <1>1, <1>5, TabReplaced
  <1> QED
    BY <1>1, <1>2, <1>6 DEF IInv, TypeOK, Knowledge

(* A call is sent with the cookie of the moment, or with none.             *)
LEMMA SendKnown ==
  ASSUME IInv, NEW t \in Tabs, NEW p \in Paths, Send(t, p)
  PROVE  IInv'
  <1>0. PICK token \in Given(issued) :
          call' = [call EXCEPT ![t][p] = Sent(token)] /\ UNCHANGED <<issued, valid, cookie, page>>
    BY Zenon DEF Send, IInv, Knowledge, Given
  <1>1. Sent(token) \in CallState /\ CallKnown(p, Sent(token), issued, valid)
    BY SentKnown DEF IInv, TypeOK
  <1>2. call' = [call EXCEPT ![t][p] = Sent(token)] /\ UNCHANGED <<issued, valid, cookie, page>>
    BY <1>0
  <1>3. /\ call' \in [Tabs -> [Paths -> CallState]]
        /\ \A u \in Tabs, q \in Paths :
              call'[u][q] # None => CallKnown(q, call'[u][q], issued', valid')
    BY Zenon, <1>1, <1>2, Replaced
  <1> QED
    BY <1>2, <1>3 DEF IInv, TypeOK, Knowledge

(* Every step keeps the invariant.                                         *)
LEMMA NextIInv == IInv /\ [Next]_vars => IInv'
  <1> SUFFICES ASSUME IInv, [Next]_vars PROVE IInv'
    OBVIOUS
  <1> DEFINE Calls == /\ call' \in [Tabs -> [Paths -> CallState]]
                      /\ \A u \in Tabs, q \in Paths :
                            call'[u][q] # None => CallKnown(q, call'[u][q], issued', valid')
  <1>a. issued \in 0..MaxTokens /\ issued \in Nat /\ valid \subseteq 1..issued
        /\ cookie \in Given(issued) /\ None \in MaybeToken
    BY SessionAssumption DEF IInv, TypeOK, Knowledge, MaybeToken
  <1>b. ASSUME NEW t \in Tabs, NEW p \in Paths, call[t][p] # None
        PROVE  call[t][p] \in CallState /\ CallKnown(p, call[t][p], issued, valid)
    BY <1>b DEF IInv, TypeOK, Knowledge
  <1>1. CASE Expire
    <2>1. /\ valid' \subseteq valid /\ UNCHANGED <<issued, cookie, page, call>>
      BY <1>1 DEF Expire
    <2>2. ASSUME NEW t \in Tabs, NEW p \in Paths, call[t][p] # None
          PROVE  CallKnown(p, call[t][p], issued', valid')
      BY Zenon, <1>a, <1>b, <2>1, <2>2, StaysKnown
    <2> QED
      BY <2>1, <2>2 DEF IInv, TypeOK, Knowledge
  <1>2. CASE DropCookie
    BY <1>2 DEF DropCookie, IInv, TypeOK, Knowledge, MaybeToken, Given
  <1>3. ASSUME NEW t \in Tabs, HandleLogin(t) PROVE IInv'
    <2>1. "login" \in Paths
      BY DEF Paths
    <2>2. CASE UNCHANGED <<issued, valid>>
               /\ call' = [call EXCEPT ![t]["login"] = Answer("401", Keep, None)]
      <3>1. Answer("401", Keep, None) \in CallState
            /\ CallKnown("login", Answer("401", Keep, None), issued, valid)
        BY <1>a, CallTypes DEF CallKnown, Answer
      <3>2. Calls
        BY Zenon, <2>1, <2>2, <3>1, Replaced
      <3> QED
        BY <1>3, <2>2, <3>2 DEF HandleLogin, IInv, TypeOK, Knowledge
    <2>3. CASE /\ issued < MaxTokens
               /\ issued' = issued + 1 /\ valid' = valid \cup {issued'}
               /\ call' = [call EXCEPT ![t]["login"] = Answer("ok", issued', None)]
      <3>1. issued' \in Tokens /\ issued' \in 0..MaxTokens /\ issued' \in 1..issued'
        BY <1>a, <2>3, SessionAssumption DEF Tokens
      <3>2. Answer("ok", issued', None) \in CallState
            /\ CallKnown("login", Answer("ok", issued', None), issued', valid')
        BY <1>a, <3>1, CallTypes DEF CallKnown, Answer, Given, MaybeToken
      <3>3. valid' \subseteq valid \cup (1..issued' \ 1..issued)
        BY <1>a, <2>3
      <3>4. Calls
        BY Zenon, <2>1, <2>3, <3>2, <3>3, Replaced
      <3>5. valid' \subseteq 1..issued' /\ Given(issued) \subseteq Given(issued')
        BY <1>a, <2>3 DEF Given
      <3> QED
        BY <1>3, <3>1, <3>4, <3>5 DEF HandleLogin, IInv, TypeOK, Knowledge
    <2> QED
      BY <1>3, <2>2, <2>3 DEF HandleLogin
  <1>4. ASSUME NEW t \in Tabs, HandleLogout(t) PROVE IInv'
    <2>1. "logout" \in Paths /\ UNCHANGED <<issued, valid, cookie, page>>
          /\ call' = [call EXCEPT ![t]["logout"] = Answer("ok", None, None)]
      BY <1>4 DEF HandleLogout, Paths
    <2>2. Answer("ok", None, None) \in CallState
          /\ CallKnown("logout", Answer("ok", None, None), issued, valid)
      BY CallTypes DEF CallKnown, Answer, Given, MaybeToken
    <2>3. Calls
      BY Zenon, <2>1, <2>2, Replaced
    <2> QED
      BY <2>1, <2>3 DEF IInv, TypeOK, Knowledge
  <1>5. ASSUME NEW t \in Tabs, Poll(t) PROVE IInv'
    BY <1>5, SendKnown DEF Poll, Paths
  <1>6. ASSUME NEW t \in Tabs, Reload(t) PROVE IInv'
    <2>1. Sent(cookie) \in CallState /\ \A q : CallKnown(q, Sent(cookie), issued, valid)
      BY <1>a, SentKnown
    <2>2. Loaded(cookie) \in [Paths -> CallState]
          /\ \A q \in Paths : Loaded(cookie)[q] \in {None, Sent(cookie)}
      BY Zenon, <2>1, CallTypes DEF Loaded, NoCalls
    <2>3. call' = [call EXCEPT ![t] = Loaded(cookie)] /\ UNCHANGED <<issued, valid, cookie>>
          /\ page' = [page EXCEPT ![t] = "boot"]
      BY <1>6 DEF Reload
    <2>4. Calls
      BY Zenon, <2>1, <2>2, <2>3, TabReplaced
    <2> QED
      BY <2>3, <2>4 DEF IInv, TypeOK, Knowledge
  <1>7. ASSUME NEW t \in Tabs, NEW p \in Paths, HandleGuarded(t, p) PROVE IInv'
    <2> DEFINE token == call[t][p].token
    <2>1. call' = [call EXCEPT ![t][p] = Require(token)] /\ UNCHANGED <<issued, valid, cookie, page>>
      BY <1>7 DEF HandleGuarded, IInv, TypeOK
    <2>2. token \in Given(issued)
      BY <1>7, <1>b DEF HandleGuarded, Waiting, CallKnown
    <2>3. Require(token) \in CallState /\ CallKnown(p, Require(token), issued, valid)
      BY <1>a, <2>2, RequireKnown
    <2> HIDE DEF token
    <2>4. Calls
      BY Zenon, <2>1, <2>3, Replaced
    <2> QED
      BY <2>1, <2>4 DEF IInv, TypeOK, Knowledge
  <1>8. ASSUME NEW t \in Tabs, NEW p \in Paths, Receive(t, p) PROVE IInv'
    <2> DEFINE c == call[t][p]
    <2>1. c # None /\ c.at = "answered" /\ UNCHANGED <<issued, valid, page>>
          /\ cookie' = (IF c.set = Keep THEN cookie ELSE c.set)
          /\ call' = [call EXCEPT ![t][p] = Received(c.status)]
      BY <1>8 DEF Receive, IInv, TypeOK
    <2>2. c.status \in {"ok", "401"} /\ c.set \in Given(issued) \cup {Keep}
      BY <1>b, <2>1, CallParts DEF CallKnown
    <2> HIDE DEF c
    <2>3. Received(c.status) \in CallState /\ CallKnown(p, Received(c.status), issued, valid)
      BY <2>2, CallTypes DEF Received, CallKnown
    <2>4. Calls
      BY <2>1, <2>3, Replaced
    <2>5. cookie' \in Given(issued) /\ Given(issued) \subseteq MaybeToken
      BY <1>a, <2>1, <2>2, GivenTokens
    <2> QED
      BY <2>1, <2>4, <2>5 DEF IInv, TypeOK, Knowledge
  <1>9. ASSUME NEW t \in Tabs, NEW p \in Paths, Continue(t, p) PROVE IInv'
    BY <1>9, EndsKnown DEF Continue
  <1>10. ASSUME NEW t \in Tabs, NEW p \in Paths, Lose(t, p) PROVE IInv'
    BY <1>10, EndsKnown DEF Lose
  <1>11. ASSUME NEW t \in Tabs, NEW p \in Paths, Use(t, p) PROVE IInv'
    BY <1>11, SendKnown DEF Use
  <1>12. CASE UNCHANGED vars
    BY <1>12 DEF vars, IInv, TypeOK, Knowledge
  <1> QED
    BY <1>1, <1>2, <1>3, <1>4, <1>5, <1>6, <1>7, <1>8, <1>9, <1>10, <1>11, <1>12 DEF Next

(* The invariant holds of every behaviour.                                 *)
THEOREM SessionInvariant == Spec => []IInv
  BY InitIInv, NextIInv, PTL DEF Spec

-----------------------------------------------------------------------------
(* A step that takes the cookie of a good session is the arrival of an     *)
(* answer: the browser itself only drops the cookie of an expired one.     *)
(* The answer to a guarded call that clears the cookie was made for a      *)
(* token that is not good, so neither for this session nor for none.       *)
LEMMA StepKeepsSession ==
  ASSUME IInv, [Next]_vars, cookie' # cookie, cookie \in valid
  PROVE  \E t \in Tabs, p \in Paths :
            /\ Receive(t, p)
            /\ \/ p \in {"login", "logout"}
               \/ call[t][p].token \notin {None, cookie} \cup valid
  <1>1. PICK t \in Tabs, p \in Paths : Receive(t, p)
    BY DEF Next, vars, Expire, DropCookie, Verify, HandleLogin, HandleLogout, Poll, Reload,
           HandleGuarded, Continue, Lose, Ends, Use, Send
  <1>2. CASE p \notin {"login", "logout"}
    <2>1. call[t][p] # None /\ call[t][p].at = "answered" /\ call[t][p].set # Keep
      BY <1>1 DEF Receive
    <2>2. call[t][p].token \in (1..issued) \ valid
      BY <1>2, <2>1 DEF IInv, Knowledge, CallKnown
    <2>3. None \notin 1..issued
      BY GivenTokens DEF IInv, TypeOK
    <2> QED
      BY <1>1, <2>2, <2>3
  <1> QED
    BY <1>1, <1>2

(* The cookie of a good session is only lost to a sign-out, to another     *)
(* sign-in, or to the late answer to a call that carried another token,    *)
(* one that was no longer good (Require): for any number of tabs, tokens   *)
(* and calls under way.                                                    *)
THEOREM SessionsAreKept == Spec => SessionIsKept
  <1>1. IInv /\ [Next]_vars =>
          [cookie' # cookie /\ cookie \in valid =>
             \E t \in Tabs, p \in Paths :
                /\ Receive(t, p)
                /\ \/ p \in {"login", "logout"}
                   \/ call[t][p].token \notin {None, cookie} \cup valid]_vars
    BY StepKeepsSession
  <1> QED
    BY <1>1, SessionInvariant, PTL DEF Spec, SessionIsKept

-----------------------------------------------------------------------------
(***************************************************************************)
(* The audit view: ranks and pages.                                        *)
(***************************************************************************)

(* The rank of an entry is the number of rows above it.                    *)
LEMMA RankCounts == \A rows, s : Rank(rows, s) = Cardinality({r \in rows : r > s})
  BY DEF Rank

(* There are finitely many rows.                                           *)
LEMMA RowsFinite ==
  ASSUME NEW n \in Nat, NEW rows \in SUBSET (1..n)
  PROVE  IsFiniteSet(rows) /\ Cardinality(rows) \in Nat /\ rows \subseteq Nat
  <1>1. 1 \in Int /\ n \in Int
    OBVIOUS
  <1>2. IsFiniteSet(1..n)
    BY <1>1, FS_Interval
  <1>3. IsFiniteSet(rows)
    BY Zenon, <1>2, FS_Subset
  <1>4. rows \subseteq Nat
    OBVIOUS
  <1> QED
    BY <1>3, <1>4, FS_CardinalityType

(* The entries before one of n rows are fewer than the rows.               *)
LEMMA RankBound ==
  ASSUME NEW n \in Nat, NEW rows \in SUBSET (1..n), NEW s \in rows
  PROVE  /\ IsFiniteSet(rows) /\ Cardinality(rows) \in Nat
         /\ Rank(rows, s) \in 0..(Cardinality(rows) - 1)
  <1> DEFINE above == {r \in rows : r > s}
  <1>1. IsFiniteSet(rows) /\ Cardinality(rows) \in Nat
    BY RowsFinite
  <1>2. above \in SUBSET rows /\ s \notin above
    OBVIOUS
  <1>3. /\ IsFiniteSet(above) /\ Cardinality(above) \in Nat
        /\ Cardinality(above) <= Cardinality(rows)
        /\ Cardinality(above) # Cardinality(rows)
    BY <1>1, <1>2, FS_Subset, FS_CardinalityType
  <1> HIDE DEF above
  <1>4. Cardinality(above) \in 0..(Cardinality(rows) - 1)
    BY <1>1, <1>3
  <1> QED
    BY <1>1, <1>4, RankCounts DEF above

(* Entries differ in rank.                                                 *)
LEMMA RankOrder ==
  ASSUME NEW n \in Nat, NEW rows \in SUBSET (1..n), NEW s \in rows, NEW t \in rows, s < t
  PROVE  Rank(rows, s) > Rank(rows, t)
  <1> DEFINE above(x) == {r \in rows : r > x}
  <1>1. IsFiniteSet(rows) /\ rows \subseteq Nat
    BY Zenon, RowsFinite
  <1>2. above(t) \in SUBSET above(s) /\ t \in above(s) /\ t \notin above(t)
        /\ above(s) \in SUBSET rows
    <2>1. s \in Nat /\ t \in Nat /\ \A r \in rows : r \in Nat
      BY <1>1
    <2>2. \A r \in rows : r > t => r > s
      BY <2>1
    <2>3. t > s /\ ~(t > t)
      BY <2>1
    <2> QED
      BY <2>2, <2>3
  <1> HIDE DEF above
  <1>3. IsFiniteSet(above(s))
    BY <1>1, <1>2, FS_Subset
  <1>4. /\ IsFiniteSet(above(t))
        /\ Cardinality(above(t)) <= Cardinality(above(s))
        /\ Cardinality(above(s)) # Cardinality(above(t))
    BY <1>2, <1>3, FS_Subset
  <1>5. Cardinality(above(s)) \in Nat /\ Cardinality(above(t)) \in Nat
    BY <1>3, <1>4, FS_CardinalityType
  <1>6. Cardinality(above(s)) > Cardinality(above(t))
    BY <1>4, <1>5
  <1> QED
    BY <1>6, RankCounts DEF above

(* Every rank below the number of rows is taken by one of them.            *)
LEMMA RankTaken ==
  ASSUME NEW n \in Nat, NEW rows \in SUBSET (1..n), NEW k \in 0..(Cardinality(rows) - 1)
  PROVE  \E s \in rows : Rank(rows, s) = k
  <1> DEFINE f == [s \in rows |-> Rank(rows, s)]
             T == 0..(Cardinality(rows) - 1)
  <1>1. Cardinality(rows) \in Nat
    BY Zenon, RowsFinite
  <1>2. IsFiniteSet(T) /\ Cardinality(T) = Cardinality(rows)
    BY <1>1, FS_Interval
  <1>3. f \in [rows -> T]
    BY RankBound
  <1>4. ASSUME NEW s \in rows, NEW t \in rows, s # t PROVE f[s] # f[t]
    <2>1. s \in Nat /\ t \in Nat
      BY RowsFinite
    <2>2. s < t \/ t < s
      BY <1>4, <2>1
    <2>3. Rank(rows, s) > Rank(rows, t) \/ Rank(rows, t) > Rank(rows, s)
      BY Zenon, <2>2, RankOrder
    <2>4. Rank(rows, s) \in T /\ Rank(rows, t) \in T
      BY RankBound
    <2>5. Rank(rows, s) # Rank(rows, t)
      BY <1>1, <2>3, <2>4
    <2> QED
      BY <2>5
  <1>5. f \in Injection(rows, T)
    BY <1>3, <1>4 DEF Injection, IsInjective
  <1> HIDE DEF f, T
  <1>6. f \in Surjection(rows, T)
    BY <1>2, <1>5, FS_Injection
  <1>7. \A t \in T : \E s \in rows : f[s] = t
    BY <1>6 DEF Surjection
  <1> QED
    BY <1>7 DEF f, T

(* Of more rows no rank is smaller.                                        *)
LEMMA RankGrows ==
  ASSUME NEW n \in Nat, NEW more \in SUBSET (1..n), NEW rows \in SUBSET more, NEW s \in rows
  PROVE  Rank(rows, s) <= Rank(more, s)
  <1>1. IsFiniteSet(more)
    BY Zenon, RowsFinite
  <1>2. IsFiniteSet({r \in more : r > s})
    BY <1>1, FS_Subset
  <1>3. Cardinality({r \in rows : r > s}) <= Cardinality({r \in more : r > s})
    BY <1>2, FS_Subset
  <1> QED
    BY <1>3, RankCounts

(* What a page holds: entries of the log, no more than the view asks for,  *)
(* every one whose rank is on the page; and it is only empty if nothing    *)
(* matches or the page is beyond the end.                                  *)
LEMMA PageHolds ==
  ASSUME NEW n \in Nat, NEW rows \in SUBSET (1..n), NEW o \in Nat
  PROVE  LET p == Page(rows, o)
         IN  /\ p \in Seq(rows) /\ Len(p) <= PageSize
             /\ \A s \in rows : /\ o <= Rank(rows, s)
                                /\ Rank(rows, s) < o + PageSize
                                => \E i \in 1..Len(p) : p[i] = s
             /\ p = <<>> /\ (o = 0 \/ o < Cardinality(rows)) => rows = {}
  <1> DEFINE on == {s \in rows : Rank(rows, s) >= o /\ Rank(rows, s) < o + PageSize}
             k == Cardinality(on)
             p == [i \in 1..k |-> CHOOSE s \in on : Rank(on, s) = i - 1]
  <1>1. PageSize \in Nat \ {0} /\ Normalized(PageSize) = PageSize
    BY ViewAssumption DEF Normalized
  <1>2. Page(rows, o) = p
    BY <1>1 DEF Page
  <1>3. on \in SUBSET rows /\ on \in SUBSET (1..n)
    BY Zenon
  <1>4. IsFiniteSet(rows) /\ IsFiniteSet(on) /\ k \in Nat /\ Cardinality(rows) \in Nat
    BY <1>3, RowsFinite
  <1>5. \A s \in on : Rank(rows, s) \in o..(o + PageSize - 1)
    <2> SUFFICES ASSUME NEW s \in on PROVE Rank(rows, s) \in o..(o + PageSize - 1)
      OBVIOUS
    <2>1. Rank(rows, s) \in 0..(Cardinality(rows) - 1)
      BY Zenon, RankBound
    <2> QED
      BY <1>1, <1>4, <2>1
  <1>6. k <= PageSize
    <2> DEFINE f == [s \in on |-> Rank(rows, s)]
               T == o..(o + PageSize - 1)
    <2>1. IsFiniteSet(T) /\ Cardinality(T) = PageSize
      BY <1>1, FS_Interval
    <2>2. ASSUME NEW s \in on, NEW t \in on, s # t PROVE f[s] # f[t]
      <3>1. s \in Nat /\ t \in Nat /\ s \in rows /\ t \in rows
        BY RowsFinite
      <3>2. s < t \/ t < s
        BY <2>2, <3>1
      <3>3. Rank(rows, s) > Rank(rows, t) \/ Rank(rows, t) > Rank(rows, s)
        BY <3>1, <3>2, RankOrder
      <3>4. Rank(rows, s) \in T /\ Rank(rows, t) \in T
        BY <1>5
      <3> HIDE DEF on
      <3> QED
        BY <1>1, <3>3, <3>4
    <2> HIDE DEF on
    <2>3. f \in [on -> T]
      BY <1>5
    <2>4. f \in Injection(on, T)
      BY <2>2, <2>3 DEF Injection, IsInjective
    <2> HIDE DEF f, T
    <2> QED
      BY <2>1, <2>4, FS_Injection
  <1>7. \A i \in 1..k : p[i] \in on /\ Rank(on, p[i]) = i - 1
    <2> SUFFICES ASSUME NEW i \in 1..k PROVE p[i] \in on /\ Rank(on, p[i]) = i - 1
      OBVIOUS
    <2> HIDE DEF on
    <2>1. i - 1 \in 0..(k - 1)
      BY <1>4
    <2>2. \E s \in on : Rank(on, s) = i - 1
      BY Zenon, <1>3, <2>1, RankTaken
    <2> QED
      BY <2>2
  <1>8. \A s \in on : \E i \in 1..k : p[i] = s
    <2> SUFFICES ASSUME NEW s \in on PROVE \E i \in 1..k : p[i] = s
      OBVIOUS
    <2> HIDE DEF on
    <2>1. Rank(on, s) \in 0..(k - 1)
      BY Zenon, <1>3, RankBound
    <2> DEFINE i == Rank(on, s) + 1
    <2>2. i \in 1..k /\ i - 1 = Rank(on, s)
      BY <1>4, <2>1
    <2>3. p[i] \in on /\ Rank(on, p[i]) = Rank(on, s)
      BY <1>7, <2>2
    <2> HIDE DEF i, p
    <2>4. p[i] \in Nat /\ s \in Nat
      BY Zenon, <1>3, <2>3, RowsFinite
    <2>5. ~(p[i] < s) /\ ~(s < p[i])
      <3>1. Rank(on, s) \in Int /\ ~(Rank(on, s) > Rank(on, s))
        BY <1>4, <2>1
      <3>2. p[i] < s => Rank(on, p[i]) > Rank(on, s)
        BY Zenon, <1>3, <2>3, RankOrder
      <3>3. s < p[i] => Rank(on, s) > Rank(on, p[i])
        BY <1>3, <2>3, RankOrder
      <3> QED
        BY <2>3, <3>1, <3>2, <3>3
    <2>6. p[i] = s
      BY <2>4, <2>5
    <2> QED
      BY <2>2, <2>6
  <1>9. p \in Seq(rows) /\ Len(p) = k
    <2>1. \A i \in 1..k : p[i] \in rows
      BY Zenon, <1>3, <1>7
    <2> HIDE DEF on
    <2>2. p = [i \in 1..k |-> p[i]]
      OBVIOUS
    <2> QED
      BY <1>4, <2>1, <2>2
  <1>10. ASSUME p = <<>>, o = 0 \/ o < Cardinality(rows), rows # {} PROVE FALSE
    <2>1. k = 0
      BY <1>9, <1>10
    <2>2. on = {}
      BY <1>4, <2>1, FS_EmptySet
    <2>3. Cardinality(rows) # 0
      BY <1>4, <1>10, FS_EmptySet
    <2>4. o \in 0..(Cardinality(rows) - 1)
      BY <1>4, <1>10, <2>3
    <2>5. PICK s \in rows : Rank(rows, s) = o
      BY Zenon, <2>4, RankTaken
    <2>6. s \in on
      BY <1>1, <2>5
    <2> QED
      BY <2>2, <2>6
  <1>11. \A s \in rows : o <= Rank(rows, s) /\ Rank(rows, s) < o + PageSize
            => \E i \in 1..Len(p) : p[i] = s
    <2> SUFFICES ASSUME NEW s \in rows, o <= Rank(rows, s),
                        Rank(rows, s) < o + PageSize
                 PROVE  s \in on
      BY Zenon, <1>8, <1>9
    <2>1. Rank(rows, s) \in 0..(Cardinality(rows) - 1)
      BY Zenon, RankBound
    <2> QED
      BY <1>4, <2>1
  <1> HIDE DEF p, k, on
  <1> QED
    BY <1>2, <1>6, <1>9, <1>10, <1>11

-----------------------------------------------------------------------------
(***************************************************************************)
(* The invariant of the audit view.                                        *)
(***************************************************************************)

(* What filterClause selects of the first n entries of lg.                 *)
Rows(f, n, lg) ==
    {s \in 1..n : f.kind \in {Any, lg[s].kind} /\ f.ip \in {Any, lg[s].ip}}

(* A page of the selection is not beyond the end.                          *)
InReach(o, f, n, lg) == o = 0 \/ o < Cardinality(Rows(f, n, lg))

(* A sweep has read every match of its beginning that is, among the first  *)
(* n entries, not behind the last page it has reached: appends push what   *)
(* was not read yet further back, never forward.                           *)
Covered(sw, n, lg) == \A s \in Rows(sw.filter, sw.asOf, lg) :
    Rank(Rows(sw.filter, n, lg), s) < sw.reached + PageSize => s \in sw.read

(* A load under way is for what is selected, f and o.  Its page is that of *)
(* the log as of its List, which came after whatever the sweep has read.   *)
LoadGood(l, f, o, sw, h, lg) ==
    /\ l.filter = f /\ l.offset = o
    /\ l.state \in {"listed", "answered"} =>
         /\ sw.asOf <= l.asOf /\ l.asOf <= Len(lg)
         /\ l.entries = Page(Rows(f, l.asOf, lg), o)
         /\ Covered(sw, l.asOf, lg)
         /\ ~h => InReach(o, f, l.asOf, lg)
    /\ l.state = "answered" =>
         \E n \in l.asOf..Len(lg) : l.total = Cardinality(Rows(f, n, lg))

(* What is on screen is an answer for a moment of the log.                 *)
ShownGood(d, f, o, sw, h, fresh, lg) ==
    /\ d.asOf <= Len(lg)
    /\ d.total <= Cardinality(Rows(d.filter, Len(lg), lg))
    /\ fresh =>
         /\ d.filter = f /\ d.offset = o
         /\ d.entries = <<>> /\ (~h \/ o = 0) => Rows(f, d.asOf, lg) = {}
    /\ d.filter = sw.filter /\ d.offset = sw.reached /\ d.offset + PageSize >= d.total
         => Rows(sw.filter, sw.asOf, lg) \subseteq sw.read

(* Only the last load is under way.  The page is a whole number of pages   *)
(* away from the first; unless it was turned in haste it is in reach, and  *)
(* no address is about to settle under it.                                 *)
ViewInv ==
    /\ ViewTypeOK /\ Len(log) <= MaxLog
    /\ \A c \in 1..Len(loads) : loads[c].state # "ended" =>
         c = Len(loads) /\ LoadGood(loads[c], filter, offset, sweep, hasty, log)
    /\ \E k \in Nat : offset = k * PageSize
    /\ ~hasty => /\ InReach(offset, filter, Len(log), log)
                 /\ offset = 0 \/ typed = filter.ip
    /\ sweep.asOf <= Len(log) /\ Covered(sweep, Len(log), log)
    /\ ~loading /\ ~error => data # <<>>
    /\ data # <<>> =>
         ShownGood(data[1], filter, offset, sweep, hasty, ~loading /\ ~error, log)

-----------------------------------------------------------------------------
(* The selection of the first n entries is among them, ...                 *)
LEMMA RowsAmong == \A f, lg : \A n \in Nat : Rows(f, n, lg) \in SUBSET (1..n)
  BY DEF Rows

(* ... that of more entries contains it, ...                               *)
LEMMA RowsMore ==
  ASSUME NEW f, NEW lg, NEW n \in Nat, NEW m \in Nat, n <= m
  PROVE  /\ Rows(f, n, lg) \in SUBSET Rows(f, m, lg)
         /\ Cardinality(Rows(f, n, lg)) <= Cardinality(Rows(f, m, lg))
         /\ Cardinality(Rows(f, n, lg)) \in Nat /\ Cardinality(Rows(f, m, lg)) \in Nat
  <1>1. Rows(f, n, lg) \in SUBSET Rows(f, m, lg)
    BY DEF Rows
  <1>2. Rows(f, n, lg) \in SUBSET (1..n) /\ Rows(f, m, lg) \in SUBSET (1..m)
    BY RowsAmong
  <1>3. IsFiniteSet(Rows(f, m, lg)) /\ Cardinality(Rows(f, m, lg)) \in Nat
        /\ Cardinality(Rows(f, n, lg)) \in Nat
    BY <1>2, RowsFinite
  <1> QED
    BY <1>1, <1>3, FS_Subset

(* ... and it stays as it is when one is appended.                         *)
LEMMA RowsKept ==
  ASSUME NEW E, NEW lg \in Seq(E), NEW e \in E, NEW f, NEW n \in 0..Len(lg)
  PROVE  Rows(f, n, Append(lg, e)) = Rows(f, n, lg)
  <1>1. \A s \in 1..n : Append(lg, e)[s] = lg[s]
    OBVIOUS
  <1> QED
    BY <1>1 DEF Rows

(* Matching is the selection of the log.                                   *)
LEMMA MatchingRows == \A f, n : Matching(f, n) = Rows(f, n, log)
  BY DEF Matching, Rows

(* Ranks grow with the log, so what a sweep has covered it still covers.   *)
LEMMA CoveredLater ==
  ASSUME NEW sw, NEW lg, sw.reached \in Int, sw.asOf \in Nat, PageSize \in Nat,
         NEW n \in Nat, NEW m \in Nat, sw.asOf <= n, n <= m, Covered(sw, n, lg)
  PROVE  Covered(sw, m, lg)
  <1> DEFINE first == Rows(sw.filter, sw.asOf, lg)
             small == Rows(sw.filter, n, lg)
             large == Rows(sw.filter, m, lg)
  <1> SUFFICES ASSUME NEW s \in first, Rank(large, s) < sw.reached + PageSize
               PROVE  s \in sw.read
    BY DEF Covered
  <1>1. s \in small /\ small \in SUBSET large
    BY RowsMore
  <1>2. small \in SUBSET (1..n) /\ large \in SUBSET (1..m) /\ s \in large
    BY <1>1, RowsAmong
  <1> HIDE DEF first, small, large
  <1>3. Rank(small, s) <= Rank(large, s)
    BY Zenon, <1>1, <1>2, RankGrows
  <1>4. Rank(small, s) \in Int /\ Rank(large, s) \in Int
    <2>1. Rank(small, s) \in 0..(Cardinality(small) - 1)
      BY Zenon, <1>1, <1>2, RankBound
    <2>2. Rank(large, s) \in 0..(Cardinality(large) - 1)
      BY Zenon, <1>2, RankBound
    <2>3. Cardinality(small) \in Nat /\ Cardinality(large) \in Nat
      BY <1>2, RowsFinite
    <2> QED
      BY <2>1, <2>2, <2>3
  <1>5. Rank(small, s) < sw.reached + PageSize
    BY <1>3, <1>4
  <1> QED
    BY <1>5 DEF Covered, first, small

(* An append leaves what was covered covered, ...                          *)
LEMMA CoveredKept ==
  ASSUME NEW E, NEW lg \in Seq(E), NEW e \in E, NEW sw, NEW n \in 0..Len(lg),
         sw.asOf \in 0..Len(lg)
  PROVE  Covered(sw, n, Append(lg, e)) <=> Covered(sw, n, lg)
  BY RowsKept DEF Covered

(* ... a load under way good, ...                                          *)
LEMMA LoadGoodKept ==
  ASSUME NEW E, NEW lg \in Seq(E), NEW e \in E, NEW l, NEW f, NEW o, NEW sw, NEW h,
         l.asOf \in Nat, sw.asOf \in Nat, LoadGood(l, f, o, sw, h, lg)
  PROVE  LoadGood(l, f, o, sw, h, Append(lg, e))
  <1> DEFINE more == Append(lg, e)
  <1>1. Len(lg) \in Nat /\ Len(more) = Len(lg) + 1
    OBVIOUS
  <1>2. CASE l.state \in {"listed", "answered"}
    <2>1. l.asOf \in 0..Len(lg) /\ sw.asOf \in 0..Len(lg) /\ l.asOf <= Len(more)
      BY <1>1, <1>2 DEF LoadGood
    <2>2. Rows(f, l.asOf, more) = Rows(f, l.asOf, lg)
      BY <2>1, RowsKept
    <2>3. Covered(sw, l.asOf, more)
      BY <1>2, <2>1, CoveredKept DEF LoadGood
    <2>4. l.state = "answered" =>
            \E n \in l.asOf..Len(more) : l.total = Cardinality(Rows(f, n, more))
      <3> SUFFICES ASSUME l.state = "answered"
                   PROVE  \E n \in l.asOf..Len(more) : l.total = Cardinality(Rows(f, n, more))
        OBVIOUS
      <3>1. PICK n \in l.asOf..Len(lg) : l.total = Cardinality(Rows(f, n, lg))
        BY DEF LoadGood
      <3>2. n \in 0..Len(lg) /\ n \in l.asOf..Len(more)
        BY <1>1, <2>1
      <3>3. Rows(f, n, more) = Rows(f, n, lg)
        BY <3>2, RowsKept
      <3> QED
        BY <3>1, <3>2, <3>3
    <2> HIDE DEF more
    <2> QED
      BY <2>1, <2>2, <2>3, <2>4 DEF LoadGood, InReach, more
  <1>3. CASE l.state \notin {"listed", "answered"}
    BY <1>3 DEF LoadGood
  <1> QED
    BY <1>2, <1>3

(* ... and what is on screen an answer for a moment of the log.            *)
LEMMA ShownGoodKept ==
  ASSUME NEW E, NEW lg \in Seq(E), NEW e \in E, NEW d, NEW f, NEW o, NEW sw, NEW h, NEW fresh,
         d.asOf \in Nat, d.total \in Nat, sw.asOf \in 0..Len(lg),
         ShownGood(d, f, o, sw, h, fresh, lg)
  PROVE  ShownGood(d, f, o, sw, h, fresh, Append(lg, e))
  <1> DEFINE more == Append(lg, e)
             n == Len(lg)
  <1>1. n \in Nat /\ Len(more) = n + 1 /\ n + 1 \in Nat /\ n <= n + 1 /\ d.asOf \in 0..n
        /\ n \in 0..n /\ d.asOf <= Len(more)
    BY DEF ShownGood
  <1>2. /\ Rows(f, d.asOf, more) = Rows(f, d.asOf, lg)
        /\ Rows(sw.filter, sw.asOf, more) = Rows(sw.filter, sw.asOf, lg)
        /\ Rows(d.filter, n, more) = Rows(d.filter, n, lg)
    BY <1>1, RowsKept
  <1>3. d.total <= Cardinality(Rows(d.filter, n + 1, more))
    <2>1. /\ Cardinality(Rows(d.filter, n, more)) <= Cardinality(Rows(d.filter, n + 1, more))
          /\ Cardinality(Rows(d.filter, n, more)) \in Nat
          /\ Cardinality(Rows(d.filter, n + 1, more)) \in Nat
      BY <1>1, RowsMore
    <2>2. d.total <= Cardinality(Rows(d.filter, n, more))
      BY <1>2 DEF ShownGood
    <2> QED
      BY <2>1, <2>2
  <1> HIDE DEF more
  <1> QED
    BY <1>1, <1>2, <1>3 DEF ShownGood, more

-----------------------------------------------------------------------------
(***************************************************************************)
(* The steps of the audit view.                                            *)
(***************************************************************************)

(* The types of the variables.                                             *)
LEMMA ViewTypes ==
  ASSUME ViewInv
  PROVE  /\ log \in Seq(Entry) /\ Len(log) \in Nat /\ Len(log) <= MaxLog
         /\ filter \in Filter /\ typed \in IPs \cup {Any} /\ offset \in Nat
         /\ loading \in BOOLEAN /\ error \in BOOLEAN /\ hasty \in BOOLEAN
         /\ loads \in Seq(Load) /\ data \in Seq(Load) /\ Len(data) <= 1
         /\ \A i \in 1..Len(loads) : Len(loads[i].entries) <= PageSize
         /\ sweep \in [filter : Filter, reached : Int, asOf : Nat, read : SUBSET Seqs]
         /\ sweep.asOf \in Nat /\ sweep.reached \in Int
  <1>1. ViewTypeOK /\ Len(log) <= MaxLog
    BY Zenon DEF ViewInv
  <1>2. /\ log \in Seq(Entry)
        /\ filter \in Filter /\ typed \in IPs \cup {Any} /\ offset \in Nat
        /\ loading \in BOOLEAN /\ error \in BOOLEAN /\ hasty \in BOOLEAN
        /\ loads \in Seq(Load) /\ data \in Seq(Load) /\ Len(data) <= 1
        /\ \A i \in 1..Len(loads) : Len(loads[i].entries) <= PageSize
        /\ sweep \in [filter : Filter, reached : Int, asOf : Nat, read : SUBSET Seqs]
    BY <1>1, Zenon DEF ViewTypeOK
  <1>3. Len(log) \in Nat
    BY <1>2
  <1>4. sweep.asOf \in Nat /\ sweep.reached \in Int
    BY <1>2
  <1> QED
    BY <1>1, <1>2, <1>3, <1>4, Zenon

(* What is on screen is a load that was answered.                          *)
LEMMA ShownLoad ==
  ASSUME ViewInv, data # <<>>
  PROVE  data[1] \in Load /\ data[1].asOf \in Nat /\ data[1].total \in Nat
  <1>1. data[1] \in Load
    BY ViewTypes
  <1> QED
    BY <1>1 DEF Load

(* The parts of a load.                                                    *)
LEMMA LoadParts ==
  ASSUME ViewInv, NEW c \in 1..Len(loads)
  PROVE  /\ loads[c] \in Load /\ Len(loads[c].entries) <= PageSize
         /\ loads[c].asOf \in Nat /\ loads[c].total \in Nat /\ loads[c].offset \in Nat
         /\ loads[c].filter \in Filter /\ loads[c].entries \in Seq(Seqs)
  <1>1. loads \in Seq(Load) /\ Len(loads[c].entries) <= PageSize
    BY ViewTypes
  <1>2. loads[c] \in Load
    BY <1>1
  <1> QED
    BY <1>1, <1>2 DEF Load

(* The log grows.                                                          *)
LEMMA GrowKeeps ==
  ASSUME ViewInv, NEW e \in Entry, Grow(e)
  PROVE  ViewInv'
  <1>1. /\ log' = Append(log, e) /\ Len(log) < MaxLog
        /\ UNCHANGED <<filter, typed, offset, loading, data, error, hasty, sweep, loads>>
    BY DEF Grow, view
  <1>2. /\ log \in Seq(Entry) /\ Len(log) \in Nat /\ MaxLog \in Nat
        /\ sweep.asOf \in Nat /\ sweep.reached \in Int /\ PageSize \in Nat
        /\ sweep.asOf \in 0..Len(log) /\ Covered(sweep, Len(log), log)
    <2>1. MaxLog \in Nat /\ PageSize \in Nat
      BY ViewAssumption
    <2>2. sweep.asOf <= Len(log) /\ Covered(sweep, Len(log), log)
      BY Zenon DEF ViewInv
    <2> QED
      BY <2>1, <2>2, ViewTypes
  <1>3. log' \in Seq(Entry) /\ Len(log') = Len(log) + 1 /\ Len(log') <= MaxLog
        /\ Len(log) \in 0..Len(log) /\ Len(log') \in Nat /\ Len(log) <= Len(log')
        /\ sweep.asOf <= Len(log')
    BY <1>1, <1>2
  <1>4. ViewTypeOK'
    BY <1>1, <1>3 DEF ViewInv, ViewTypeOK
  <1>5. Covered(sweep, Len(log'), log')
    <2>1. Covered(sweep, Len(log), log')
      BY <1>1, <1>2, <1>3, CoveredKept
    <2> QED
      BY <1>2, <1>3, <2>1, CoveredLater
  <1>6. ASSUME NEW c \in 1..Len(loads), loads[c].state # "ended"
        PROVE  c = Len(loads) /\ LoadGood(loads[c], filter, offset, sweep, hasty, log')
    <2>1. c = Len(loads) /\ LoadGood(loads[c], filter, offset, sweep, hasty, log)
      BY <1>6 DEF ViewInv
    <2>2. loads[c].asOf \in Nat
      BY LoadParts
    <2> QED
      BY <1>1, <1>2, <2>1, <2>2, LoadGoodKept
  <1>7. InReach(offset, filter, Len(log), log) => InReach(offset, filter, Len(log'), log')
    <2>1. Rows(filter, Len(log), log') = Rows(filter, Len(log), log)
      BY <1>1, <1>2, <1>3, RowsKept
    <2>2. /\ Cardinality(Rows(filter, Len(log), log')) <= Cardinality(Rows(filter, Len(log'), log'))
          /\ Cardinality(Rows(filter, Len(log), log')) \in Nat
          /\ Cardinality(Rows(filter, Len(log'), log')) \in Nat
      BY <1>2, <1>3, RowsMore
    <2>3. offset \in Nat
      BY ViewTypes
    <2> QED
      BY <2>1, <2>2, <2>3 DEF InReach
  <1>8. ASSUME data # <<>>
        PROVE  ShownGood(data[1], filter, offset, sweep, hasty, ~loading /\ ~error, log')
    <2>1. ShownGood(data[1], filter, offset, sweep, hasty, ~loading /\ ~error, log)
      BY <1>8 DEF ViewInv
    <2>2. data[1].asOf \in Nat /\ data[1].total \in Nat
      BY <1>8, ShownLoad
    <2> QED
      BY <1>1, <1>2, <2>1, <2>2, ShownGoodKept
  <1> QED
    BY <1>1, <1>3, <1>4, <1>5, <1>6, <1>7, <1>8 DEF ViewInv

(* One load is replaced.                                                   *)
LEMMA LoadReplaced ==
  ASSUME ViewInv, NEW c \in 1..Len(loads), NEW l \in Load, Len(l.entries) <= PageSize,
         loads' = [loads EXCEPT ![c] = l]
  PROVE  /\ loads' \in Seq(Load) /\ Len(loads') = Len(loads)
         /\ \A i \in 1..Len(loads') : Len(loads'[i].entries) <= PageSize
         /\ \A i \in 1..Len(loads') : loads'[i] = IF i = c THEN l ELSE loads[i]
  BY ViewTypes

(* An answer progresses: the load under way is replaced by one that is     *)
(* good, and nothing else changes.                                         *)
LEMMA AnswerKeeps ==
  ASSUME ViewInv, NEW c \in 1..Len(loads), NEW l \in Load, Len(l.entries) <= PageSize,
         loads[c].state # "ended", LoadGood(l, filter, offset, sweep, hasty, log),
         loads' = [loads EXCEPT ![c] = l], UNCHANGED <<log, view>>
  PROVE  ViewInv'
  <1>1. UNCHANGED <<log, filter, typed, offset, loading, data, error, hasty, sweep>>
    BY DEF view
  <1>2. /\ loads' \in Seq(Load) /\ Len(loads') = Len(loads)
        /\ \A i \in 1..Len(loads') : Len(loads'[i].entries) <= PageSize
        /\ \A i \in 1..Len(loads') : loads'[i] = IF i = c THEN l ELSE loads[i]
    BY LoadReplaced
  <1>3. ViewTypeOK'
    BY Zenon, <1>1, <1>2 DEF ViewInv, ViewTypeOK
  <1>4. ASSUME NEW i \in 1..Len(loads'), loads'[i].state # "ended"
        PROVE  i = Len(loads') /\ LoadGood(loads'[i], filter, offset, sweep, hasty, log)
    BY Zenon, <1>2, <1>4 DEF ViewInv
  <1> QED
    BY <1>1, <1>3, <1>4 DEF ViewInv

(* A load under way, and what is known of it.                              *)
LEMMA LoadUnderWay ==
  ASSUME ViewInv, NEW c \in 1..Len(loads), loads[c].state # "ended"
  PROVE  /\ c = Len(loads) /\ loads[c] \in Load /\ Len(loads[c].entries) <= PageSize
         /\ LoadGood(loads[c], filter, offset, sweep, hasty, log)
         /\ loads[c].filter = filter /\ loads[c].offset = offset
         /\ filter \in Filter /\ offset \in Nat /\ Len(log) \in Nat /\ Len(log) <= MaxLog
         /\ PageSize \in Nat /\ MaxLog \in Nat
  <1>1. c = Len(loads) /\ LoadGood(loads[c], filter, offset, sweep, hasty, log)
        /\ Len(log) <= MaxLog
    BY DEF ViewInv
  <1>2. filter \in Filter /\ offset \in Nat /\ Len(log) \in Nat
    BY ViewTypes
  <1>3. PageSize \in Nat /\ MaxLog \in Nat
    BY ViewAssumption
  <1>4. loads[c].filter = filter /\ loads[c].offset = offset
    BY <1>1 DEF LoadGood
  <1> QED
    BY <1>1, <1>2, <1>3, <1>4, LoadParts

(* List.                                                                   *)
LEMMA ListKeeps ==
  ASSUME ViewInv, NEW c \in 1..Len(loads), List(c)
  PROVE  ViewInv'
  <1> DEFINE page1 == Page(Rows(filter, Len(log), log), offset)
             l == [loads[c] EXCEPT !.state = "listed", !.asOf = Len(log), !.entries = page1]
  <1>1. loads[c].state = "sent" /\ loads[c].state # "ended"
    BY DEF List
  <1>2. /\ c = Len(loads) /\ loads[c] \in Load
        /\ loads[c].filter = filter /\ loads[c].offset = offset
        /\ filter \in Filter /\ offset \in Nat /\ Len(log) \in Nat /\ Len(log) <= MaxLog
        /\ PageSize \in Nat /\ MaxLog \in Nat
    BY <1>1, LoadUnderWay
  <1>3. loads' = [loads EXCEPT ![c] = l] /\ UNCHANGED <<log, view>>
    BY Zenon, <1>2, MatchingRows, ViewTypes DEF List
  <1>4. page1 \in Seq(Seqs) /\ Len(page1) <= PageSize
    <2>1. Rows(filter, Len(log), log) \in SUBSET (1..Len(log))
      BY <1>2, RowsAmong
    <2>2. page1 \in Seq(Rows(filter, Len(log), log)) /\ Len(page1) <= PageSize
      BY Zenon, <1>2, <2>1, PageHolds
    <2>3. Rows(filter, Len(log), log) \subseteq Seqs
      BY <1>2, <2>1 DEF Seqs
    <2> HIDE DEF page1
    <2> QED
      BY <2>2, <2>3
  <1> HIDE DEF page1
  <1>5. l \in Load /\ Len(l.entries) <= PageSize
    BY Zenon, <1>2, <1>4 DEF Load
  <1>6. /\ l.state = "listed" /\ l.asOf = Len(log) /\ l.entries = page1
        /\ l.filter = filter /\ l.offset = offset
    BY <1>2 DEF Load
  <1> HIDE DEF l
  <1>7. LoadGood(l, filter, offset, sweep, hasty, log)
    <2>1. /\ sweep.asOf <= Len(log) /\ Covered(sweep, Len(log), log)
          /\ ~hasty => InReach(offset, filter, Len(log), log)
      BY Zenon DEF ViewInv
    <2>2. Len(log) <= Len(log)
      BY <1>2
    <2> QED
      BY <1>6, <2>1, <2>2 DEF LoadGood, page1
  <1> QED
    BY Zenon, <1>1, <1>3, <1>5, <1>7, AnswerKeeps

(* Count.                                                                  *)
LEMMA CountKeeps ==
  ASSUME ViewInv, NEW c \in 1..Len(loads), Count(c)
  PROVE  ViewInv'
  <1> DEFINE t == Cardinality(Rows(filter, Len(log), log))
             l == [loads[c] EXCEPT !.state = "answered", !.total = t]
  <1>1. loads[c].state = "listed" /\ loads[c].state # "ended"
    BY DEF Count
  <1>2. /\ c = Len(loads) /\ loads[c] \in Load /\ Len(loads[c].entries) <= PageSize
        /\ LoadGood(loads[c], filter, offset, sweep, hasty, log)
        /\ loads[c].filter = filter /\ loads[c].offset = offset /\ Len(log) \in Nat
    BY <1>1, LoadUnderWay
  <1>3. loads' = [loads EXCEPT ![c] = l] /\ UNCHANGED <<log, view>>
    BY Zenon, <1>2, MatchingRows, ViewTypes DEF Count, Counted
  <1>4. t \in Nat
    BY <1>2, RowsAmong, RowsFinite
  <1> HIDE DEF t
  <1>5. l \in Load /\ Len(l.entries) <= PageSize
    BY Zenon, <1>2, <1>4 DEF Load
  <1>6. /\ l.state = "answered" /\ l.total = t /\ l.asOf = loads[c].asOf
        /\ l.entries = loads[c].entries /\ l.asOf \in Nat
        /\ l.filter = filter /\ l.offset = offset
    BY <1>2 DEF Load
  <1> HIDE DEF l
  <1>7. LoadGood(l, filter, offset, sweep, hasty, log)
    <2>1. l.asOf <= Len(log)
      BY <1>1, <1>2, <1>6 DEF LoadGood
    <2>2. \E n \in l.asOf..Len(log) : l.total = Cardinality(Rows(filter, n, log))
      BY <1>2, <1>6, <2>1 DEF t
    <2> QED
      BY <1>1, <1>2, <1>6, <2>2 DEF LoadGood
  <1> QED
    BY Zenon, <1>1, <1>3, <1>5, <1>7, AnswerKeeps

(* Fail.                                                                   *)
LEMMA FailKeeps ==
  ASSUME ViewInv, NEW c \in 1..Len(loads), Fail(c)
  PROVE  ViewInv'
  <1> DEFINE l == Failed(loads[c])
  <1>1. loads[c].state # "ended" /\ loads' = [loads EXCEPT ![c] = l] /\ UNCHANGED <<log, view>>
    BY DEF Fail
  <1>2. /\ loads[c].filter = filter /\ loads[c].offset = offset
        /\ filter \in Filter /\ offset \in Nat /\ PageSize \in Nat
    BY <1>1, LoadUnderWay
  <1>a. l = [state |-> "failed", filter |-> filter, offset |-> offset, entries |-> <<>>,
             total |-> 0, asOf |-> 0]
    BY <1>2 DEF Failed, NewLoad
  <1>b. <<>> \in Seq(Seqs) /\ Len(<<>>) <= PageSize
    BY <1>2
  <1> HIDE DEF l
  <1>3. /\ l \in Load /\ Len(l.entries) <= PageSize
        /\ l.state = "failed" /\ l.filter = filter /\ l.offset = offset
    BY <1>2, <1>a, <1>b DEF Load
  <1>4. LoadGood(l, filter, offset, sweep, hasty, log)
    BY <1>3 DEF LoadGood
  <1> QED
    BY <1>1, <1>3, <1>4, AnswerKeeps

(* A page that is shown extends the sweep, begins one, or leaves it; in    *)
(* each case the sweep covers what the log held when the page was listed.  *)
LEMMA SweptCovers ==
  ASSUME ViewInv, NEW c \in 1..Len(loads), loads[c].state = "answered"
  PROVE  LET sw == Swept(loads[c])
         IN  /\ sw \in [filter : Filter, reached : Int, asOf : Nat, read : SUBSET Seqs]
             /\ sw.asOf <= loads[c].asOf /\ Covered(sw, loads[c].asOf, log)
  <1> DEFINE l == loads[c]
             shown == {l.entries[i] : i \in 1..Len(l.entries)}
             rows == Rows(l.filter, l.asOf, log)
             sw == Swept(l)
  <1>1. /\ LoadGood(l, filter, offset, sweep, hasty, log)
        /\ l.filter = filter /\ l.offset = offset /\ PageSize \in Nat
    BY LoadUnderWay
  <1>2. /\ l.asOf \in Nat /\ l.offset \in Nat /\ l.filter \in Filter
        /\ l.entries \in Seq(Seqs)
    BY LoadParts
  <1>3. sweep \in [filter : Filter, reached : Int, asOf : Nat, read : SUBSET Seqs]
    BY ViewTypes
  <1>4. /\ sweep.asOf <= l.asOf /\ Covered(sweep, l.asOf, log)
        /\ l.entries = Page(rows, l.offset)
    BY <1>1 DEF LoadGood
  <1>5. shown \subseteq Seqs
    BY <1>2
  <1>6. rows \in SUBSET (1..l.asOf)
    BY <1>2, RowsAmong
  <1>7. \A s \in rows : /\ l.offset <= Rank(rows, s)
                        /\ Rank(rows, s) < l.offset + PageSize
                        => s \in shown
    <2> HIDE DEF rows, l
    <2> DEFINE n == l.asOf
               o == l.offset
    <2>1. n \in Nat /\ o \in Nat /\ rows \in SUBSET (1..n) /\ l.entries = Page(rows, o)
      BY <1>2, <1>4, <1>6
    <2> HIDE DEF n, o
    <2>2. \A s \in rows : o <= Rank(rows, s) /\ Rank(rows, s) < o + PageSize
             => \E i \in 1..Len(Page(rows, o)) : Page(rows, o)[i] = s
      BY Zenon, <2>1, PageHolds
    <2> QED
      BY <2>1, <2>2 DEF o
  <1>8. \A s \in rows : Rank(rows, s) \in Nat
    <2> HIDE DEF rows, l
    <2> SUFFICES ASSUME NEW s \in rows PROVE Rank(rows, s) \in Nat
      OBVIOUS
    <2>1. Rank(rows, s) \in 0..(Cardinality(rows) - 1) /\ Cardinality(rows) \in Nat
      BY Zenon, <1>2, <1>6, RankBound
    <2> QED
      BY <2>1
  <1> HIDE DEF l, shown, rows
  <1>9. CASE l.offset = 0
    <2>1. sw = [filter |-> l.filter, reached |-> 0, asOf |-> l.asOf, read |-> shown]
      BY <1>9 DEF Swept, shown
    <2> HIDE DEF sw
    <2>2. /\ sw \in [filter : Filter, reached : Int, asOf : Nat, read : SUBSET Seqs]
          /\ sw.filter = l.filter /\ sw.reached = 0 /\ sw.asOf = l.asOf /\ sw.read = shown
      BY <1>2, <1>5, <2>1
    <2>3. \A s \in rows : Rank(rows, s) < 0 + PageSize => s \in shown
      BY <1>1, <1>7, <1>8, <1>9
    <2>4. Covered(sw, l.asOf, log)
      BY <2>2, <2>3 DEF Covered, rows
    <2>5. sw.asOf <= l.asOf
      BY <1>2, <2>2
    <2> QED
      BY <2>2, <2>4, <2>5, Zenon DEF sw, l
  <1>10. CASE l.offset # 0 /\ l.filter = sweep.filter /\ l.offset = sweep.reached + PageSize
    <2>1. sw = [sweep EXCEPT !.reached = l.offset, !.read = sweep.read \cup shown]
      BY <1>3, <1>10 DEF Swept, shown
    <2> HIDE DEF sw
    <2>2. /\ sw \in [filter : Filter, reached : Int, asOf : Nat, read : SUBSET Seqs]
          /\ sw.filter = l.filter /\ sw.reached = l.offset /\ sw.asOf = sweep.asOf
          /\ sw.read = sweep.read \cup shown
      <3>1. sw = [filter |-> sweep.filter, reached |-> l.offset, asOf |-> sweep.asOf,
                  read |-> sweep.read \cup shown]
        BY Zenon, <1>3, <2>1
      <3>2. l.offset \in Int /\ sweep.read \cup shown \in SUBSET Seqs
            /\ sweep.filter \in Filter /\ sweep.asOf \in Nat
        BY <1>2, <1>3, <1>5
      <3> QED
        BY <1>10, <3>1, <3>2
    <2>3. ASSUME NEW s \in Rows(sweep.filter, sweep.asOf, log),
                 Rank(rows, s) < l.offset + PageSize
          PROVE  s \in sweep.read \cup shown
      <3>1. s \in rows
        BY <1>2, <1>3, <1>4, <1>10, RowsMore DEF rows
      <3>2. CASE Rank(rows, s) < l.offset
        BY <1>4, <1>10, <3>2 DEF Covered, rows
      <3>3. CASE l.offset <= Rank(rows, s)
        BY <1>7, <2>3, <3>1, <3>3
      <3>4. Rank(rows, s) < l.offset \/ l.offset <= Rank(rows, s)
        BY <1>2, <1>8, <3>1
      <3> QED
        BY <3>2, <3>3, <3>4, Zenon
    <2>4. Covered(sw, l.asOf, log)
      BY <1>10, <2>2, <2>3 DEF Covered, rows
    <2> QED
      BY <1>4, <2>2, <2>4 DEF sw, l
  <1>11. CASE l.offset # 0 /\ ~(l.filter = sweep.filter /\ l.offset = sweep.reached + PageSize)
    <2>1. sw = sweep
      BY <1>11 DEF Swept
    <2> QED
      BY <1>3, <1>4, <2>1 DEF l
  <1> QED
    BY <1>9, <1>10, <1>11

(* A load that has ended is a load.                                        *)
LEMMA GoneLoad ==
  Gone \in Load /\ Len(Gone.entries) <= PageSize /\ Gone.state = "ended"
  <1>1. Gone = [state |-> "ended", filter |-> NoFilter, offset |-> 0, entries |-> <<>>,
                     total |-> 0, asOf |-> 0]
    BY DEF Gone, NewLoad
  <1>2. <<>> \in Seq(Seqs) /\ Len(<<>>) <= PageSize
    BY ViewAssumption
  <1>3. NoFilter \in Filter
    BY DEF NoFilter, Filter
  <1> QED
    BY <1>1, <1>2, <1>3 DEF Load

(* The last load is settled, and none is under way.                        *)
LEMMA LoadEnds ==
  ASSUME ViewInv, NEW c \in 1..Len(loads), loads[c].state # "ended",
         loads' = Ended(c)
  PROVE  /\ loads' \in Seq(Load)
         /\ \A i \in 1..Len(loads') : Len(loads'[i].entries) <= PageSize
         /\ \A i \in 1..Len(loads') : loads'[i].state = "ended"
  <1>1. loads' = [loads EXCEPT ![c] = Gone]
    BY DEF Ended
  <1>2. /\ loads' \in Seq(Load) /\ Len(loads') = Len(loads)
        /\ \A i \in 1..Len(loads') : Len(loads'[i].entries) <= PageSize
        /\ \A i \in 1..Len(loads') : loads'[i] = IF i = c THEN Gone ELSE loads[i]
    BY Zenon, <1>1, GoneLoad, LoadReplaced
  <1>3. \A i \in 1..Len(loads) : i # c => loads[i].state = "ended"
    BY DEF ViewInv
  <1> QED
    BY <1>2, <1>3, GoneLoad

(* Show.                                                                   *)
LEMMA ShowKeeps ==
  ASSUME ViewInv, NEW c \in 1..Len(loads), Show(c)
  PROVE  ViewInv'
  <1> DEFINE l == loads[c]
             sw == Swept(l)
  <1>1. /\ l.state = "answered" /\ l.state # "ended" /\ data' = <<l>> /\ ~error' /\ ~loading'
        /\ sweep' = sw /\ loads' = Ended(c) /\ UNCHANGED <<log, filter, typed, offset, hasty>>
        /\ error' = FALSE /\ loading' = FALSE
    BY DEF Show
  <1>2. /\ LoadGood(l, filter, offset, sweep, hasty, log)
        /\ l.filter = filter /\ l.offset = offset /\ PageSize \in Nat /\ Len(log) \in Nat
    BY <1>1, LoadUnderWay
  <1>3. l \in Load /\ l.asOf \in Nat /\ l.offset \in Nat /\ l.total \in Nat
    BY LoadParts
  <1>4. /\ sw \in [filter : Filter, reached : Int, asOf : Nat, read : SUBSET Seqs]
        /\ sw.asOf <= l.asOf /\ Covered(sw, l.asOf, log)
    BY <1>1, SweptCovers
  <1>5. /\ loads' \in Seq(Load)
        /\ \A i \in 1..Len(loads') : Len(loads'[i].entries) <= PageSize
        /\ \A i \in 1..Len(loads') : loads'[i].state = "ended"
    BY <1>1, LoadEnds
  <1> HIDE DEF l, sw
  <1>6. ViewTypeOK'
    <2>1. data' \in Seq(Load) /\ Len(data') <= 1
      BY <1>1, <1>3
    <2> QED
      BY <1>1, <1>4, <1>5, <2>1 DEF ViewInv, ViewTypeOK
  <1>7. PICK n \in l.asOf..Len(log) : l.total = Cardinality(Rows(filter, n, log))
    BY <1>1, <1>2 DEF LoadGood
  <1>8. /\ l.asOf <= Len(log) /\ l.entries = Page(Rows(filter, l.asOf, log), offset)
        /\ ~hasty => InReach(offset, filter, l.asOf, log)
    BY <1>1, <1>2 DEF LoadGood
  <1>9. n \in Nat /\ l.asOf <= n /\ n <= Len(log) /\ sw.asOf \in Nat /\ sw.reached \in Int
        /\ sw.asOf <= n /\ sw.asOf <= Len(log)
    BY <1>2, <1>3, <1>4, <1>7
  <1>10. Covered(sw, n, log) /\ Covered(sw, Len(log), log)
    BY <1>2, <1>3, <1>4, <1>8, <1>9, CoveredLater
  <1>11. l.total <= Cardinality(Rows(filter, Len(log), log))
    BY <1>2, <1>7, <1>9, RowsMore
  <1>12. ASSUME l.entries = <<>>, ~hasty \/ offset = 0 PROVE Rows(filter, l.asOf, log) = {}
    <2> DEFINE rows == Rows(filter, l.asOf, log)
               m == l.asOf
    <2>1. rows \in SUBSET (1..m) /\ m \in Nat
      BY <1>3, RowsAmong
    <2>2. offset = 0 \/ offset < Cardinality(rows)
      BY <1>8, <1>12 DEF InReach
    <2>3. Page(rows, offset) = <<>> /\ offset \in Nat
      BY <1>2, <1>3, <1>8, <1>12
    <2> HIDE DEF rows, m
    <2>4. rows = {}
      BY Zenon, <2>1, <2>2, <2>3, PageHolds
    <2> QED
      BY <2>4 DEF rows
  <1>13. ASSUME filter = sw.filter, l.offset = sw.reached, l.offset + PageSize >= l.total,
                NEW s \in Rows(sw.filter, sw.asOf, log)
         PROVE  s \in sw.read
    <2> DEFINE rows == Rows(sw.filter, n, log)
    <2>1. s \in rows /\ rows \in SUBSET (1..n)
      BY <1>9, RowsMore, RowsAmong
    <2>2. l.total = Cardinality(rows)
      BY <1>7, <1>13
    <2> HIDE DEF rows
    <2>3. Rank(rows, s) \in 0..(Cardinality(rows) - 1) /\ Cardinality(rows) \in Nat
      BY Zenon, <1>9, <2>1, RankBound
    <2>4. Cardinality(rows) <= sw.reached + PageSize
      BY <1>13, <2>2
    <2>5. sw.reached + PageSize \in Int
      BY <1>2, <1>9
    <2>6. Rank(rows, s) < sw.reached + PageSize
      BY <2>3, <2>4, <2>5
    <2> QED
      BY <1>10, <2>6 DEF Covered, rows
  <1>14. ShownGood(l, filter, offset, sw, hasty, TRUE, log)
    BY <1>2, <1>8, <1>11, <1>12, <1>13 DEF ShownGood
  <1>15. data' # <<>> /\ data'[1] = l
    BY <1>1
  <1>16. ShownGood(data'[1], filter', offset', sweep', hasty', ~loading' /\ ~error', log')
    BY <1>1, <1>14, <1>15
  <1> QED
    BY Zenon, <1>1, <1>5, <1>6, <1>9, <1>10, <1>15, <1>16 DEF ViewInv

(* ShowError.                                                              *)
LEMMA ShowErrorKeeps ==
  ASSUME ViewInv, NEW c \in 1..Len(loads), ShowError(c)
  PROVE  ViewInv'
  <1>1. /\ loads[c].state # "ended" /\ error' = TRUE /\ loading' = FALSE /\ loads' = Ended(c)
        /\ UNCHANGED <<log, filter, typed, offset, hasty, data, sweep>>
    BY DEF ShowError
  <1>2. /\ loads' \in Seq(Load)
        /\ \A i \in 1..Len(loads') : Len(loads'[i].entries) <= PageSize
        /\ \A i \in 1..Len(loads') : loads'[i].state = "ended"
    BY <1>1, LoadEnds
  <1>3. ViewTypeOK'
    BY Zenon, <1>1, <1>2 DEF ViewInv, ViewTypeOK
  <1>4. data # <<>> => ShownGood(data[1], filter, offset, sweep, hasty, FALSE, log)
    BY Zenon DEF ViewInv, ShownGood
  <1> QED
    BY Zenon, <1>1, <1>2, <1>3, <1>4 DEF ViewInv

(* What Append does.                                                       *)
LEMMA AppendedLast ==
  ASSUME NEW S, NEW xs \in Seq(S), NEW x \in S, NEW ys, ys = Append(xs, x)
  PROVE  /\ ys \in Seq(S) /\ Len(ys) = Len(xs) + 1 /\ ys[Len(ys)] = x
         /\ \A i \in 1..Len(ys) : i # Len(ys) => i \in 1..Len(xs) /\ ys[i] = xs[i]
  <1>1. ys \in Seq(S) /\ Len(ys) = Len(xs) + 1 /\ Len(xs) \in Nat
    OBVIOUS
  <1>2. ys[Len(ys)] = x
    BY <1>1
  <1>3. ASSUME NEW i \in 1..Len(ys), i # Len(ys) PROVE i \in 1..Len(xs) /\ ys[i] = xs[i]
    BY <1>1, <1>3
  <1> QED
    BY <1>1, <1>2, <1>3

(* Reload, for a page that is in reach unless it was turned in haste.      *)
LEMMA ReloadKeeps ==
  ASSUME ViewInv, NEW f \in Filter, NEW o \in Nat, LoadEffect(f, o),
         hasty' \in BOOLEAN, typed' \in IPs \cup {Any},
         \E k \in Nat : o = k * PageSize,
         ~hasty' => InReach(o, f, Len(log), log) /\ (o = 0 \/ typed' = f.ip)
  PROVE  ViewInv'
  <1> DEFINE l == NewLoad(f, o)
  <1>1. /\ filter' = f /\ offset' = o /\ loading' = TRUE /\ loads' = Append(Aborted, l)
        /\ UNCHANGED <<log, data, error, sweep>>
    BY DEF LoadEffect
  <1>2. /\ l \in Load /\ Len(l.entries) <= PageSize
        /\ l.state = "sent" /\ l.filter = f /\ l.offset = o
    <2>1. <<>> \in Seq(Seqs) /\ Len(<<>>) <= PageSize
      BY ViewAssumption
    <2> QED
      BY <2>1 DEF NewLoad, Load
  <1> HIDE DEF l
  <1>3. /\ Aborted \in Seq(Load) /\ Len(Aborted) = Len(loads)
        /\ \A i \in 1..Len(loads) : Aborted[i] = Gone
    <2>1. loads \in Seq(Load)
      BY ViewTypes
    <2>2. DOMAIN loads = 1..Len(loads) /\ Len(loads) \in Nat
      BY <2>1
    <2>3. Aborted = [i \in 1..Len(loads) |-> Gone]
      BY <2>2 DEF Aborted
    <2> QED
      BY <2>2, <2>3, GoneLoad
  <1>4. /\ loads' \in Seq(Load) /\ Len(loads') = Len(loads) + 1
        /\ loads'[Len(loads')] = l
        /\ \A i \in 1..Len(loads') : i # Len(loads') => loads'[i] = Gone
    <2> DEFINE xs == Aborted
    <2>1. /\ xs \in Seq(Load) /\ Len(xs) = Len(loads) /\ loads' = Append(xs, l)
          /\ \A i \in 1..Len(xs) : xs[i] = Gone
      BY Zenon, <1>1, <1>3
    <2> HIDE DEF xs
    <2>2. /\ loads' \in Seq(Load) /\ Len(loads') = Len(xs) + 1 /\ loads'[Len(loads')] = l
          /\ \A i \in 1..Len(loads') : i # Len(loads') => i \in 1..Len(xs) /\ loads'[i] = xs[i]
      BY <1>2, <2>1, AppendedLast
    <2> QED
      BY Zenon, <2>1, <2>2
  <1>5. \A i \in 1..Len(loads') : Len(loads'[i].entries) <= PageSize
    BY <1>2, <1>4, GoneLoad
  <1>6. ViewTypeOK'
    BY Zenon, <1>1, <1>4, <1>5 DEF ViewInv, ViewTypeOK
  <1>7. ASSUME NEW i \in 1..Len(loads'), loads'[i].state # "ended"
        PROVE  i = Len(loads') /\ LoadGood(loads'[i], f, o, sweep, hasty', log)
    <2>1. i = Len(loads') /\ loads'[i] = l
      BY <1>4, <1>7, GoneLoad
    <2> QED
      BY <1>2, <2>1 DEF LoadGood
  <1>8. data # <<>> => ShownGood(data[1], f, o, sweep, hasty', FALSE, log)
    BY Zenon DEF ViewInv, ShownGood
  <1>9. ~loading' /\ ~error' <=> FALSE
    BY <1>1
  <1>10. data' # <<>> =>
           ShownGood(data'[1], filter', offset', sweep', hasty', ~loading' /\ ~error', log')
    BY Zenon, <1>1, <1>8
  <1> QED
    BY Zenon, <1>1, <1>6, <1>7, <1>9, <1>10 DEF ViewInv

(* The pager goes a whole page back or forth.                              *)
LEMMA WholePages ==
  ASSUME NEW P \in Nat \ {0}, NEW k \in Nat
  PROVE  /\ k * P + P = (k + 1) * P /\ k + 1 \in Nat
         /\ k * P # 0 => k - 1 \in Nat /\ k * P - P = (k - 1) * P /\ k * P - P \in Nat
  <1>1. k * P \in Nat /\ k * P + P = (k + 1) * P /\ k * P - P = (k - 1) * P
    OBVIOUS
  <1>2. k = 0 => k * P = 0
    OBVIOUS
  <1>3. ASSUME k # 0 PROVE k - 1 \in Nat /\ (k - 1) * P \in Nat
    BY <1>3
  <1> QED
    BY <1>1, <1>2, <1>3

(* Turn.  Backward stays in reach.  Forward is by the total on screen: if  *)
(* that is of what is selected, and no address is about to settle, the log *)
(* still holds as many matches.                                            *)
LEMMA TurnKeeps ==
  ASSUME ViewInv, Turn
  PROVE  ViewInv'
  <1>1. PageSize \in Nat \ {0}
    BY ViewAssumption
  <1>2. /\ filter \in Filter /\ offset \in Nat /\ typed \in IPs \cup {Any}
        /\ hasty \in BOOLEAN /\ Len(log) \in Nat /\ typed' = typed
    BY ViewTypes DEF Turn
  <1>3. PICK k \in Nat : offset = k * PageSize
    BY DEF ViewInv
  <1>4. ~hasty => InReach(offset, filter, Len(log), log) /\ (offset = 0 \/ typed = filter.ip)
    BY DEF ViewInv
  <1>5. Cardinality(Rows(filter, Len(log), log)) \in Nat
    BY Zenon, <1>2, RowsAmong, RowsFinite
  <1>6. CASE offset # 0 /\ LoadEffect(filter, offset - PageSize) /\ UNCHANGED hasty
    <2> DEFINE o == offset - PageSize
    <2>1. o \in Nat /\ \E j \in Nat : o = j * PageSize
      BY <1>1, <1>3, <1>6, WholePages
    <2>2. ~hasty' => InReach(o, filter, Len(log), log) /\ (o = 0 \/ typed' = filter.ip)
      BY <1>1, <1>2, <1>4, <1>5, <1>6, <2>1 DEF InReach
    <2>3. LoadEffect(filter, o) /\ hasty' \in BOOLEAN /\ typed' \in IPs \cup {Any}
      BY <1>2, <1>6
    <2> HIDE DEF o
    <2> QED
      BY <1>2, <2>1, <2>2, <2>3, ReloadKeeps
  <1>7. CASE /\ offset + PageSize < Total
             /\ LoadEffect(filter, offset + PageSize)
             /\ hasty' = (hasty \/ data[1].filter # filter \/ typed # filter.ip)
    <2> DEFINE o == offset + PageSize
    <2>1. o \in Nat /\ \E j \in Nat : o = j * PageSize
      BY <1>1, <1>3, WholePages
    <2>2. hasty' \in BOOLEAN
      BY <1>2, <1>7
    <2>3. ASSUME ~hasty' PROVE InReach(o, filter, Len(log), log) /\ typed' = filter.ip
      <3>1. data[1].filter = filter /\ typed = filter.ip
        BY Zenon, <1>2, <1>7, <2>3
      <3>2. data # <<>> /\ Total = data[1].total
        BY <1>1, <1>2, <1>7 DEF Total
      <3>3. data[1].total <= Cardinality(Rows(filter, Len(log), log))
        BY <3>1, <3>2 DEF ViewInv, ShownGood
      <3>4. data[1].total \in Nat
        BY <3>2, ShownLoad
      <3>5. o < Cardinality(Rows(filter, Len(log), log))
        <4>1. offset + PageSize < data[1].total
          BY <1>7, <3>2
        <4> QED
          BY <1>1, <1>2, <1>5, <3>3, <3>4, <4>1
      <3> QED
        BY <1>2, <3>1, <3>5 DEF InReach
    <2>4. LoadEffect(filter, o) /\ typed' \in IPs \cup {Any}
      BY <1>2, <1>7
    <2> HIDE DEF o
    <2> QED
      BY <1>2, <2>1, <2>2, <2>3, <2>4, ReloadKeeps
  <1> QED
    BY <1>6, <1>7 DEF Turn

(* SelectKind goes to the first page, of any filter.                       *)
LEMMA SelectKeeps ==
  ASSUME ViewInv, NEW k \in Kinds \cup {Any}, SelectKind(k)
  PROVE  ViewInv'
  <1> DEFINE f == [filter EXCEPT !.kind = k]
  <1>1. filter \in Filter /\ typed \in IPs \cup {Any} /\ PageSize \in Nat
    BY ViewTypes, ViewAssumption
  <1>2. f \in Filter
    BY <1>1 DEF Filter
  <1>3. LoadEffect(f, 0) /\ hasty' = FALSE /\ typed' = typed
    BY DEF SelectKind, FirstPage
  <1>4. 0 \in Nat /\ \E j \in Nat : 0 = j * PageSize
    BY <1>1
  <1> HIDE DEF f
  <1>5. InReach(0, f, Len(log), log)
    BY DEF InReach
  <1> QED
    BY Zenon, <1>1, <1>2, <1>3, <1>4, <1>5, ReloadKeeps

(* TypeIP goes to the first page, at once.                                 *)
LEMMA TypeKeeps ==
  ASSUME ViewInv, NEW i \in IPs \cup {Any}, TypeIP(i)
  PROVE  ViewInv'
  <1>1. filter \in Filter /\ PageSize \in Nat
    BY ViewTypes, ViewAssumption
  <1>2. typed' = i /\ hasty' = FALSE
    BY DEF TypeIP
  <1>3. CASE LoadEffect(filter, 0)
    <2>1. 0 \in Nat /\ \E j \in Nat : 0 = j * PageSize
      BY <1>1
    <2>2. InReach(0, filter, Len(log), log)
      BY DEF InReach
    <2> QED
      BY <1>1, <1>2, <1>3, <2>1, <2>2, ReloadKeeps
  <1>4. CASE offset = 0 /\ UNCHANGED <<log, filter, offset, loading, data, error, loads, sweep>>
    <2>1. ViewTypeOK'
      BY Zenon, <1>2, <1>4 DEF ViewInv, ViewTypeOK
    <2>2. ASSUME NEW c \in 1..Len(loads), loads[c].state # "ended"
          PROVE  c = Len(loads) /\ LoadGood(loads[c], filter, offset, sweep, FALSE, log)
      BY Zenon, <1>4, <2>2 DEF ViewInv, LoadGood, InReach
    <2>3. data # <<>> =>
            ShownGood(data[1], filter, offset, sweep, FALSE, ~loading /\ ~error, log)
      BY Zenon, <1>4 DEF ViewInv, ShownGood
    <2>4. InReach(offset, filter, Len(log), log)
      BY <1>4 DEF InReach
    <2> QED
      BY Zenon, <1>2, <1>4, <2>1, <2>2, <2>3, <2>4 DEF ViewInv
  <1> QED
    BY <1>3, <1>4 DEF TypeIP, FirstPage

(* Settle keeps the page, which is the first or was turned in haste.       *)
LEMMA SettleKeeps ==
  ASSUME ViewInv, Settle
  PROVE  ViewInv'
  <1> DEFINE f == [filter EXCEPT !.ip = typed]
  <1>1. filter \in Filter /\ typed \in IPs \cup {Any} /\ hasty \in BOOLEAN /\ offset \in Nat
    BY ViewTypes
  <1>2. f \in Filter
    BY <1>1 DEF Filter
  <1>3. LoadEffect(f, offset) /\ hasty' = hasty /\ typed' = typed /\ filter.ip # typed
    BY DEF Settle
  <1>4. ~hasty => offset = 0
    BY <1>3 DEF ViewInv
  <1>5. \E j \in Nat : offset = j * PageSize
    BY DEF ViewInv
  <1> HIDE DEF f
  <1>6. ~hasty => InReach(offset, f, Len(log), log)
    BY <1>4 DEF InReach
  <1> QED
    BY <1>1, <1>2, <1>3, <1>4, <1>5, <1>6, ReloadKeeps

(* Refresh.                                                                *)
LEMMA RefreshKeeps ==
  ASSUME ViewInv, Refresh
  PROVE  ViewInv'
  <1>1. /\ filter \in Filter /\ typed \in IPs \cup {Any} /\ hasty \in BOOLEAN
        /\ offset \in Nat
    BY ViewTypes
  <1>2. LoadEffect(filter, offset) /\ hasty' = hasty /\ typed' = typed
    BY DEF Refresh
  <1>3. /\ \E j \in Nat : offset = j * PageSize
        /\ ~hasty => InReach(offset, filter, Len(log), log) /\ (offset = 0 \/ typed = filter.ip)
    BY DEF ViewInv
  <1> QED
    BY <1>1, <1>2, <1>3, ReloadKeeps

(* The view is mounted, and its first load sent.                           *)
LEMMA InitView ==
  ASSUME ViewInit
  PROVE  ViewInv
  <1>1. /\ PageSize \in Nat /\ MaxLog \in Nat /\ -PageSize \in Int
    BY ViewAssumption
  <1>2. NoFilter \in Filter
    BY DEF NoFilter, Filter
  <1> DEFINE l == NewLoad(NoFilter, 0)
  <1>3. /\ l \in Load /\ Len(l.entries) <= PageSize
        /\ l.filter = NoFilter /\ l.offset = 0 /\ l.state = "sent"
    <2>1. <<>> \in Seq(Seqs) /\ Len(<<>>) <= PageSize
      BY <1>1
    <2> QED
      BY <1>2, <2>1 DEF NewLoad, Load
  <1>4. /\ log = <<>> /\ Len(log) = 0 /\ filter = NoFilter /\ typed = Any /\ offset = 0
        /\ loading = TRUE /\ error = FALSE /\ hasty = FALSE /\ data = <<>> /\ loads = <<l>>
        /\ sweep = [filter |-> NoFilter, reached |-> -PageSize, asOf |-> 0, read |-> {}]
    BY DEF ViewInit
  <1> HIDE DEF l
  <1>5. /\ sweep \in [filter : Filter, reached : Int, asOf : Nat, read : SUBSET Seqs]
        /\ sweep.asOf = 0
    BY <1>1, <1>2, <1>4
  <1>6. /\ loads \in Seq(Load) /\ Len(loads) = 1 /\ loads[1] = l
        /\ log \in Seq(Entry) /\ data \in Seq(Load) /\ Len(data) <= 1
    BY <1>3, <1>4
  <1>7. ViewTypeOK
    <2>1. \A i \in 1..Len(loads) : Len(loads[i].entries) <= PageSize
      BY <1>3, <1>6
    <2>2. filter \in Filter /\ typed \in IPs \cup {Any} /\ offset \in Nat
      BY <1>2, <1>4
    <2>3. loading \in BOOLEAN /\ error \in BOOLEAN /\ hasty \in BOOLEAN
      BY Zenon, <1>4
    <2> QED
      BY <1>5, <1>6, <2>1, <2>2, <2>3 DEF ViewTypeOK
  <1>8. Covered(sweep, Len(log), log)
    BY <1>5 DEF Covered, Rows
  <1>9. \A c \in 1..Len(loads) : c = Len(loads) /\ LoadGood(loads[c], filter, offset, sweep, hasty, log)
    BY <1>3, <1>4, <1>6 DEF LoadGood
  <1>10. \E k \in Nat : offset = k * PageSize
    BY <1>1, <1>4
  <1> QED
    <2>1. Len(log) <= MaxLog /\ sweep.asOf <= Len(log)
      BY <1>1, <1>4, <1>5
    <2>2. InReach(offset, filter, Len(log), log) /\ offset = 0
      BY <1>4 DEF InReach
    <2>3. ~(~loading /\ ~error) /\ data = <<>>
      BY <1>4
    <2> QED
      BY <1>7, <1>8, <1>9, <1>10, <2>1, <2>2, <2>3 DEF ViewInv

(* The invariant holds of every behaviour.                                 *)
LEMMA ViewInvariant ==
  ViewSpec => []ViewInv
  <1>1. ViewInit => ViewInv
    BY InitView
  <1>2. ViewInv /\ [ViewNext]_viewVars => ViewInv'
    <2> SUFFICES ASSUME ViewInv, [ViewNext]_viewVars PROVE ViewInv'
      OBVIOUS
    <2>1. CASE UNCHANGED viewVars
      <3>1. UNCHANGED <<log, filter, typed, offset, loading, data, error, loads, hasty, sweep>>
        BY <2>1 DEF viewVars
      <3> QED
        BY Zenon, <3>1 DEF ViewInv, ViewTypeOK
    <2>2. CASE ViewNext
      BY <2>2, GrowKeeps, ListKeeps, CountKeeps, FailKeeps, ShowKeeps, ShowErrorKeeps,
         RefreshKeeps,
         SettleKeeps, TurnKeeps, SelectKeeps, TypeKeeps DEF ViewNext
    <2> QED
      BY <2>1, <2>2
  <1> QED
    BY <1>1, <1>2, PTL DEF ViewSpec

(* What the audit view shows without a loading mark or an error is what is *)
(* selected, for any answers that are late, lost or overtaken: the effect  *)
(* aborts the load before (Events).                                        *)
THEOREM ShowsSelection ==
  ViewSpec => []ShownIsCurrent
  <1>1. ViewInv => ShownIsCurrent
    BY DEF ViewInv, ShownGood, ShownIsCurrent
  <1> QED
    BY <1>1, ViewInvariant, PTL

(* An empty page means that nothing matched, unless the page was turned by *)
(* the total of another filter: for any page size and any growth of the    *)
(* log (changeFilter, the pager).                                          *)
THEOREM EmptyIsNone ==
  ViewSpec => []EmptyMeansNone
  <1>1. ViewInv => EmptyMeansNone
    BY MatchingRows DEF ViewInv, ShownGood, EmptyMeansNone
  <1> QED
    BY <1>1, ViewInvariant, PTL

(* Who pages to the end has seen every match there was when they began, as *)
(* long as the limit of the API leaves the page size as it is: for any     *)
(* page size, filters and appends in between (List, Normalized).           *)
THEOREM NothingSkipped ==
  ViewSpec => []NoEntrySkipped
  <1>1. ViewInv => NoEntrySkipped
    <2> SUFFICES ASSUME ViewInv, NEW i \in 1..Len(data),
                        data[i].filter = sweep.filter, data[i].offset = sweep.reached,
                        data[i].offset + PageSize >= data[i].total
                 PROVE  Rows(sweep.filter, sweep.asOf, log) \subseteq sweep.read
      BY MatchingRows DEF NoEntrySkipped
    <2>1. data # <<>> /\ i = 1
      BY ViewTypes
    <2> QED
      BY <2>1 DEF ViewInv, ShownGood
  <1> QED
    BY <1>1, ViewInvariant, PTL
=============================================================================
