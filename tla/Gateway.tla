------------------------------ MODULE Gateway -------------------------------
(***************************************************************************)
(* One request through the proxy and the engine.                           *)
(*                                                                         *)
(* The proxy asks the engine for a verdict and waits for a limited time.   *)
(* The engine runs the chain, answers, and only then records the decision. *)
(* Meanwhile the configuration is replaced, requests interleave, answers   *)
(* come too late and the engine ends and starts again.                     *)
(***************************************************************************)
EXTENDS Integers, Sequences

CONSTANTS
    Requests,   \* The requests, each with its own request id.
    Chain,      \* The rules in the order of evaluation.
    CIDRs,      \* The prefixes an access list may hold.
    EnabledSets,\* The sets of rules that operators enable.
    AccessLists,\* The access lists that operators set up.
    MaxChanges, \* Bound on the reconfigurations.
    Within,     \* The prefixes each request's address lies in.
    FailModes,  \* The values of OS_FAIL_MODE in use: "open", "closed".
    None        \* No verdict.

Rules == {Chain[i] : i \in DOMAIN Chain}
Verdict == {"allow"} \cup Rules  \* A block is named after its rule.
Lists == [allow : SUBSET CIDRs, deny : SUBSET CIDRs]

ASSUME GatewayAssumption ==
    /\ Chain \in Seq(STRING) /\ "allow" \notin Rules
    /\ \A i, j \in DOMAIN Chain : Chain[i] = Chain[j] => i = j
    /\ Within \in [Requests -> SUBSET CIDRs]
    /\ EnabledSets \subseteq SUBSET Rules /\ AccessLists \subseteq Lists
    /\ MaxChanges \in Nat
    /\ FailModes \subseteq {"open", "closed"}
    /\ None \notin Verdict \cup {"error"}

VARIABLES
    proxy,      \* What the proxy has done with each request.
    reply,      \* The engine's answer on its way: a verdict, or "error".
    handler,    \* The point handleDecide has reached with each request.
    next,       \* The next rule of the chain to look at.
    active,     \* The enabled set Decide took when it began.
    verdict,    \* The decision.
    audited,    \* The verdict in the audit entry of each request.
    matches,    \* The rules, other than ipblock, that the request's contents trip.
    failMode,   \* The proxy's fail mode.
    up,         \* The engine process runs.
    enabled,    \* Engine.enabled
    list,       \* IPBlock.allow and deny
    changes,    \* The number of reconfigurations so far.
    seen        \* History: the enabled sets and lists in force during Decide.

inputs == <<matches, failMode>>
engineVars == <<up, enabled, list, changes>>
decideVars == <<handler, next, active, verdict, seen>>
vars == <<proxy, reply, decideVars, audited, inputs, engineVars>>

Configs == [enabled : SUBSET Rules, list : Lists]

TypeOK ==
    /\ proxy \in [Requests -> {"new", "waiting", "forwarded", "denied"}]
    /\ reply \in [Requests -> Verdict \cup {"error", None}]
    /\ handler \in [Requests -> {"none", "sent", "decide", "answer", "record", "done"}]
    /\ next \in [Requests -> 1..(Len(Chain) + 1)]
    /\ active \in [Requests -> SUBSET Rules]
    /\ verdict \in [Requests -> Verdict \cup {None}]
    /\ audited \in [Requests -> Verdict \cup {None}]
    /\ matches \in [Requests -> SUBSET (Rules \ {"ipblock"})]
    /\ failMode \in FailModes
    /\ up \in BOOLEAN
    /\ enabled \in SUBSET Rules /\ list \in Lists
    /\ changes \in 0..MaxChanges
    /\ seen \in [Requests -> SUBSET Configs]

Init ==
    /\ proxy = [r \in Requests |-> "new"]
    /\ reply = [r \in Requests |-> None]
    /\ handler = [r \in Requests |-> "none"]
    /\ next = [r \in Requests |-> 1]
    /\ active = [r \in Requests |-> {}]
    /\ verdict = [r \in Requests |-> None]
    /\ audited = [r \in Requests |-> None]
    /\ matches \in [Requests -> SUBSET (Rules \ {"ipblock"})]
    /\ failMode \in FailModes
    /\ up = TRUE
    /\ enabled = Rules
    /\ list = [allow |-> {}, deny |-> {}]
    /\ changes = 0
    /\ seen = [r \in Requests |-> {}]

-----------------------------------------------------------------------------
(***************************************************************************)
(* The proxy: _M.access.                                                   *)
(***************************************************************************)

(* on_engine_error.                                                        *)
OnEngineError == IF failMode = "closed" THEN "denied" ELSE "forwarded"

(* The decision request is sent, to an engine that may not be there; or it *)
(* could not be encoded.                                                   *)
Ask(r) ==
    /\ proxy[r] = "new"
    /\ \/ /\ proxy' = [proxy EXCEPT ![r] = "waiting"]
          /\ handler' = [handler EXCEPT ![r] = IF up THEN "sent" ELSE "none"]
       \/ /\ proxy' = [proxy EXCEPT ![r] = OnEngineError]
          /\ UNCHANGED handler
    /\ UNCHANGED <<reply, next, active, verdict, seen, audited, inputs, engineVars>>

(* What the proxy does about an answer.  Mutant: only the status is read.  *)
ActOnStatus(answer) == IF answer = "error" THEN OnEngineError ELSE "forwarded"
ActOn(answer) ==
    IF answer = "error" THEN OnEngineError
    ELSE IF answer = "allow" THEN "forwarded" ELSE "denied"

Act(r) ==
    /\ proxy[r] = "waiting" /\ reply[r] # None
    /\ proxy' = [proxy EXCEPT ![r] = ActOn(reply[r])]
    /\ UNCHANGED <<reply, decideVars, audited, inputs, engineVars>>

(* DECIDE_TIMEOUT passes, or the connection fails: the answer, if there    *)
(* will be one, reaches nobody.  Mutant: no timeout.                       *)
WaitForever(r) == FALSE
TimeOut(r) ==
    /\ proxy[r] = "waiting"
    /\ proxy' = [proxy EXCEPT ![r] = OnEngineError]
    /\ UNCHANGED <<reply, decideVars, audited, inputs, engineVars>>

-----------------------------------------------------------------------------
(***************************************************************************)
(* The engine: handleDecide, Decide, IPBlock.Evaluate.                     *)
(***************************************************************************)

(* A request that cannot be decoded is answered with 400 and not recorded. *)
Reject(r) ==
    /\ handler[r] = "sent"
    /\ handler' = [handler EXCEPT ![r] = "done"]
    /\ reply' = [reply EXCEPT ![r] = "error"]
    /\ UNCHANGED <<proxy, next, active, verdict, seen, audited, inputs, engineVars>>

Begin(r) ==
    /\ handler[r] = "sent"
    /\ handler' = [handler EXCEPT ![r] = "decide"]
    /\ active' = [active EXCEPT ![r] = enabled]
    /\ seen' = [seen EXCEPT ![r] = {[enabled |-> enabled, list |-> list]}]
    /\ UNCHANGED <<proxy, reply, next, verdict, audited, inputs, engineVars>>

(* IPBlock.Evaluate: an allowed range wins over a denied one.              *)
Denied(l, r) == l.allow \cap Within[r] = {} /\ l.deny \cap Within[r] # {}

Blocks(rule, l, r) == IF rule = "ipblock" THEN Denied(l, r) ELSE rule \in matches[r]

(* The enabled set that Decide consults.  Mutant: the current one.         *)
Current(r) == enabled
Snapshot(r) == active[r]

(* One turn of the loop of Decide.                                         *)
Evaluate(r) ==
    /\ handler[r] = "decide" /\ next[r] <= Len(Chain)
    /\ LET rule == Chain[next[r]]
       IN  IF rule \in Snapshot(r) /\ Blocks(rule, list, r)
           THEN /\ verdict' = [verdict EXCEPT ![r] = rule]
                /\ handler' = [handler EXCEPT ![r] = "answer"]
                /\ UNCHANGED next
           ELSE /\ next' = [next EXCEPT ![r] = @ + 1]
                /\ UNCHANGED <<verdict, handler>>
    /\ UNCHANGED <<proxy, reply, active, seen, audited, inputs, engineVars>>

Allow(r) ==
    /\ handler[r] = "decide" /\ next[r] > Len(Chain)
    /\ verdict' = [verdict EXCEPT ![r] = "allow"]
    /\ handler' = [handler EXCEPT ![r] = "answer"]
    /\ UNCHANGED <<proxy, reply, next, active, seen, audited, inputs, engineVars>>

Answer(r) ==
    /\ handler[r] = "answer"
    /\ reply' = [reply EXCEPT ![r] = verdict[r]]
    /\ handler' = [handler EXCEPT ![r] = "record"]
    /\ UNCHANGED <<proxy, next, active, verdict, seen, audited, inputs, engineVars>>

(* writer.Record, which drops the entry when the queue is full.            *)
Record(r) ==
    /\ handler[r] = "record"
    /\ handler' = [handler EXCEPT ![r] = "done"]
    /\ \E entry \in {verdict[r], None} : audited' = [audited EXCEPT ![r] = entry]
    /\ UNCHANGED <<proxy, reply, next, active, verdict, seen, inputs, engineVars>>

(* applyConfig: chain.SetEnabled and ipBlock.Set, one after the other.     *)
Reconfigure(e, l) ==
    /\ up /\ changes < MaxChanges
    /\ changes' = changes + 1
    /\ enabled' = e /\ list' = l
    /\ seen' = [r \in Requests |-> IF handler[r] = "decide"
                  THEN seen[r] \cup {[enabled |-> e, list |-> l]} ELSE seen[r]]
    /\ UNCHANGED <<proxy, reply, handler, next, active, verdict, audited, inputs, up>>

SetEnabled == \E e \in EnabledSets : Reconfigure(e, list)
Set == \E l \in AccessLists : Reconfigure(enabled, l)

(* The process ends with its handlers; a new one starts with every rule on *)
(* and an empty list.                                                      *)
Crash ==
    /\ up
    /\ up' = FALSE
    /\ handler' = [r \in Requests |-> IF handler[r] = "none" THEN "none" ELSE "done"]
    /\ UNCHANGED <<proxy, reply, next, active, verdict, seen, audited, inputs, enabled, list, changes>>

Start ==
    /\ ~up
    /\ up' = TRUE
    /\ enabled' = Rules
    /\ list' = [allow |-> {}, deny |-> {}]
    /\ UNCHANGED <<proxy, reply, decideVars, audited, inputs, changes>>

Next ==
    \/ \E r \in Requests :
          \/ Ask(r) \/ Act(r) \/ TimeOut(r)
          \/ Reject(r) \/ Begin(r) \/ Evaluate(r) \/ Allow(r) \/ Answer(r) \/ Record(r)
    \/ SetEnabled \/ Set \/ Crash \/ Start

Spec == Init /\ [][Next]_vars

(* nginx runs its timers.                                                  *)
FairSpec == Spec /\ \A r \in Requests : WF_vars(TimeOut(r)) /\ WF_vars(Ask(r))

-----------------------------------------------------------------------------
(* What Decide answers when nothing changes: the first block in the order  *)
(* of the chain, else an allow.                                            *)
Blocking(e, l, r) == {i \in DOMAIN Chain : Chain[i] \in e /\ Blocks(Chain[i], l, r)}
Decision(e, l, r) ==
    IF Blocking(e, l, r) = {} THEN "allow"
    ELSE Chain[CHOOSE i \in Blocking(e, l, r) : \A j \in Blocking(e, l, r) : i <= j]

(***************************************************************************)
(* "A running evaluation always sees a consistent set": the verdict is the *)
(* one that a single enabled set and a single access list give, both in    *)
(* force while Decide ran, whatever was swapped meanwhile.                 *)
(***************************************************************************)
VerdictOfOneConfig == \A r \in Requests : verdict[r] # None =>
    \E c, d \in seen[r] : verdict[r] = Decision(c.enabled, d.list, r)

(***************************************************************************)
(* Where the fail mode is closed, the backend sees no request that the     *)
(* engine has not allowed.                                                 *)
(***************************************************************************)
ForwardedWasAllowed == \A r \in Requests :
    proxy[r] = "forwarded" /\ failMode = "closed" => verdict[r] = "allow"

(***************************************************************************)
(* Every request gets its outcome although engines fail to answer: it is   *)
(* forwarded or denied, and stays so.                                      *)
(***************************************************************************)
RequestsAreServed == \A r \in Requests : <>[](proxy[r] \in {"forwarded", "denied"})
=============================================================================
