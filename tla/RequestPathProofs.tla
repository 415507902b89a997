------------------------- MODULE RequestPathProofs --------------------------
(***************************************************************************)
(* Proofs about what a request meets on its way.                           *)
(*                                                                         *)
(* Gateway: for any chain, any requests and any number of                  *)
(* reconfigurations and crashes, a verdict is that of one configuration,   *)
(* and a proxy that fails closed forwards only what was allowed.           *)
(*                                                                         *)
(* RateLimit: for any number of requests, any limit and any window, the    *)
(* cap holds while no request is late, twice the cap holds while none is   *)
(* later than half a window, and a refusal has its cause however late      *)
(* requests are.                                                           *)
(***************************************************************************)
EXTENDS Gateway, RateLimit, FiniteSetTheorems, TLAPS


Config == [enabled |-> enabled, list |-> list]

(* How far the handler of a request is, and what there is of its answer.   *)
(* A handler at work has its process.                                      *)
Progress == \A r \in Requests :
    /\ proxy[r] = "new" => handler[r] = "none"
    /\ handler[r] \in {"none", "sent", "decide", "answer"} => reply[r] = None
    /\ handler[r] \in {"none", "sent", "decide"} => verdict[r] = None
    /\ handler[r] \in {"none", "sent"} => next[r] = 1
    /\ handler[r] \in {"sent", "decide", "answer", "record"} => up

(* What the proxy acts upon is the verdict, or an error.                   *)
Relayed == \A r \in Requests :
    /\ reply[r] \in {None, "error", verdict[r]}
    /\ proxy[r] = "forwarded" /\ failMode = "closed" => verdict[r] = "allow"

(* The rules before n, of those enabled in e, pass r under the list l.     *)
Passed(n, e, l, r) == \A i \in DOMAIN Chain :
    i < n => ~(Chain[i] \in e /\ Blocks(Chain[i], l, r))

(* Half way through the chain: the rules looked at pass under one list     *)
(* that has been in force since Decide began, and the enabled set is one   *)
(* as well.                                                                *)
Looping == \A r \in Requests : handler[r] = "decide" =>
    /\ Config \in seen[r]
    /\ \E c \in seen[r] : c.enabled = active[r]
    /\ \E d \in seen[r] : Passed(next[r], active[r], d.list, r)

IInv == TypeOK /\ Progress /\ Relayed /\ Looping /\ VerdictOfOneConfig

-----------------------------------------------------------------------------
(* The first blocking rule is the decision.                                *)
LEMMA FirstBlocks ==
  ASSUME NEW e, NEW l, NEW r, NEW n \in DOMAIN Chain,
         Passed(n, e, l, r), Chain[n] \in e, Blocks(Chain[n], l, r)
  PROVE  Decision(e, l, r) = Chain[n]
  <1>1. DOMAIN Chain \subseteq Nat
    BY GatewayAssumption
  <1>2. n \in Blocking(e, l, r) /\ \A j \in Blocking(e, l, r) : n <= j
    BY <1>1 DEF Blocking, Passed
  <1>3. \A i \in Blocking(e, l, r) : (\A j \in Blocking(e, l, r) : i <= j) => i = n
    BY <1>1, <1>2 DEF Blocking
  <1>4. (CHOOSE i \in Blocking(e, l, r) : \A j \in Blocking(e, l, r) : i <= j) = n
    BY <1>2, <1>3
  <1> QED
    BY <1>2, <1>4 DEF Decision

(* A chain that is passed to its end allows.                               *)
LEMMA NoneBlocks ==
  ASSUME NEW e, NEW l, NEW r, NEW n \in Nat, n > Len(Chain), Passed(n, e, l, r)
  PROVE  Decision(e, l, r) = "allow"
  <1>1. \A i \in DOMAIN Chain : i \in Nat /\ i < n
    BY GatewayAssumption
  <1>2. Blocking(e, l, r) = {}
    BY <1>1 DEF Blocking, Passed
  <1> QED
    BY <1>2 DEF Decision

(* Of a chain without duplicates only one rule asks the list, so the list  *)
(* in force when the loop reaches it does for all: the loop has passed the *)
(* rules before n under l, is at n now, and m is in force.                 *)
LEMMA OneList ==
  ASSUME NEW e, NEW l, NEW m, NEW r, NEW n \in DOMAIN Chain, Passed(n, e, l, r)
  PROVE  \E k \in {l, m} :
           Passed(n, e, k, r) /\ (Blocks(Chain[n], k, r) <=> Blocks(Chain[n], m, r))
  <1>1. DOMAIN Chain \subseteq Nat
    BY GatewayAssumption
  <1>2. CASE Chain[n] # "ipblock"
    BY <1>2 DEF Blocks
  <1>3. CASE Chain[n] = "ipblock"
    <2>1. \A i \in DOMAIN Chain : i < n => Chain[i] # "ipblock"
      BY <1>1, <1>3, GatewayAssumption
    <2>2. Passed(n, e, m, r)
      BY <2>1 DEF Passed, Blocks
    <2> QED
      BY <2>2
  <1> QED
    BY <1>2, <1>3

(* Decide depends on nothing but its arguments and what matches: it gives  *)
(* the same verdict after a step that leaves the inputs alone.             *)
LEMMA SameDecision ==
  ASSUME UNCHANGED inputs
  PROVE  \A e, l, q : Decision(e, l, q)' = Decision(e, l, q)
  <1>1. matches' = matches
    BY DEF inputs
  <1> QED
    BY <1>1 DEF Decision, Blocking, Blocks, Denied

(* A step that leaves inputs, verdicts and what was in force alone.        *)
LEMMA SameVerdicts ==
  ASSUME VerdictOfOneConfig, UNCHANGED <<inputs, verdict, seen>>
  PROVE  VerdictOfOneConfig'
  <1>1. \A e, l, q : Decision(e, l, q)' = Decision(e, l, q)
    BY SameDecision
  <1>2. verdict' = verdict /\ seen' = seen
    OBVIOUS
  <1> QED
    BY Zenon, <1>1, <1>2 DEF VerdictOfOneConfig

(* The invariant of the gateway holds before the first request.            *)
LEMMA InitIInv == ASSUME Init PROVE IInv
  BY GatewayAssumption DEF Init, IInv, TypeOK, Progress, Relayed, Looping, VerdictOfOneConfig, Verdict, Lists

-----------------------------------------------------------------------------
(* The proxy.                                                              *)
LEMMA ProxyStep ==
  ASSUME IInv, NEW r \in Requests, Ask(r) \/ Act(r) \/ TimeOut(r)
  PROVE  IInv'
  <1>1. /\ TypeOK /\ Progress /\ Relayed /\ Looping /\ VerdictOfOneConfig
        /\ UNCHANGED <<reply, next, active, verdict, seen, audited, inputs, engineVars>>
    BY DEF IInv, Ask, Act, TimeOut, decideVars
  <1>2. TypeOK' /\ Progress'
    BY <1>1 DEF TypeOK, Progress, inputs, Ask, Act, TimeOut, ActOn, OnEngineError, engineVars, decideVars
  <1>3. \A q \in Requests : handler'[q] = "decide" => handler[q] = "decide"
    BY <1>1 DEF Ask, Act, TimeOut, decideVars, TypeOK
  <1>4. Relayed'
    <2>1. OnEngineError = "forwarded" => failMode # "closed"
      BY DEF OnEngineError
    <2>2. ASSUME Act(r), proxy'[r] = "forwarded", failMode = "closed"
          PROVE  verdict[r] = "allow"
      <3>1. reply[r] = "allow"
        BY <1>1, <2>2 DEF Act, ActOn, OnEngineError, TypeOK
      <3> QED
        BY <1>1, <3>1, GatewayAssumption DEF Relayed, Verdict
    <2> QED
      BY <1>1, <2>1, <2>2 DEF Relayed, TypeOK, Ask, Act, TimeOut, inputs
  <1>5. Looping'
    <2>1. UNCHANGED Config
      BY <1>1 DEF Config, engineVars
    <2>2. \A n, e, l, q : Passed(n, e, l, q)' <=> Passed(n, e, l, q)
      BY <1>1 DEF Passed, Blocks, inputs
    <2> QED
      BY <1>1, <1>3, <2>1, <2>2 DEF Looping
  <1>6. VerdictOfOneConfig'
    BY <1>1, SameVerdicts
  <1> QED
    BY <1>2, <1>4, <1>5, <1>6 DEF IInv

(* A request that is not decoded, the answer and the record.               *)
LEMMA AnswerStep ==
  ASSUME IInv, NEW r \in Requests, Reject(r) \/ Answer(r) \/ Record(r)
  PROVE  IInv'
  <1>1. /\ TypeOK /\ Progress /\ Relayed /\ Looping /\ VerdictOfOneConfig
        /\ UNCHANGED <<proxy, next, active, verdict, seen, inputs, engineVars>>
    BY DEF IInv, Reject, Answer, Record
  <1>2. TypeOK' /\ Progress' /\ Relayed'
    <2>1. CASE Reject(r)
      BY <1>1, <2>1 DEF TypeOK, Progress, Relayed, Reject, inputs, engineVars
    <2>2. CASE Answer(r)
      BY <1>1, <2>2 DEF TypeOK, Progress, Relayed, Answer, inputs, engineVars
    <2>3. CASE Record(r)
      BY <1>1, <2>3 DEF TypeOK, Progress, Relayed, Record, inputs, engineVars
    <2> QED
      BY <2>1, <2>2, <2>3
  <1>3. \A q \in Requests : handler'[q] = "decide" => handler[q] = "decide"
    BY <1>1 DEF Reject, Answer, Record, TypeOK
  <1>4. Looping'
    <2>1. UNCHANGED Config
      BY <1>1 DEF Config, engineVars
    <2>2. \A n, e, l, q : Passed(n, e, l, q)' <=> Passed(n, e, l, q)
      BY <1>1 DEF Passed, Blocks, inputs
    <2> QED
      BY <1>1, <1>3, <2>1, <2>2 DEF Looping
  <1>5. VerdictOfOneConfig'
    BY <1>1, SameVerdicts
  <1> QED
    BY <1>2, <1>4, <1>5 DEF IInv

(* Decide takes the enabled set.                                           *)
LEMMA BeginStep ==
  ASSUME IInv, NEW r \in Requests, Begin(r)
  PROVE  IInv'
  <1>1. /\ TypeOK /\ Progress /\ Relayed /\ Looping /\ VerdictOfOneConfig
        /\ UNCHANGED <<proxy, reply, next, verdict, audited, inputs, engineVars>>
    BY DEF IInv, Begin
  <1>2. UNCHANGED Config /\ Config \in Configs
    BY <1>1 DEF Config, Configs, engineVars, TypeOK
  <1>3. TypeOK' /\ Progress' /\ Relayed'
    BY <1>1, <1>2 DEF TypeOK, Progress, Relayed, Begin, Config, inputs, engineVars
  <1>4. /\ handler[r] = "sent" /\ next[r] = 1 /\ verdict[r] = None
        /\ seen'[r] = {Config} /\ active'[r] = Config.enabled
        /\ \A q \in Requests \ {r} :
              seen'[q] = seen[q] /\ active'[q] = active[q] /\ handler'[q] = handler[q]
    BY <1>1 DEF Begin, TypeOK, Progress, Config
  <1>5. Looping'
    <2>1. \A n, e, l, q : Passed(n, e, l, q)' <=> Passed(n, e, l, q)
      BY <1>1 DEF Passed, Blocks, inputs
    <2>2. \A e, l, q : Passed(1, e, l, q)
      BY GatewayAssumption DEF Passed
    <2> QED
      BY <1>1, <1>2, <1>4, <2>1, <2>2 DEF Looping
  <1>6. VerdictOfOneConfig'
    <2>1. \A e, l, q : Decision(e, l, q)' = Decision(e, l, q)
      BY <1>1, SameDecision
    <2>2. verdict' = verdict /\ \A q \in Requests : verdict[q] # None => seen'[q] = seen[q]
      BY <1>1, <1>4
    <2> QED
      BY Zenon, <1>1, <2>1, <2>2 DEF VerdictOfOneConfig
  <1> QED
    BY <1>3, <1>5, <1>6 DEF IInv

(* A turn of the loop, and its end.                                        *)
LEMMA LoopStep ==
  ASSUME IInv, NEW r \in Requests, Evaluate(r) \/ Allow(r)
  PROVE  IInv'
  <1>1. /\ TypeOK /\ Progress /\ Relayed /\ Looping /\ VerdictOfOneConfig
        /\ handler[r] = "decide"
        /\ UNCHANGED <<proxy, reply, active, seen, audited, inputs, engineVars>>
    BY DEF IInv, Evaluate, Allow
  <1>2. UNCHANGED Config /\ \A n, e, l, q : Passed(n, e, l, q)' <=> Passed(n, e, l, q)
    BY <1>1 DEF Config, engineVars, Passed, Blocks, inputs
  <1>3. Config \in seen[r] /\ Config.list = list
    BY <1>1 DEF Looping, Config
  <1>4. PICK c \in seen[r] : c.enabled = active[r]
    BY <1>1 DEF Looping
  <1>5. PICK d \in seen[r] : Passed(next[r], active[r], d.list, r)
    BY <1>1 DEF Looping
  <1>6. \A q, e, l : Decision(e, l, q)' = Decision(e, l, q)
    BY <1>1, SameDecision
  <1>7. next[r] \in Nat \ {0} /\ Len(Chain) \in Nat /\ DOMAIN Chain = 1..Len(Chain)
    BY <1>1, GatewayAssumption DEF TypeOK
  <1>8. \A q \in Requests \ {r} :
           verdict'[q] = verdict[q] /\ handler'[q] = handler[q] /\ next'[q] = next[q]
    BY <1>1 DEF Evaluate, Allow, TypeOK
  <1>9. CASE Evaluate(r)
    <2> DEFINE rule == Chain[next[r]]
    <2>1. next[r] \in DOMAIN Chain /\ rule \in Rules
      BY <1>7, <1>9 DEF Evaluate, Rules
    <2>2. PICK f \in seen[r] : /\ Passed(next[r], active[r], f.list, r)
                               /\ Blocks(rule, f.list, r) <=> Blocks(rule, list, r)
      BY <1>3, <1>5, <2>1, OneList
    <2>3. CASE rule \in active[r] /\ Blocks(rule, list, r)
      <3>1. /\ verdict' = [verdict EXCEPT ![r] = rule] /\ UNCHANGED next
            /\ handler' = [handler EXCEPT ![r] = "answer"]
        BY <1>9, <2>3 DEF Evaluate, Snapshot
      <3>2. TypeOK' /\ Progress' /\ Relayed'
        <4>1. verdict[r] = None /\ reply[r] = None /\ None # "allow"
          BY <1>1, GatewayAssumption DEF Progress, Verdict
        <4> QED
          BY <1>1, <2>1, <3>1, <4>1 DEF TypeOK, Progress, Relayed, Verdict, inputs, engineVars
      <3>3. Looping'
        BY <1>1, <1>2, <1>8, <3>1 DEF Looping, TypeOK
      <3>4. Decision(c.enabled, f.list, r) = rule
        BY <1>4, <2>1, <2>2, <2>3, FirstBlocks
      <3>5. VerdictOfOneConfig'
        BY <1>1, <1>6, <1>8, <3>1, <3>4 DEF VerdictOfOneConfig, TypeOK
      <3> QED
        BY <3>2, <3>3, <3>5 DEF IInv
    <2>4. CASE ~(rule \in active[r] /\ Blocks(rule, list, r))
      <3>1. next' = [next EXCEPT ![r] = @ + 1] /\ UNCHANGED <<verdict, handler>>
        BY <1>9, <2>4 DEF Evaluate, Snapshot
      <3>2. TypeOK' /\ Progress' /\ Relayed'
        BY <1>1, <1>7, <2>1, <3>1 DEF TypeOK, Progress, Relayed, inputs, engineVars
      <3>3. Passed(next[r] + 1, active[r], f.list, r)
        BY <1>7, <2>2, <2>4 DEF Passed
      <3>4. Looping'
        <4>1. next'[r] = next[r] + 1
          BY <1>1, <3>1 DEF TypeOK
        <4> QED
          BY <1>1, <1>2, <1>8, <3>1, <3>3, <4>1 DEF Looping
      <3>5. VerdictOfOneConfig'
        BY <1>1, <1>6, <3>1 DEF VerdictOfOneConfig
      <3> QED
        BY <3>2, <3>4, <3>5 DEF IInv
    <2> QED
      BY <2>3, <2>4
  <1>10. CASE Allow(r)
    <2>1. /\ verdict' = [verdict EXCEPT ![r] = "allow"] /\ UNCHANGED next
          /\ handler' = [handler EXCEPT ![r] = "answer"] /\ next[r] > Len(Chain)
      BY <1>10 DEF Allow
    <2>2. TypeOK' /\ Progress' /\ Relayed'
      <3>1. verdict[r] = None /\ reply[r] = None /\ None # "allow"
        BY <1>1, GatewayAssumption DEF Progress, Verdict
      <3> QED
        BY <1>1, <2>1, <3>1 DEF TypeOK, Progress, Relayed, Verdict, inputs, engineVars
    <2>3. Looping'
      BY <1>1, <1>2, <1>8, <2>1 DEF Looping, TypeOK
    <2>4. Decision(c.enabled, d.list, r) = "allow"
      BY <1>4, <1>5, <1>7, <2>1, NoneBlocks
    <2>5. VerdictOfOneConfig'
      BY <1>1, <1>6, <1>8, <2>1, <2>4 DEF VerdictOfOneConfig, TypeOK
    <2> QED
      BY <2>2, <2>3, <2>5 DEF IInv
  <1> QED
    BY <1>9, <1>10

-----------------------------------------------------------------------------
(* SetEnabled and Set: what is in force is seen by who is in the loop.     *)
LEMMA ConfigStep ==
  ASSUME IInv, SetEnabled \/ Set
  PROVE  IInv'
  <1>1. PICK e \in SUBSET Rules, l \in Lists : Reconfigure(e, l)
    <2>1. enabled \in SUBSET Rules /\ list \in Lists
      BY DEF IInv, TypeOK
    <2> QED
      BY <2>1, GatewayAssumption DEF SetEnabled, Set
  <1>2. /\ TypeOK /\ Progress /\ Relayed /\ Looping /\ VerdictOfOneConfig
        /\ UNCHANGED <<proxy, reply, handler, next, active, verdict, audited, inputs, up>>
        /\ enabled' = e /\ list' = l
    BY <1>1 DEF IInv, Reconfigure
  <1>3. Config' = [enabled |-> e, list |-> l] /\ Config' \in Configs
    BY <1>2 DEF Config, Configs
  <1>4. \A q \in Requests :
          /\ seen[q] \subseteq seen'[q]
          /\ handler[q] = "decide" => Config' \in seen'[q]
    BY <1>1, <1>2, <1>3 DEF Reconfigure, TypeOK
  <1>5. TypeOK' /\ Progress' /\ Relayed'
    <2>1. seen' \in [Requests -> SUBSET Configs]
      BY <1>1, <1>2, <1>3 DEF Reconfigure, TypeOK
    <2>2. changes' \in 0..MaxChanges
      BY <1>1, <1>2, GatewayAssumption DEF Reconfigure, TypeOK
    <2> QED
      BY <1>2, <2>1, <2>2 DEF TypeOK, Progress, Relayed, inputs
  <1>6. Looping'
    <2>1. \A n, f, m, q : Passed(n, f, m, q)' <=> Passed(n, f, m, q)
      BY <1>2 DEF Passed, Blocks, inputs
    <2> QED
      BY <1>2, <1>4, <2>1 DEF Looping
  <1>7. VerdictOfOneConfig'
    <2>1. \A q, f, m : Decision(f, m, q)' = Decision(f, m, q)
      BY <1>2, SameDecision
    <2> QED
      BY <1>2, <1>4, <2>1 DEF VerdictOfOneConfig
  <1> QED
    BY <1>5, <1>6, <1>7 DEF IInv

(* The engine ends and starts: nobody is in the loop.                      *)
LEMMA ProcessStep ==
  ASSUME IInv, Crash \/ Start
  PROVE  IInv'
  <1>1. /\ TypeOK /\ Progress /\ Relayed /\ Looping /\ VerdictOfOneConfig
        /\ UNCHANGED <<proxy, reply, next, active, verdict, seen, audited, inputs, changes>>
    BY DEF IInv, Crash, Start, decideVars
  <1>2. \A q \in Requests : handler'[q] # "decide"
    <2>1. CASE Crash
      BY <2>1 DEF Crash
    <2>2. CASE Start
      BY <1>1, <2>2 DEF Start, Progress, decideVars
    <2> QED
      BY <2>1, <2>2
  <1>3. TypeOK' /\ Progress' /\ Relayed'
    <2>1. CASE Crash
      BY <1>1, <2>1 DEF TypeOK, Progress, Relayed, Crash, inputs
    <2>2. CASE Start
      BY <1>1, <2>2 DEF TypeOK, Progress, Relayed, Start, decideVars, inputs, Lists
    <2> QED
      BY <2>1, <2>2
  <1>4. Looping'
    BY <1>2 DEF Looping
  <1>5. VerdictOfOneConfig'
    BY <1>1, SameVerdicts
  <1> QED
    BY <1>3, <1>4, <1>5 DEF IInv

(* The invariant holds of every behaviour.                                 *)
THEOREM GatewayInvariant == Spec => []IInv
  <1>1. IInv /\ [Next]_vars => IInv'
    <2>1. ASSUME IInv, UNCHANGED vars PROVE IInv'
      <3>1. TypeOK' /\ Progress' /\ Relayed'
        BY <2>1 DEF vars, decideVars, inputs, engineVars, IInv, TypeOK, Progress, Relayed
      <3>2. Looping'
        BY <2>1 DEF vars, decideVars, inputs, engineVars, IInv, Looping, Config, Passed, Blocks
      <3>3. VerdictOfOneConfig'
        BY <2>1, SameVerdicts DEF vars, decideVars, IInv
      <3> QED
        BY <3>1, <3>2, <3>3 DEF IInv
    <2> QED
      BY <2>1, ProxyStep, AnswerStep, BeginStep, LoopStep, ConfigStep, ProcessStep DEF Next
  <1> QED
    BY <1>1, InitIInv, PTL DEF Spec

(* The verdict of Decide is that of one enabled set and one access list,   *)
(* both in force while it ran: for any chain without duplicates, however   *)
(* often SetEnabled and Set replace them meanwhile.                        *)
THEOREM VerdictsAreConsistent == Spec => []VerdictOfOneConfig
  BY GatewayInvariant, PTL DEF IInv

(* A proxy that fails closed forwards nothing the engine has not allowed,  *)
(* whatever times out, cannot be encoded or is answered late.              *)
THEOREM FailClosedIsClosed == Spec => []ForwardedWasAllowed
  <1>1. IInv => ForwardedWasAllowed
    BY DEF IInv, Relayed, ForwardedWasAllowed
  <1> QED
    BY <1>1, GatewayInvariant, PTL

-----------------------------------------------------------------------------
(***************************************************************************)
(* The rate limit.                                                         *)
(***************************************************************************)

(* No stamp is of a time to come; what the script let through has its      *)
(* answer, and the set holds nothing else.                                 *)
Answered ==
    /\ \A m \in ClientRequests : stamp[m] <= clock
    /\ members \subseteq admitted
    /\ \A m \in admitted : request[m] \notin {"new", "sent"}

(* The set still holds, and the key outlives, every request let through    *)
(* that is younger than a window.                                          *)
Remembered == \A m \in admitted :
    /\ stamp[m] + Window <= expires
    /\ stamp[m] > clock - Window => m \in members

LimitInv ==
    /\ LimitTypeOK /\ Answered /\ Remembered
    /\ Cardinality(members) <= Limit
    /\ CapHolds /\ RefusedHasCause

-----------------------------------------------------------------------------
(* Sets of requests are finite.                                            *)
LEMMA Finite ==
  ASSUME NEW S, S \subseteq ClientRequests
  PROVE  IsFiniteSet(S) /\ Cardinality(S) \in Nat /\ \A T \in SUBSET S : Cardinality(T) <= Cardinality(S)
  <1>1. IsFiniteSet(S)
    BY RateAssumption, FS_Subset
  <1> QED
    BY <1>1, FS_Subset, FS_CardinalityType

(* The invariant of the limiter holds before the first request.            *)
LEMMA InitLimitInv == ASSUME LimitInit PROVE LimitInv
  <1>1. LimitTypeOK /\ Answered /\ Remembered /\ RefusedHasCause
    <2>1. 0 \in 0..MaxTime /\ 0 \in 0..(MaxTime + Window)
      BY RateAssumption
    <2>2. LimitTypeOK
      BY <2>1 DEF LimitInit, LimitTypeOK
    <2>3. Answered /\ Remembered /\ RefusedHasCause
      BY <2>1 DEF LimitInit, Answered, Remembered, RefusedHasCause
    <2> QED
      BY <2>2, <2>3
  <1>2. \A t : AdmittedIn(t) = {}
    BY DEF LimitInit, AdmittedIn
  <1>3. Cardinality({}) = 0 /\ Limit \in Nat
    BY FS_EmptySet, RateAssumption
  <1>4. CapHolds /\ Cardinality(members) <= Limit
    BY <1>2, <1>3 DEF CapHolds, LimitInit
  <1> QED
    BY <1>1, <1>4 DEF LimitInv

(* A step that lets nothing through, and whose stamp, if it gives one, is  *)
(* of a request that has no answer, changes no window and no cause.        *)
LEMMA SameWindows ==
  ASSUME LimitInv, admitted' = admitted, late' = late,
         \A m \in ClientRequests : request[m] # "new" => stamp'[m] = stamp[m],
         \A m \in ClientRequests : request'[m] = "block" => request[m] = "block"
  PROVE  CapHolds' /\ RefusedHasCause'
  <1>1. \A m \in admitted : m \in ClientRequests /\ stamp'[m] = stamp[m]
    BY DEF LimitInv, LimitTypeOK, Answered
  <1>2. \A t : AdmittedIn(t)' = AdmittedIn(t)
    BY <1>1 DEF AdmittedIn
  <1>3. CapHolds'
    BY <1>2 DEF CapHolds, LimitInv
  <1>4. \A r \in ClientRequests : request[r] = "block" =>
          {m \in admitted' : stamp'[m] > stamp'[r] - Window} = {m \in admitted : stamp[m] > stamp[r] - Window}
    BY <1>1
  <1>5. RefusedHasCause'
    BY <1>4 DEF RefusedHasCause, LimitInv
  <1> QED
    BY <1>3, <1>5

(* Time passes, a request leaves, or one is let through without the        *)
(* script.                                                                 *)
LEMMA OtherSteps ==
  ASSUME LimitInv, Tick \/ \E r \in ClientRequests : Send(r) \/ FailOpen(r)
  PROVE  LimitInv'
  <1>1. CASE Tick
    <2>1. LimitTypeOK'
      BY <1>1, RateAssumption DEF LimitInv, LimitTypeOK, Tick
    <2>2. Answered'
      BY <1>1 DEF LimitInv, LimitTypeOK, Answered, Tick
    <2>3. Remembered'
      <3>1. \A m \in admitted : stamp[m] \in Int
        BY DEF LimitInv, LimitTypeOK
      <3>2. clock \in Int /\ expires \in Int /\ Window \in Nat
        BY RateAssumption DEF LimitInv, LimitTypeOK
      <3> QED
        BY <1>1, <3>1, <3>2 DEF LimitInv, Remembered, Tick
    <2>4. CapHolds' /\ RefusedHasCause'
      BY <1>1, SameWindows DEF Tick
    <2> QED
      BY <1>1, <2>1, <2>2, <2>3, <2>4 DEF LimitInv, Tick
  <1>2. CASE \E r \in ClientRequests : Send(r) \/ FailOpen(r)
    <2>1. PICK r \in ClientRequests : Send(r) \/ FailOpen(r)
      BY <1>2
    <2>2. LimitTypeOK'
      BY <2>1 DEF LimitInv, LimitTypeOK, Send, FailOpen
    <2>3. /\ UNCHANGED <<clock, members, expires, admitted, late>> /\ r \notin admitted
          /\ \A m \in ClientRequests \ {r} : stamp'[m] = stamp[m] /\ request'[m] = request[m]
          /\ request'[r] # "block" /\ (request[r] # "new" => stamp' = stamp)
      BY <2>1 DEF LimitInv, LimitTypeOK, Answered, Send, FailOpen
    <2>4. Answered' /\ Remembered'
      <3>1. stamp'[r] \in {stamp[r], clock} /\ clock \in Nat
        BY <2>1 DEF LimitInv, LimitTypeOK, Send, FailOpen
      <3>2. \A m \in ClientRequests : stamp'[m] <= clock'
        BY <2>3, <3>1 DEF LimitInv, LimitTypeOK, Answered
      <3> QED
        BY <2>3, <3>2 DEF LimitInv, LimitTypeOK, Answered, Remembered
    <2>5. CapHolds' /\ RefusedHasCause'
      BY <2>3, SameWindows
    <2> QED
      BY <2>2, <2>3, <2>4, <2>5 DEF LimitInv
  <1> QED
    BY <1>1, <1>2

-----------------------------------------------------------------------------
(* The script.  What it keeps of a request that is not late is all that    *)
(* was let through in any window the request falls into.                   *)
LEMMA ScriptStep == ASSUME LimitInv, NEW r \in ClientRequests, Script(r) PROVE LimitInv'
  <1>1. /\ LimitTypeOK /\ Answered /\ Remembered /\ CapHolds /\ RefusedHasCause
        /\ request[r] = "sent" /\ r \notin admitted
        /\ members' = Recorded(r) /\ expires' = clock + Window
        /\ admitted' = IF UnderLimit(r) THEN admitted \cup {r} ELSE admitted
        /\ UNCHANGED <<clock, stamp>>
    BY DEF LimitInv, Script, Expiry, Answered
  <1>2. /\ clock \in Nat /\ Window \in Nat \ {0} /\ expires \in Nat /\ Limit \in Nat \ {0}
        /\ \A m \in ClientRequests : stamp[m] \in Nat
        /\ admitted \subseteq ClientRequests /\ admitted' \subseteq ClientRequests
    BY <1>1, RateAssumption DEF LimitTypeOK
  <1>3. Kept(r) \subseteq members /\ Kept(r) \subseteq admitted
    BY <1>1 DEF Kept, Unexpired, Answered
  <1>4. /\ \A m \in ClientRequests \ {r} : request'[m] = request[m]
        /\ request'[r] \in {"allow", "block", "failedOpen"}
        /\ request'[r] = "block" => ~UnderLimit(r)
        /\ request' \in [ClientRequests -> {"new", "sent", "allow", "block", "failedOpen"}]
    BY <1>1 DEF Script, LimitTypeOK
  <1>5. LimitTypeOK'
    <2>1. members' \subseteq ClientRequests
      BY <1>1, <1>2, <1>3 DEF Recorded
    <2>2. clock' \in 0..MaxTime /\ expires' \in 0..(MaxTime + Window)
      BY <1>1, <1>2, RateAssumption DEF LimitTypeOK
    <2>3. late' \in BOOLEAN
      BY DEF Script
    <2> QED
      BY <1>1, <1>2, <1>4, <2>1, <2>2, <2>3 DEF LimitTypeOK
  <1>6. Answered'
    BY <1>1, <1>2, <1>3, <1>4 DEF Answered, Recorded
  <1>7. ~late' => ~late /\ stamp[r] = clock
    <2>1. late' = (late \/ clock > stamp[r])
      BY DEF Script
    <2>2. ~late' => ~(clock > stamp[r]) /\ ~late
      BY <2>1
    <2>3. stamp[r] <= clock
      BY <1>1 DEF Answered
    <2> QED
      BY <1>2, <2>2, <2>3
  <1>8. ASSUME NEW m \in admitted, stamp[m] > clock - Window PROVE m \in Kept(r)
    <2>1. m \in members /\ stamp[m] + Window <= expires
      BY <1>1, <1>8 DEF Remembered
    <2>2. clock < expires
      BY <1>2, <1>8, <2>1
    <2>3. stamp[r] <= clock /\ stamp[r] \in Nat /\ stamp[m] \in Nat
      BY <1>1, <1>2 DEF Answered
    <2>4. stamp[m] > stamp[r] - Window
      BY <1>2, <1>8, <2>3
    <2> QED
      BY <2>1, <2>2, <2>4 DEF Kept, Unexpired
  <1>9. Remembered'
    <2>1. SUFFICES ASSUME NEW m \in admitted'
                   PROVE  /\ stamp[m] + Window <= clock + Window
                          /\ stamp[m] > clock - Window => m \in members'
      BY <1>1 DEF Remembered
    <2>2. CASE m = r /\ UnderLimit(r)
      BY <1>1, <1>2, <2>1, <2>2 DEF Recorded, Answered
    <2>3. CASE m \in admitted
      <3>1. stamp[m] <= clock /\ stamp[m] \in Nat
        BY <1>1, <1>2, <2>3 DEF Answered
      <3>2. Kept(r) \subseteq members'
        BY <1>1 DEF Recorded
      <3> QED
        BY <1>2, <1>8, <2>1, <2>3, <3>1, <3>2
    <2> QED
      BY <1>1, <2>1, <2>2, <2>3
  <1>10. CapHolds'
    <2>1. SUFFICES ASSUME ~late', NEW t \in 0..MaxTime PROVE Cardinality(AdmittedIn(t)') <= Limit
      BY DEF CapHolds
    <2>2. Cardinality(AdmittedIn(t)) <= Limit
      BY <1>1, <1>7, <2>1 DEF CapHolds
    <2>3. CASE AdmittedIn(t)' = AdmittedIn(t)
      BY <2>2, <2>3
    <2>4. CASE AdmittedIn(t)' # AdmittedIn(t)
      <3>1. /\ UnderLimit(r) /\ AdmittedIn(t)' = AdmittedIn(t) \cup {r}
            /\ stamp[r] <= t
        BY <1>1, <2>4 DEF AdmittedIn
      <3>2. AdmittedIn(t) \subseteq Kept(r)
        BY <1>2, <1>7, <1>8, <2>1, <3>1 DEF AdmittedIn
      <3>3. IsFiniteSet(Kept(r)) /\ Cardinality(Kept(r)) \in Nat /\ Cardinality(AdmittedIn(t)) <= Cardinality(Kept(r))
        BY <1>2, <1>3, <3>2, Finite
      <3>4. IsFiniteSet(AdmittedIn(t)) /\ Cardinality(AdmittedIn(t)) \in Nat
        BY <1>2, <1>3, <3>2, Finite
      <3>5. r \notin AdmittedIn(t)
        BY <1>1 DEF AdmittedIn
      <3>6. Cardinality(AdmittedIn(t) \cup {r}) = Cardinality(AdmittedIn(t)) + 1
        BY <3>4, <3>5, FS_AddElement
      <3> QED
        BY <1>2, <3>1, <3>3, <3>4, <3>6 DEF UnderLimit
    <2> QED
      BY <2>3, <2>4
  <1>11. RefusedHasCause'
    <2>1. SUFFICES ASSUME NEW q \in ClientRequests, request'[q] = "block"
                   PROVE  Cardinality({m \in admitted' : stamp[m] > stamp[q] - Window}) >= Limit
      BY <1>1 DEF RefusedHasCause
    <2> DEFINE new == {m \in admitted' : stamp[m] > stamp[q] - Window}
    <2>2. \A T \in SUBSET new : Cardinality(T) \in Nat /\ Cardinality(T) <= Cardinality(new)
      BY <1>2, Finite
    <2>3. Cardinality(new) \in Nat
      BY <1>2, Finite
    <2>4. CASE q # r
      <3>1. Cardinality({m \in admitted : stamp[m] > stamp[q] - Window}) >= Limit
        BY <1>1, <1>4, <2>1, <2>4 DEF RefusedHasCause
      <3>2. {m \in admitted : stamp[m] > stamp[q] - Window} \subseteq new
        BY <1>1
      <3> HIDE DEF new
      <3> QED
        BY <1>2, <2>2, <2>3, <3>1, <3>2 DEF new
    <2>5. CASE q = r
      <3>1. ~(Cardinality(Kept(r)) < Limit)
        BY <1>4, <2>1, <2>5 DEF UnderLimit
      <3>2. Kept(r) \subseteq new
        BY <1>1, <1>3, <2>5 DEF Kept
      <3>3. Cardinality(Kept(r)) \in Nat /\ Cardinality(Kept(r)) <= Cardinality(new)
        BY <2>2, <3>2
      <3> QED
        BY <1>2, <2>3, <3>1, <3>3
    <2> QED
      BY <2>4, <2>5
  <1>12. Cardinality(members') <= Limit
    <2>1. Kept(r) \subseteq ClientRequests /\ members \subseteq ClientRequests
      BY <1>2, <1>3, <1>1 DEF LimitTypeOK
    <2>2. IsFiniteSet(Kept(r)) /\ Cardinality(Kept(r)) \in Nat
      BY <2>1, Finite
    <2>3. Cardinality(members) \in Nat /\ Cardinality(Kept(r)) <= Cardinality(members)
      BY <1>3, <2>1, Finite
    <2>4. CASE UnderLimit(r)
      <3>1. r \notin Kept(r)
        BY <1>1, <1>3
      <3>2. Cardinality(Kept(r) \cup {r}) = Cardinality(Kept(r)) + 1
        BY <2>2, <3>1, FS_AddElement
      <3> QED
        BY <1>1, <1>2, <2>2, <2>4, <3>2 DEF Recorded, UnderLimit
    <2>5. CASE ~UnderLimit(r)
      BY <1>1, <1>2, <2>2, <2>3, <2>5 DEF Recorded, LimitInv
    <2> QED
      BY <2>4, <2>5
  <1> QED
    BY <1>5, <1>6, <1>9, <1>10, <1>11, <1>12 DEF LimitInv

-----------------------------------------------------------------------------
(* The invariant holds of every behaviour.                                 *)
THEOREM LimitInvariant == LimitSpec => []LimitInv
  <1>1. LimitInv /\ [LimitNext]_limitVars => LimitInv'
    <2>1. ASSUME LimitInv, UNCHANGED limitVars PROVE LimitInv'
      <3>1. LimitTypeOK' /\ Answered' /\ Remembered' /\ Cardinality(members') <= Limit
        BY <2>1 DEF LimitInv, LimitTypeOK, Answered, Remembered, limitVars
      <3>2. CapHolds' /\ RefusedHasCause'
        BY <2>1, SameWindows DEF limitVars
      <3> QED
        BY <3>1, <3>2 DEF LimitInv
    <2> QED
      BY <2>1, OtherSteps, ScriptStep DEF LimitNext
  <1> QED
    BY <1>1, InitLimitInv, PTL DEF LimitSpec

(* No window holds more than Limit requests that the script let through,   *)
(* wherever it starts, as long as none was late: trimming to the window    *)
(* and expiring the key forget nothing that still counts.                  *)
THEOREM CapIsKept == LimitSpec => []CapHolds
  BY LimitInvariant, PTL DEF LimitInv

(* A request is only refused when Limit requests younger than a window     *)
(* were let through, however late it or they reached the script.           *)
THEOREM RefusalsHaveCause == LimitSpec => []RefusedHasCause
  BY LimitInvariant, PTL DEF LimitInv

-----------------------------------------------------------------------------
(***************************************************************************)
(* Late requests.  A window that is over holds, first, what was let        *)
(* through before its end, which the set held together at that moment,     *)
(* and second, what came late.  While more may come late, the set still    *)
(* holds the second part: to forget one of it takes a request that is      *)
(* younger by a window, or a window without any, and by then it is too     *)
(* late for the others.                                                    *)
(***************************************************************************)
TwoParts(t, first) ==
    LET second == AdmittedIn(t) \ first
    IN  /\ Cardinality(first) <= Limit
        /\ Cardinality(second) <= Limit
        /\ clock <= t + MaxDelay => \A m \in second :
              m \in members /\ stamp[m] > t - MaxDelay /\ expires > t + Window

LateInv == \A t \in 0..MaxTime : t < clock =>
    \E first \in SUBSET AdmittedIn(t) : TwoParts(t, first)

(* Until a window is over, the set holds all that was let through in it.   *)
LEMMA WindowInSet ==
  ASSUME LimitInv, NEW t \in 0..MaxTime, clock <= t
  PROVE  AdmittedIn(t) \subseteq members /\ Cardinality(AdmittedIn(t)) <= Limit
  <1>1. /\ clock \in Nat /\ Window \in Nat /\ Limit \in Nat /\ members \subseteq ClientRequests
        /\ Remembered /\ Cardinality(members) <= Limit
        /\ \A m \in admitted : stamp[m] \in Nat
    BY RateAssumption DEF LimitInv, LimitTypeOK
  <1>2. AdmittedIn(t) \subseteq members
    BY <1>1 DEF AdmittedIn, Remembered
  <1>3. /\ Cardinality(members) \in Nat /\ Cardinality(AdmittedIn(t)) \in Nat
        /\ Cardinality(AdmittedIn(t)) <= Cardinality(members)
    BY <1>1, <1>2, Finite
  <1> QED
    BY <1>1, <1>2, <1>3

(* A step that lets nothing through.                                       *)
LEMMA LateOtherSteps ==
  ASSUME LimitInv, LateInv, MaxDelay \in Nat,
         Tick \/ (\E r \in ClientRequests : Send(r) \/ FailOpen(r)) \/ UNCHANGED limitVars
  PROVE  LateInv'
  <1>1. /\ UNCHANGED <<members, expires, admitted>>
        /\ clock' \in {clock, clock + 1} /\ clock \in Nat
        /\ \A m \in admitted : stamp'[m] = stamp[m]
    BY DEF LimitInv, LimitTypeOK, Answered, Tick, Send, FailOpen, limitVars
  <1>2. \A t : AdmittedIn(t)' = AdmittedIn(t)
    BY <1>1 DEF AdmittedIn
  <1>3. SUFFICES ASSUME NEW t \in 0..MaxTime, t < clock'
                 PROVE  \E first \in SUBSET AdmittedIn(t) : TwoParts(t, first)'
    BY <1>2 DEF LateInv
  <1>4. CASE t < clock
    <2>1. PICK first \in SUBSET AdmittedIn(t) : TwoParts(t, first)
      BY <1>4 DEF LateInv
    <2>2. clock' <= t + MaxDelay => clock <= t + MaxDelay
      BY <1>1
    <2>3. \A m \in AdmittedIn(t) : stamp'[m] = stamp[m]
      BY <1>1 DEF AdmittedIn
    <2>4. TwoParts(t, first)'
      BY <1>1, <1>2, <2>1, <2>2, <2>3 DEF TwoParts
    <2> QED
      BY <2>4
  <1>5. CASE ~(t < clock)
    <2>1. clock <= t
      BY <1>1, <1>5
    <2>2. Cardinality(AdmittedIn(t)) <= Limit
      BY <2>1, WindowInSet
    <2>3. AdmittedIn(t) \ AdmittedIn(t) = {} /\ Cardinality({}) <= Limit
      BY FS_EmptySet, RateAssumption
    <2>4. PICK first \in SUBSET AdmittedIn(t) : first = AdmittedIn(t)
      OBVIOUS
    <2>5. TwoParts(t, first)'
      BY <1>2, <2>2, <2>3, <2>4 DEF TwoParts
    <2> QED
      BY <2>5
  <1> QED
    BY <1>4, <1>5

(* The script.  A request of the window finds the second part in the set,  *)
(* and joins it; another one leaves it there.                              *)
LEMMA LateScriptStep ==
  ASSUME LimitInv, LateInv, 2 * MaxDelay <= Window, NEW r \in ClientRequests, Script(r)
  PROVE  LateInv'
  <1>1. /\ LimitTypeOK /\ Answered /\ request[r] = "sent" /\ r \notin admitted
        /\ clock - stamp[r] <= MaxDelay /\ stamp[r] <= clock
        /\ members' = Recorded(r) /\ expires' = clock + Window
        /\ admitted' = IF UnderLimit(r) THEN admitted \cup {r} ELSE admitted
        /\ UNCHANGED <<clock, stamp>>
    BY DEF LimitInv, Script, Expiry, Answered
  <1>2. /\ clock \in Nat /\ Window \in Nat \ {0} /\ expires \in Nat /\ Limit \in Nat \ {0}
        /\ MaxDelay \in Nat /\ \A m \in ClientRequests : stamp[m] \in Nat
        /\ admitted \subseteq ClientRequests
    BY <1>1, RateAssumption DEF LimitTypeOK
  <1>3. SUFFICES ASSUME NEW t \in 0..MaxTime, t < clock
                 PROVE  \E first \in SUBSET (AdmittedIn(t)') : TwoParts(t, first)'
    BY <1>1 DEF LateInv
  <1>4. PICK first \in SUBSET AdmittedIn(t) : TwoParts(t, first)
    BY <1>3 DEF LateInv
  <1>5. PICK second : second = AdmittedIn(t) \ first
    OBVIOUS
  <1>6. PICK second2 : second2 = AdmittedIn(t)' \ first
    OBVIOUS
  <1>7. /\ AdmittedIn(t) \subseteq AdmittedIn(t)' /\ AdmittedIn(t) \subseteq admitted
        /\ AdmittedIn(t)' \subseteq AdmittedIn(t) \cup {r}
        /\ r \in AdmittedIn(t)' => UnderLimit(r) /\ stamp[r] <= t
    BY <1>1 DEF AdmittedIn
  <1>8. /\ Cardinality(first) <= Limit /\ Cardinality(second) <= Limit
        /\ clock <= t + MaxDelay => \A m \in second :
              m \in members /\ stamp[m] > t - MaxDelay /\ expires > t + Window
    BY <1>4, <1>5 DEF TwoParts
  <1>9. second \subseteq ClientRequests /\ Kept(r) \subseteq ClientRequests /\ r \notin second
        /\ second \subseteq second2 /\ second2 \subseteq second \cup {r}
    BY <1>1, <1>2, <1>5, <1>6, <1>7 DEF Kept, Unexpired, LimitTypeOK
  <1>10. ASSUME clock <= t + MaxDelay PROVE second \subseteq Kept(r)
    <2>1. ASSUME NEW m \in second PROVE m \in Kept(r)
      <3>1. m \in members /\ stamp[m] > t - MaxDelay /\ expires > t + Window
        BY <1>8, <1>10
      <3>2. stamp[m] \in Nat /\ stamp[r] \in Nat
        BY <1>2, <1>9
      <3>3. clock < expires
        BY <1>2, <1>10, <3>1
      <3>4. stamp[m] > stamp[r] - Window
        BY <1>1, <1>2, <1>10, <3>1, <3>2
      <3> QED
        BY <3>1, <3>3, <3>4 DEF Kept, Unexpired
    <2> QED
      BY <2>1
  <1>11. r \in second2 => clock <= t + MaxDelay /\ stamp[r] > t - MaxDelay /\ UnderLimit(r)
    <2>1. r \in second2 => UnderLimit(r)
      BY <1>1, <1>6, <1>7
    <2>2. ASSUME r \in second2 PROVE clock <= t + MaxDelay /\ stamp[r] > t - MaxDelay
      <3>1. stamp[r] <= t /\ clock - stamp[r] <= MaxDelay
        BY <1>1, <1>6, <1>7, <2>2
      <3>2. clock \in Nat /\ MaxDelay \in Nat /\ stamp[r] \in Nat /\ t \in Nat /\ t < clock
        BY <1>2, <1>3
      <3> QED
        BY <3>1, <3>2
    <2> QED
      BY <2>1, <2>2
  <1>12. Cardinality(second2) <= Limit
    <2>1. CASE r \in second2
      <3>1. second \subseteq Kept(r) /\ UnderLimit(r) /\ second2 = second \cup {r}
        BY <1>9, <1>10, <1>11, <2>1
      <3>2. /\ IsFiniteSet(second) /\ Cardinality(second) \in Nat /\ Cardinality(Kept(r)) \in Nat
            /\ Cardinality(second) <= Cardinality(Kept(r))
        BY <1>9, <3>1, Finite
      <3>3. Cardinality(second2) = Cardinality(second) + 1
        BY <1>9, <3>1, <3>2, FS_AddElement
      <3> QED
        BY <1>2, <3>1, <3>2, <3>3 DEF UnderLimit
    <2>2. CASE r \notin second2
      <3>1. second2 = second
        BY <1>9, <2>2
      <3> QED
        BY <1>8, <3>1
    <2> QED
      BY <2>1, <2>2
  <1>13. ASSUME clock <= t + MaxDelay, NEW m \in second2
         PROVE  m \in members' /\ stamp[m] > t - MaxDelay /\ expires' > t + Window
    <2>1. expires' > t + Window
      BY <1>1, <1>2, <1>3
    <2>2. CASE m \in second
      BY <1>1, <1>8, <1>10, <1>13, <2>1, <2>2 DEF Recorded
    <2>3. CASE m = r
      BY <1>1, <1>11, <1>13, <2>1, <2>3 DEF Recorded
    <2> QED
      BY <1>9, <1>13, <2>2, <2>3
  <1>14. TwoParts(t, first)'
    BY <1>1, <1>6, <1>8, <1>12, <1>13 DEF TwoParts
  <1> QED
    BY <1>7, <1>14

(* Two parts of Limit each are twice the limit.                            *)
LEMMA TwoPartsFit ==
  ASSUME LimitInv, LateInv, NEW t \in 0..MaxTime
  PROVE  Cardinality(AdmittedIn(t)) <= 2 * Limit
  <1>1. clock \in Nat /\ Limit \in Nat /\ AdmittedIn(t) \subseteq ClientRequests
    BY RateAssumption DEF LimitInv, LimitTypeOK, AdmittedIn
  <1>2. CASE clock <= t
    <2>1. Cardinality(AdmittedIn(t)) <= Limit /\ Cardinality(AdmittedIn(t)) \in Nat
      BY <1>1, <1>2, WindowInSet, Finite
    <2> QED
      BY <1>1, <2>1
  <1>3. CASE t < clock
    <2>1. PICK first \in SUBSET AdmittedIn(t) : TwoParts(t, first)
      BY <1>3 DEF LateInv
    <2>2. PICK second \in SUBSET AdmittedIn(t) : second = AdmittedIn(t) \ first
      OBVIOUS
    <2>3. Cardinality(first) <= Limit /\ Cardinality(second) <= Limit
      BY <2>1, <2>2 DEF TwoParts
    <2>4. /\ IsFiniteSet(first) /\ Cardinality(first) \in Nat
          /\ IsFiniteSet(second) /\ Cardinality(second) \in Nat
      BY <1>1, Finite
    <2>5. Cardinality(first \cap second) = 0
      BY <2>2, FS_EmptySet
    <2>6. Cardinality(first \cup second) = Cardinality(first) + Cardinality(second) - 0
      BY <2>4, <2>5, FS_Union
    <2>7. first \cup second = AdmittedIn(t)
      BY <2>2
    <2> QED
      BY <1>1, <2>3, <2>4, <2>6, <2>7
  <1> QED
    BY <1>1, <1>2, <1>3

(* Whatever overtakes and however the key expires, no window holds more    *)
(* than twice the limit, if requests travel for half a window at most.     *)
THEOREM TwiceTheCap == LimitSpec => []AtMostTwice
  <1>1. CASE 2 * MaxDelay <= Window
    <2>1. LimitInit => LateInv
      BY RateAssumption DEF LimitInit, LateInv
    <2>2. LimitInv /\ LateInv /\ [LimitNext]_limitVars => LateInv'
      BY <1>1, RateAssumption, LateOtherSteps, LateScriptStep DEF LimitNext
    <2>3. LimitInv /\ LateInv => AtMostTwice
      BY TwoPartsFit DEF AtMostTwice
    <2> QED
      BY <2>1, <2>2, <2>3, LimitInvariant, PTL DEF LimitSpec
  <1>2. CASE ~(2 * MaxDelay <= Window)
    <2>1. AtMostTwice
      BY <1>2 DEF AtMostTwice
    <2> QED
      BY <2>1, PTL
  <1> QED
    BY <1>1, <1>2
=============================================================================
