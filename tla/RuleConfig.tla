----------------------------- MODULE RuleConfig -----------------------------
(***************************************************************************)
(* A configuration change, from the dashboard to the rules in force.       *)
(*                                                                         *)
(* A handler of the dashboard has the change recorded by the engine, then  *)
(* writes it to the rules or the ip_rules table, then notifies the engine  *)
(* over Redis.  The engine reloads both tables when it starts, when it is  *)
(* notified and on a timer, one reload at a time.  Handlers run            *)
(* concurrently and may end at any point, with the request's context or    *)
(* with the dashboard; a call may fail, also after it has taken effect;    *)
(* notifications get lost; the engine may end and start again.             *)
(***************************************************************************)
EXTENDS Integers, FiniteSets, Sequences, SequencesExt

CONSTANTS
    Rules,      \* The rules of the chain, which are the rows of table rules.
    CIDRs,      \* The prefixes that may be rows of ip_rules.
    Requests,   \* The requests of operators.
    What,       \* The change each request asks for.
    MayFail,    \* The calls that may fail: "audit", "store", "read".
    MaxPending  \* The capacity of the channel SubscribeControl returns.

Change ==
    [table : {"rules"}, name : STRING, enabled : BOOLEAN]
        \cup [table : {"ip"}, cidr : CIDRs, action : {"allow", "deny", "delete"}]

ASSUME ConfigAssumption ==
    /\ Rules \subseteq STRING
    /\ What \in [Requests -> Change]
    /\ MayFail \subseteq {"audit", "store", "read"}
    /\ MaxPending \in Nat \ {0}

VARIABLES
    request,    \* The point the handler of each request has reached.
    recorded,   \* The admin entries of the audit log, in order.
    applied,    \* History: the requests whose change reached the store.
    overlapped, \* History: the rows with two changes under way at once.
    rules,      \* Table rules: its contents over time, the last is current.
    access,     \* Table ip_rules, likewise.
    engine,     \* "down", "starting" (the first reload) or "serving".
    reload,     \* The point applyConfig has reached.
    fetched,    \* What applyConfig has read and not yet put in force.
    enabled,    \* Engine.enabled, with the version of the table it comes from.
    list,       \* IPBlock.allow and deny, likewise.
    pending     \* The notifications that wait in the channel.

dashboardVars == <<request, recorded, applied, overlapped, rules, access>>
engineVars == <<engine, reload, fetched, enabled, list>>
vars == <<dashboardVars, engineVars, pending>>

(* The row a change is about, and what it puts there.                      *)
Row(c) == IF c.table = "rules" THEN <<"rules", c.name>> ELSE <<"ip", c.cidr>>
Value(c) == IF c.table = "rules" THEN c.enabled
            ELSE IF c.action = "delete" THEN "none" ELSE c.action
InTable(row) == IF row[1] = "rules" THEN Last(rules)[row[2]] ELSE Last(access)[row[2]]

Table == [Rules -> BOOLEAN]
AccessTable == [CIDRs -> {"none", "allow", "deny"}]
Lists == [allow : SUBSET CIDRs, deny : SUBSET CIDRs]

(* SetEnabled keeps the rules of the chain; Set sorts prefixes by action.  *)
(* Mutant: everything that is not to be denied is allowed.                 *)
InForce(rows) == [r \in Rules |-> rows[r]]
SortedByDeny(rows) == [allow |-> {p \in CIDRs : rows[p] # "deny"},
                       deny  |-> {p \in CIDRs : rows[p] = "deny"}]
Sorted(rows) == [allow |-> {p \in CIDRs : rows[p] = "allow"},
                 deny  |-> {p \in CIDRs : rows[p] = "deny"}]

(* What an engine enforces before its first reload: New, NewIPBlock.       *)
NewEnabled == [version |-> 0, rows |-> [r \in Rules |-> TRUE]]
NewList == [version |-> 0, rows |-> [allow |-> {}, deny |-> {}]]

TypeOK ==
    /\ request \in [Requests ->
         {"new", "queued", "recorded", "stored", "refused", "failed", "notfound", "done"}]
    /\ recorded \in Seq(Requests)
    /\ applied \subseteq Requests
    /\ overlapped \subseteq {Row(What[q]) : q \in Requests}
    /\ rules \in Seq(Table) /\ access \in Seq(AccessTable)
    /\ engine \in {"down", "starting", "serving"}
    /\ reload \in {"none", "readRules", "setRules", "readList", "setList"}
    /\ fetched \in Nat
    /\ enabled \in [version : Nat, rows : Table]
    /\ list \in [version : Nat, rows : Lists]
    /\ pending \in 0..MaxPending

Init ==
    /\ request = [q \in Requests |-> "new"]
    /\ recorded = <<>>
    /\ applied = {}
    /\ overlapped = {}
    /\ rules = <<[r \in Rules |-> TRUE]>>
    /\ \E rows \in AccessTable : access = <<rows>>
    /\ engine = "down"
    /\ reload = "none"
    /\ fetched = 0
    /\ enabled = NewEnabled
    /\ list = NewList
    /\ pending = 0

-----------------------------------------------------------------------------
(***************************************************************************)
(* The dashboard: handlePatchRule, handleAddIPRule, handleDeleteIPRule.    *)
(***************************************************************************)

(* What the handler does about a failed RecordAdmin.  Mutant: it logs the  *)
(* error and goes on.                                                      *)
AfterUnrecorded == "recorded"
AfterAuditError == "refused"

(* The row of q, if a change of it is recorded and not yet stored.         *)
Meets(q) == {Row(What[p]) : p \in {p \in Requests : request[p] = "recorded"}}
                \cap {Row(What[q])}

(* RecordAdmin returns nil only once the engine's RecordSync has stored    *)
(* the entry.  It returns an error when the engine refused or could not be *)
(* reached, and also when a deadline passed with the entry in the queue.   *)
Record(q) ==
    /\ request[q] = "new"
    /\ \/ /\ engine = "serving"
          /\ recorded' = Append(recorded, q)
          /\ request' = [request EXCEPT ![q] = "recorded"]
          /\ overlapped' = overlapped \cup Meets(q)
       \/ /\ engine = "serving" => "audit" \in MayFail
          /\ request' = [request EXCEPT ![q] = AfterAuditError]
          /\ UNCHANGED <<recorded, overlapped>>
       \/ /\ engine = "serving" /\ "audit" \in MayFail
          /\ request' = [request EXCEPT ![q] = "queued"]
          /\ UNCHANGED <<recorded, overlapped>>
    /\ UNCHANGED <<applied, rules, access, engineVars, pending>>

(* The engine stores the entry of a caller that has been refused.          *)
RecordLate(q) ==
    /\ request[q] = "queued"
    /\ recorded' = Append(recorded, q)
    /\ request' = [request EXCEPT ![q] = "refused"]
    /\ UNCHANGED <<applied, overlapped, rules, access, engineVars, pending>>

(* There is a row to change: UPDATE and DELETE may find none.              *)
Exists(c) ==
    IF c.table = "rules" THEN c.name \in Rules
    ELSE c.action # "delete" \/ Last(access)[c.cidr] # "none"

(* SetEnabled, AddIPRule (insert or replace) and DeleteIPRule.             *)
Write(q) ==
    LET c == What[q]
    IN  /\ applied' = applied \cup {q}
        /\ \/ /\ c.table = "rules"
              /\ rules' = Append(rules, [Last(rules) EXCEPT ![c.name] = Value(c)])
              /\ UNCHANGED access
           \/ /\ c.table = "ip"
              /\ access' = Append(access, [Last(access) EXCEPT ![c.cidr] = Value(c)])
              /\ UNCHANGED rules

(* The statement takes effect, finds no row, or fails; a failure may hide  *)
(* that it took effect.  Only a success goes on to the notification.       *)
Store(q) ==
    /\ request[q] = "recorded"
    /\ \/ /\ Exists(What[q])
          /\ Write(q)
          /\ \/ request' = [request EXCEPT ![q] = "stored"]
             \/ "store" \in MayFail /\ request' = [request EXCEPT ![q] = "failed"]
       \/ /\ ~Exists(What[q])
          /\ request' = [request EXCEPT ![q] = "notfound"]
          /\ UNCHANGED <<applied, rules, access>>
       \/ /\ "store" \in MayFail
          /\ request' = [request EXCEPT ![q] = "failed"]
          /\ UNCHANGED <<applied, rules, access>>
    /\ UNCHANGED <<recorded, overlapped, engineVars, pending>>

(* The channel takes a message without blocking.                           *)
Room == pending < MaxPending

(* notifyEngine: the message reaches the channel of watchConfig unless     *)
(* Publish fails, Redis has no subscriber at that moment, or the channel   *)
(* is full or closed.  The handler answers with success in any case.       *)
Notify(q) ==
    /\ request[q] = "stored"
    /\ request' = [request EXCEPT ![q] = "done"]
    /\ \/ /\ engine = "serving" /\ Room
          /\ pending' = pending + 1
       \/ UNCHANGED pending
    /\ UNCHANGED <<recorded, applied, overlapped, rules, access, engineVars>>

-----------------------------------------------------------------------------
(***************************************************************************)
(* The engine: run, applyConfig, watchConfig.                              *)
(***************************************************************************)
Start ==
    /\ engine = "down"
    /\ engine' = "starting"
    /\ reload' = "readRules"
    /\ enabled' = NewEnabled
    /\ list' = NewList
    /\ UNCHANGED <<dashboardVars, fetched, pending>>

(* The process ends, and with it what waits in its queues.                 *)
Crash ==
    /\ engine # "down"
    /\ engine' = "down"
    /\ reload' = "none"
    /\ fetched' = 0
    /\ pending' = 0
    /\ request' = [q \in Requests |->
                     IF request[q] = "queued" THEN "refused" ELSE request[q]]
    /\ UNCHANGED <<recorded, applied, overlapped, rules, access, enabled, list>>

(* applyConfig: EnabledMap is read; an error keeps the chain as it is.     *)
ReadRules ==
    /\ reload = "readRules"
    /\ reload' = "setRules"
    /\ fetched' = Len(rules)
    /\ UNCHANGED <<dashboardVars, engine, enabled, list, pending>>

ReadRulesFails ==
    /\ reload = "readRules"
    /\ "read" \in MayFail
    /\ reload' = "readList"
    /\ UNCHANGED <<dashboardVars, engine, fetched, enabled, list, pending>>

(* chain.SetEnabled.                                                       *)
SetRules ==
    /\ reload = "setRules"
    /\ enabled' = [version |-> fetched, rows |-> InForce(rules[fetched])]
    /\ reload' = "readList"
    /\ UNCHANGED <<dashboardVars, engine, fetched, list, pending>>

ReadList ==
    /\ reload = "readList"
    /\ reload' = "setList"
    /\ fetched' = Len(access)
    /\ UNCHANGED <<dashboardVars, engine, enabled, list, pending>>

(* The reload is over.  The first one is followed by the subscription and  *)
(* the HTTP server.                                                        *)
Reloaded == reload' = "none" /\ engine' = "serving"

(* Mutant: the nil slice of the failed call reaches Set.                   *)
ReadListClears ==
    /\ reload = "readList"
    /\ "read" \in MayFail
    /\ Reloaded
    /\ list' = NewList
    /\ UNCHANGED <<dashboardVars, fetched, enabled, pending>>

ReadListFails ==
    /\ reload = "readList"
    /\ "read" \in MayFail
    /\ Reloaded
    /\ UNCHANGED <<dashboardVars, fetched, enabled, list, pending>>

(* ipBlock.Set.                                                            *)
SetList ==
    /\ reload = "setList"
    /\ list' = [version |-> fetched, rows |-> Sorted(access[fetched])]
    /\ Reloaded
    /\ UNCHANGED <<dashboardVars, fetched, enabled, pending>>

(* watchConfig: a notification, or the ticker, starts a reload.            *)
Notified ==
    /\ engine = "serving"
    /\ reload = "none"
    /\ pending > 0
    /\ pending' = pending - 1
    /\ reload' = "readRules"
    /\ UNCHANGED <<dashboardVars, engine, fetched, enabled, list>>

(* Mutant: no ticker.                                                      *)
NoTicker == FALSE

Ticker ==
    /\ engine = "serving"
    /\ reload = "none"
    /\ reload' = "readRules"
    /\ UNCHANGED <<dashboardVars, engine, fetched, enabled, list, pending>>

Handler(q) == Record(q) \/ RecordLate(q) \/ Store(q) \/ Notify(q)

Reload ==
    \/ ReadRules \/ ReadRulesFails \/ SetRules
    \/ ReadList \/ ReadListFails \/ SetList

Next ==
    \/ \E q \in Requests : Handler(q)
    \/ Start \/ Crash \/ Notified \/ Ticker \/ Reload

Spec == Init /\ [][Next]_vars

(***************************************************************************)
(* The engine's goroutine runs; select does not ignore a ticker for ever;  *)
(* and a query that is issued again and again succeeds in the end.         *)
(***************************************************************************)
Fairness ==
    /\ WF_vars(Reload)
    /\ WF_vars(Notified \/ Ticker)
    /\ SF_vars(ReadRules)
    /\ SF_vars(ReadList)

FairSpec == Spec /\ Fairness

-----------------------------------------------------------------------------
(***************************************************************************)
(* Whatever the engine enforces has a trail: a rule is off only if the log *)
(* holds the entry that turned it off, and a prefix is allowed or denied   *)
(* only if it was when the log began or an entry made it so.  This is what *)
(* refuseUnaudited and "keeping the current chain" are for: no change that *)
(* could not be recorded, and no failed read, ever reaches the chain.      *)
(***************************************************************************)
Trail(change) == \E i \in DOMAIN recorded : What[recorded[i]] = change

EnforcedIsRecorded ==
    /\ \A r \in Rules : enabled.rows[r]
          \/ Trail([table |-> "rules", name |-> r, enabled |-> FALSE])
    /\ \A p \in list.rows.allow : access[1][p] = "allow"
          \/ Trail([table |-> "ip", cidr |-> p, action |-> "allow"])
    /\ \A p \in list.rows.deny : access[1][p] = "deny"
          \/ Trail([table |-> "ip", cidr |-> p, action |-> "deny"])

(***************************************************************************)
(* "Recorded before it is applied": the log tells how a row came to be.    *)
(* Every change that was made is in the log, and the one the log holds     *)
(* last for a row is the row's value, unless two changes of the row were   *)
(* under way at the same time: their statements may run in either order.   *)
(***************************************************************************)
Latest(i) == \A j \in i + 1 .. Len(recorded) :
                recorded[j] \in applied => Row(What[recorded[j]]) # Row(What[recorded[i]])

LogTellsTables ==
    \A q \in applied : \E i \in DOMAIN recorded :
        /\ recorded[i] = q
        /\ Latest(i) /\ Row(What[q]) \notin overlapped =>
              InTable(Row(What[q])) = Value(What[q])

(***************************************************************************)
(* While an engine serves, what it enforces never gets older: applyConfig  *)
(* runs in one goroutine, and a failed read keeps what is there.           *)
(***************************************************************************)
NeverOlder ==
    [][engine # "down" /\ engine' # "down" =>
         enabled'.version >= enabled.version /\ list'.version >= list.version]_vars

(***************************************************************************)
(* "The change lands late rather than never" (notifyEngine): an engine     *)
(* that stays up ends with both tables in force as they are, although      *)
(* notifications are lost and reads fail.  The requests are finitely many, *)
(* so the tables come to rest.                                             *)
(***************************************************************************)
UpToDate == enabled.version = Len(rules) /\ list.version = Len(access)

ChangesLand == <>[](engine # "down") => <>[]UpToDate
=============================================================================
