-------------------------- MODULE RuleConfigProofs --------------------------
(***************************************************************************)
(* Proofs about RuleConfig, for any rules, prefixes and requests, and any  *)
(* number of failures, crashes and lost notifications.                     *)
(***************************************************************************)
EXTENDS RuleConfig, TLAPS

(* The log holds an entry of a change.                                     *)
Entered(change, log) == \E i \in DOMAIN log : What[log[i]] = change
TurnsOff(r) == [table |-> "rules", name |-> r, enabled |-> FALSE]
Lets(p, action) == [table |-> "ip", cidr |-> p, action |-> action]

(* Contents of the tables that a log accounts for, if it began with a list.*)
RulesTraced(rows, log) == \A r \in Rules : rows[r] \/ Entered(TurnsOff(r), log)

Cause(p, action, first, log) == first[p] = action \/ Entered(Lets(p, action), log)

AccessTraced(rows, first, log) ==
    \A p \in CIDRs, action \in {"allow", "deny"} : rows[p] = action => Cause(p, action, first, log)

ListTraced(rows, first, log) ==
    /\ \A p \in rows.allow : Cause(p, "allow", first, log)
    /\ \A p \in rows.deny : Cause(p, "deny", first, log)

(* The strengthening: a handler that is about to store has its entry in    *)
(* the log, so all that the tables ever held is accounted for; and what    *)
(* applyConfig has read is a version of the table, no older than the one   *)
(* in force.                                                               *)
Points == {"new", "queued", "recorded", "stored", "refused", "failed", "notfound", "done"}

Types ==
    /\ request \in [Requests -> Points]
    /\ recorded \in Seq(Requests)
    /\ rules \in Seq(Table) /\ Len(rules) >= 1
    /\ access \in Seq(AccessTable) /\ Len(access) >= 1
    /\ fetched \in Nat /\ enabled.version \in Nat /\ list.version \in Nat

Logged == \A q \in Requests : request[q] = "recorded" => \E i \in DOMAIN recorded : recorded[i] = q

TablesTraced ==
    /\ \A i \in 1..Len(rules) : RulesTraced(rules[i], recorded)
    /\ \A i \in 1..Len(access) : AccessTraced(access[i], access[1], recorded)

EngineTraced ==
    /\ RulesTraced(enabled.rows, recorded)
    /\ ListTraced(list.rows, access[1], recorded)

Fetched ==
    /\ enabled.version <= Len(rules) /\ list.version <= Len(access)
    /\ reload = "setRules" => enabled.version <= fetched /\ fetched \in 1..Len(rules)
    /\ reload = "setList" => list.version <= fetched /\ fetched \in 1..Len(access)

IInv == Types /\ Logged /\ TablesTraced /\ EngineTraced /\ Fetched

-----------------------------------------------------------------------------
(* Nothing is unaccounted for in a longer log.                             *)
LEMMA LongerLog ==
  ASSUME NEW log \in Seq(Requests), NEW q \in Requests, NEW longer,
         longer = log \/ longer = Append(log, q)
  PROVE  /\ longer \in Seq(Requests)
         /\ \A p : (\E i \in DOMAIN log : log[i] = p) => \E i \in DOMAIN longer : longer[i] = p
         /\ \A rows : RulesTraced(rows, log) => RulesTraced(rows, longer)
         /\ \A rows, first : AccessTraced(rows, first, log) => AccessTraced(rows, first, longer)
         /\ \A rows, first : ListTraced(rows, first, log) => ListTraced(rows, first, longer)
  <1>1. longer \in Seq(Requests) /\ \A i \in DOMAIN log : i \in DOMAIN longer /\ longer[i] = log[i]
    OBVIOUS
  <1>2. \A change : Entered(change, log) => Entered(change, longer)
    BY <1>1 DEF Entered
  <1>3. \A p, action, first : Cause(p, action, first, log) => Cause(p, action, first, longer)
    BY <1>2 DEF Cause
  <1> QED
    BY <1>1, <1>2, <1>3 DEF RulesTraced, AccessTraced, ListTraced

(* A table that is written keeps its history.                              *)
LEMMA LongerTable ==
  ASSUME NEW S, NEW table \in Seq(S), Len(table) >= 1, NEW rows \in S
  PROVE  /\ Append(table, rows) \in Seq(S) /\ Len(Append(table, rows)) = Len(table) + 1
         /\ \A i \in 1..Len(table) : Append(table, rows)[i] = table[i]
         /\ Append(table, rows)[Len(table) + 1] = rows
         /\ Last(table) \in S /\ Last(table) = table[Len(table)]
  BY DEF Last

(* At the start, rules are on and the list is the one that was there.      *)
LEMMA InitIInv == Init => IInv
  <1> SUFFICES ASSUME Init PROVE IInv
    OBVIOUS
  <1>1. PICK rows \in AccessTable : access = <<rows>>
    BY DEF Init
  <1>2. Types /\ Fetched /\ Logged
    BY <1>1 DEF Init, Points, Types, Fetched, Logged, NewEnabled, NewList, Table
  <1>3. TablesTraced /\ EngineTraced
    BY <1>1 DEF Init, TablesTraced, EngineTraced, RulesTraced, AccessTraced, ListTraced, Cause,
                NewEnabled, NewList
  <1> QED
    BY <1>2, <1>3 DEF IInv

-----------------------------------------------------------------------------
(***************************************************************************)
(* The dashboard.                                                          *)
(***************************************************************************)

(* An entry may be added to the log, and only with it is a handler past    *)
(* the record.                                                             *)
LEMMA RecordStep ==
  ASSUME IInv, NEW q \in Requests, Record(q) \/ RecordLate(q) \/ Notify(q)
  PROVE  IInv'
  <1>1. /\ recorded' = recorded \/ recorded' = Append(recorded, q)
        /\ \A p \in Requests : request'[p] = "recorded" =>
              request[p] = "recorded" \/ (p = q /\ recorded' = Append(recorded, q))
        /\ request' \in [Requests -> Points]
        /\ UNCHANGED <<rules, access, engineVars>>
    <2>0. request \in [Requests -> Points]
      BY DEF IInv, Types
    <2>1. CASE Record(q)
      BY <2>0, <2>1 DEF Record, AfterAuditError, Points
    <2>2. CASE RecordLate(q)
      BY <2>0, <2>2 DEF RecordLate, Points
    <2>3. CASE Notify(q)
      BY <2>0, <2>3 DEF Notify, Points
    <2> QED
      BY <2>1, <2>2, <2>3
  <1>2. recorded \in Seq(Requests)
    BY DEF IInv, Types
  <1>3. /\ recorded' \in Seq(Requests)
        /\ \A p : (\E i \in DOMAIN recorded : recorded[i] = p) =>
              \E i \in DOMAIN recorded' : recorded'[i] = p
        /\ \A rows : RulesTraced(rows, recorded) => RulesTraced(rows, recorded')
        /\ \A rows, first : AccessTraced(rows, first, recorded) => AccessTraced(rows, first, recorded')
        /\ \A rows, first : ListTraced(rows, first, recorded) => ListTraced(rows, first, recorded')
    BY <1>1, <1>2, LongerLog
  <1>4. recorded' = Append(recorded, q) => \E i \in DOMAIN recorded' : recorded'[i] = q
    <2> SUFFICES ASSUME recorded' = Append(recorded, q)
                 PROVE  \E i \in DOMAIN recorded' : recorded'[i] = q
      OBVIOUS
    <2> WITNESS Len(recorded) + 1 \in DOMAIN recorded'
    <2> QED
      BY <1>2
  <1>5. Logged'
    BY <1>1, <1>3, <1>4 DEF IInv, Logged
  <1>6. Types' /\ Fetched'
    BY <1>1, <1>3 DEF IInv, Types, Fetched, engineVars
  <1>7. TablesTraced' /\ EngineTraced'
    BY <1>1, <1>3 DEF IInv, TablesTraced, EngineTraced, engineVars
  <1> QED
    BY <1>5, <1>6, <1>7 DEF IInv

(* A change of the tables is one that the log holds.                       *)
LEMMA WriteTraced ==
  ASSUME IInv, NEW q \in Requests, request[q] = "recorded", Exists(What[q]), Write(q),
         UNCHANGED <<recorded, engineVars>>
  PROVE  /\ rules' \in Seq(Table) /\ Len(rules') >= Len(rules)
         /\ access' \in Seq(AccessTable) /\ Len(access') >= Len(access)
         /\ access'[1] = access[1]
         /\ TablesTraced'
  <1> DEFINE c == What[q]
  <1>1. c \in Change
    BY ConfigAssumption
  <1>2. Entered(c, recorded)
    BY DEF IInv, Logged, Entered
  <1>3. /\ rules \in Seq(Table) /\ Len(rules) >= 1 /\ Last(rules) \in Table
        /\ access \in Seq(AccessTable) /\ Len(access) >= 1 /\ Last(access) \in AccessTable
        /\ Len(rules) \in Nat /\ Len(access) \in Nat
        /\ RulesTraced(Last(rules), recorded)
        /\ AccessTraced(Last(access), access[1], recorded)
    BY DEF IInv, Types, TablesTraced, Last
  <1>4. CASE c.table = "rules"
    <2> DEFINE rows == [Last(rules) EXCEPT ![c.name] = Value(c)]
    <2>1. rules' = Append(rules, rows) /\ UNCHANGED access
      BY <1>4 DEF Write
    <2>2. c.name \in Rules /\ c.enabled \in BOOLEAN /\ Value(c) = c.enabled
          /\ (~c.enabled => c = TurnsOff(c.name))
      BY Zenon, <1>1, <1>4 DEF Exists, Change, Value, TurnsOff
    <2>3. rows \in Table
      BY <1>3, <2>2 DEF Table
    <2>4. \A r \in Rules : rows[r] = IF r = c.name THEN c.enabled ELSE Last(rules)[r]
      BY <1>3, <2>2 DEF Table
    <2>5. RulesTraced(rows, recorded)
      BY <1>2, <1>3, <2>2, <2>4 DEF RulesTraced
    <2> HIDE DEF rows, c
    <2>6. /\ rules' \in Seq(Table) /\ Len(rules') = Len(rules) + 1
          /\ \A i \in 1..Len(rules) : rules'[i] = rules[i]
          /\ rules'[Len(rules) + 1] = rows
      BY <1>3, <2>1, <2>3, LongerTable
    <2>7. \A i \in 1..Len(rules') : RulesTraced(rules'[i], recorded)
      BY <1>3, <2>5, <2>6 DEF IInv, TablesTraced
    <2> QED
      BY <1>3, <2>1, <2>6, <2>7 DEF IInv, TablesTraced
  <1>5. CASE c.table = "ip"
    <2> DEFINE rows == [Last(access) EXCEPT ![c.cidr] = Value(c)]
    <2>1. access' = Append(access, rows) /\ UNCHANGED rules
      BY <1>5 DEF Write
    <2>2. c.cidr \in CIDRs /\ Value(c) \in {"none", "allow", "deny"}
          /\ (Value(c) \in {"allow", "deny"} => c = Lets(c.cidr, Value(c)))
      BY <1>1, <1>5 DEF Change, Value, Lets
    <2>3. rows \in AccessTable
      BY <1>3, <2>2 DEF AccessTable
    <2>4. \A p \in CIDRs : rows[p] = IF p = c.cidr THEN Value(c) ELSE Last(access)[p]
      BY <1>3, <2>2 DEF AccessTable
    <2>5. AccessTraced(rows, access[1], recorded)
      BY <1>2, <1>3, <2>2, <2>4 DEF AccessTraced, Cause
    <2> HIDE DEF rows, c
    <2>6. /\ access' \in Seq(AccessTable) /\ Len(access') = Len(access) + 1
          /\ \A i \in 1..Len(access) : access'[i] = access[i]
          /\ access'[Len(access) + 1] = rows
      BY <1>3, <2>1, <2>3, LongerTable
    <2>7. access'[1] = access[1]
      BY <1>3, <2>6
    <2>8. \A i \in 1..Len(access') : AccessTraced(access'[i], access[1], recorded)
      BY <1>3, <2>5, <2>6 DEF IInv, TablesTraced
    <2> QED
      BY <1>3, <2>1, <2>6, <2>7, <2>8 DEF IInv, TablesTraced
  <1> QED
    BY <1>1, <1>4, <1>5 DEF Change

(* The statement of a handler.                                             *)
LEMMA StoreStep ==
  ASSUME IInv, NEW q \in Requests, Store(q)
  PROVE  IInv'
  <1>1. /\ request[q] = "recorded" /\ request' \in [Requests -> Points]
        /\ \A p \in Requests : request'[p] = "recorded" => request[p] = "recorded"
        /\ UNCHANGED <<recorded, engineVars>>
    BY DEF Store, IInv, Types, Points
  <1>2. Logged'
    BY <1>1 DEF IInv, Logged
  <1>3. CASE Exists(What[q]) /\ Write(q)
    <2>1. /\ rules' \in Seq(Table) /\ Len(rules') >= Len(rules)
          /\ access' \in Seq(AccessTable) /\ Len(access') >= Len(access)
          /\ access'[1] = access[1]
          /\ TablesTraced'
      BY <1>1, <1>3, WriteTraced
    <2>2. Len(rules) \in Nat /\ Len(access) \in Nat /\ Len(rules') \in Nat /\ Len(access') \in Nat
      BY <2>1 DEF IInv, Types
    <2>3. Types' /\ Fetched'
      BY <1>1, <2>1, <2>2 DEF IInv, Types, Fetched, engineVars
    <2>4. EngineTraced'
      BY <1>1, <2>1 DEF IInv, EngineTraced, engineVars
    <2> QED
      BY <1>2, <2>1, <2>3, <2>4 DEF IInv
  <1>4. CASE UNCHANGED <<rules, access>>
    BY <1>1, <1>2, <1>4 DEF IInv, Types, Fetched, TablesTraced, EngineTraced, engineVars
  <1> QED
    BY <1>3, <1>4 DEF Store

-----------------------------------------------------------------------------
(***************************************************************************)
(* The engine.                                                             *)
(***************************************************************************)

(* A list that is sorted from an accounted table is accounted for.         *)
LEMMA SortedTraced ==
  ASSUME NEW rows, NEW first, NEW log, AccessTraced(rows, first, log)
  PROVE  ListTraced(Sorted(rows), first, log)
  BY DEF AccessTraced, ListTraced, Sorted

(* The first configuration blocks and lists nothing by itself.             *)
LEMMA NewTraced ==
  ASSUME NEW first, NEW log
  PROVE  RulesTraced(NewEnabled.rows, log) /\ ListTraced(NewList.rows, first, log)
  BY DEF NewEnabled, NewList, RulesTraced, ListTraced

(* The engine starts, ends and reloads: what it puts in force is a version *)
(* of the tables, and none but the one it has read.                        *)
LEMMA EngineStep ==
  ASSUME IInv, Start \/ Crash \/ Notified \/ Ticker \/ Reload
  PROVE  IInv'
  <1>1. /\ Types /\ Logged /\ TablesTraced /\ EngineTraced /\ Fetched
        /\ Len(rules) \in Nat /\ Len(access) \in Nat /\ Len(rules) >= 1 /\ Len(access) >= 1
    BY DEF IInv, Types
  <1>2. /\ UNCHANGED <<recorded, rules, access>> /\ request' \in [Requests -> Points]
        /\ \A p \in Requests : request'[p] = "recorded" => request[p] = "recorded"
    BY <1>1 DEF Start, Crash, Notified, Ticker, Reload, ReadRules, ReadRulesFails, SetRules, ReadList,
                ReadListFails, SetList, dashboardVars, Types, Points
  <1>3. Logged' /\ TablesTraced'
    BY <1>1, <1>2 DEF Logged, TablesTraced
  <1>4. CASE Start
    <2>1. enabled' = NewEnabled /\ list' = NewList /\ reload' = "readRules" /\ UNCHANGED fetched
      BY <1>4 DEF Start
    <2>2. NewEnabled.version = 0 /\ NewList.version = 0
      BY DEF NewEnabled, NewList
    <2>3. Types' /\ Fetched'
      BY <1>1, <1>2, <2>1, <2>2 DEF Types, Fetched
    <2>4. EngineTraced'
      BY <1>2, <2>1, NewTraced DEF EngineTraced
    <2> QED
      BY <1>3, <2>3, <2>4 DEF IInv
  <1>5. CASE SetRules
    <2>1. /\ fetched \in 1..Len(rules) /\ reload' = "readList" /\ UNCHANGED <<fetched, list>>
          /\ enabled' = [version |-> fetched, rows |-> InForce(rules[fetched])]
      BY <1>1, <1>5 DEF SetRules, Fetched
    <2>2. Types' /\ Fetched'
      BY <1>1, <1>2, <2>1 DEF Types, Fetched
    <2>3. RulesTraced(InForce(rules[fetched]), recorded)
      BY <1>1, <2>1 DEF TablesTraced, RulesTraced, InForce
    <2>4. EngineTraced'
      BY <1>1, <1>2, <2>1, <2>3 DEF EngineTraced
    <2> QED
      BY <1>3, <2>2, <2>4 DEF IInv
  <1>6. CASE SetList
    <2>1. /\ fetched \in 1..Len(access) /\ reload' = "none" /\ UNCHANGED <<fetched, enabled>>
          /\ list' = [version |-> fetched, rows |-> Sorted(access[fetched])]
      BY <1>1, <1>6 DEF SetList, Reloaded, Fetched
    <2>2. Types' /\ Fetched'
      BY <1>1, <1>2, <2>1 DEF Types, Fetched
    <2>3. ListTraced(Sorted(access[fetched]), access[1], recorded)
      BY <1>1, <2>1, SortedTraced DEF TablesTraced
    <2>4. EngineTraced'
      BY <1>1, <1>2, <2>1, <2>3 DEF EngineTraced
    <2> QED
      BY <1>3, <2>2, <2>4 DEF IInv
  <1>7. CASE Crash \/ Notified \/ Ticker \/ ReadRules \/ ReadRulesFails \/ ReadList \/ ReadListFails
    <2>1. UNCHANGED <<enabled, list>>
      BY <1>7 DEF Crash, Notified, Ticker, ReadRules, ReadRulesFails, ReadList, ReadListFails
    <2>2. Types' /\ Fetched'
      BY <1>1, <1>2, <1>7, <2>1 DEF Types, Fetched, Reloaded,
         Crash, Notified, Ticker, ReadRules, ReadRulesFails, ReadList, ReadListFails
    <2>3. EngineTraced'
      BY <1>1, <1>2, <2>1 DEF EngineTraced
    <2> QED
      BY <1>3, <2>2, <2>3 DEF IInv
  <1> QED
    BY <1>4, <1>5, <1>6, <1>7 DEF Reload

-----------------------------------------------------------------------------
(* The invariant holds of every behaviour.                                 *)
THEOREM ConfigInvariant == Spec => []IInv
  <1>1. IInv /\ [Next]_vars => IInv'
    <2>1. ASSUME IInv, UNCHANGED vars PROVE IInv'
      BY <2>1 DEF vars, dashboardVars, engineVars, IInv, Types, Logged, TablesTraced, EngineTraced, Fetched
    <2> QED
      BY <2>1, RecordStep, StoreStep, EngineStep DEF Next, Handler
  <1> QED
    BY <1>1, InitIInv, PTL DEF Spec

(* Whatever the engine enforces has a trail (refuseUnaudited, "keeping the *)
(* current chain"): for any rules, prefixes and requests, whichever calls  *)
(* fail, and however often the engine ends.                                *)
THEOREM EnforcedHasTrail == Spec => []EnforcedIsRecorded
  <1>1. IInv => EnforcedIsRecorded
    BY DEF IInv, EngineTraced, RulesTraced, ListTraced, Cause, Entered, TurnsOff, Lets,
           EnforcedIsRecorded, Trail
  <1> QED
    BY <1>1, ConfigInvariant, PTL

(* While an engine serves, what it enforces never gets older: applyConfig  *)
(* puts in force what it has read, which the tables held after what was in *)
(* force.                                                                  *)
THEOREM ReloadsNeverStepBack == Spec => NeverOlder
  <1>1. ASSUME IInv, [Next]_vars, engine # "down", engine' # "down"
        PROVE  enabled'.version >= enabled.version /\ list'.version >= list.version
    <2>1. enabled.version \in Nat /\ list.version \in Nat
      BY <1>1 DEF IInv, Types
    <2>2. CASE UNCHANGED <<enabled, list>>
      BY <2>1, <2>2
    <2>3. CASE SetRules
      BY <1>1, <2>1, <2>3 DEF SetRules, IInv, Fetched, Types
    <2>4. CASE SetList
      BY <1>1, <2>1, <2>4 DEF SetList, IInv, Fetched, Types
    <2> QED
      BY <1>1, <2>2, <2>3, <2>4 DEF Next, Handler, Record, RecordLate, Store, Notify, Start, Crash,
         Notified, Ticker, Reload, ReadRules, ReadRulesFails, ReadList, ReadListFails, vars, engineVars
  <1>2. IInv /\ [Next]_vars =>
          [engine # "down" /\ engine' # "down" =>
             enabled'.version >= enabled.version /\ list'.version >= list.version]_vars
    BY <1>1
  <1> QED
    BY <1>2, ConfigInvariant, PTL DEF Spec, NeverOlder

-----------------------------------------------------------------------------
(***************************************************************************)
(* The log and the tables.  A request is entered once, and before it is    *)
(* applied.  As long as no two changes of a row are under way at once, a   *)
(* change under way is entered after all changes of the row so far: when   *)
(* its statement runs, it is the latest.                                   *)
(***************************************************************************)
RowOf(q) == Row(What[q])

(* The last contents of the tables are what a request asked for.           *)
Holds(q, chain, prefixes) ==
    IF What[q].table = "rules" THEN Last(chain)[What[q].name] = Value(What[q])
    ELSE Last(prefixes)[What[q].cidr] = Value(What[q])

(* No later entry of a log is an applied change of the same row.           *)
IsLatest(i, log, done) ==
    \A j \in i + 1 .. Len(log) : log[j] \in done => RowOf(log[j]) # RowOf(log[i])

EnteredOnce ==
    /\ \A i, j \in DOMAIN recorded : recorded[i] = recorded[j] => i = j
    /\ \A i \in DOMAIN recorded : request[recorded[i]] \notin {"new", "queued"}

AppliedIsLogged ==
    \A q \in applied :
        /\ q \in Requests /\ request[q] \in {"stored", "failed", "done"}
        /\ \E i \in DOMAIN recorded : recorded[i] = q
        /\ What[q].table = "rules" => What[q].name \in Rules

OneUnderWay ==
    \A p, q \in Requests :
        request[p] = "recorded" /\ request[q] = "recorded" /\ RowOf(p) = RowOf(q) =>
            p = q \/ RowOf(p) \in overlapped

UnderWayIsLast ==
    \A i, j \in DOMAIN recorded :
        i < j /\ request[recorded[i]] = "recorded" /\ RowOf(recorded[i]) = RowOf(recorded[j]) =>
            recorded[j] \notin applied \/ RowOf(recorded[i]) \in overlapped

LatestHolds ==
    \A i \in DOMAIN recorded :
        /\ recorded[i] \in applied
        /\ IsLatest(i, recorded, applied)
        /\ RowOf(recorded[i]) \notin overlapped
        => Holds(recorded[i], rules, access)

LogInv == EnteredOnce /\ AppliedIsLogged /\ OneUnderWay /\ UnderWayIsLast /\ LatestHolds

(* A request is entered, refused or answered; no table changes.            *)
LEMMA EntryLogInv ==
  ASSUME IInv, LogInv, NEW q \in Requests, Record(q) \/ RecordLate(q) \/ Notify(q)
  PROVE  LogInv'
  <1>0. /\ EnteredOnce /\ AppliedIsLogged /\ OneUnderWay /\ UnderWayIsLast /\ LatestHolds
        /\ request \in [Requests -> Points] /\ recorded \in Seq(Requests)
    BY DEF LogInv, IInv, Types
  <1>1. /\ UNCHANGED <<applied, rules, access>> /\ overlapped \subseteq overlapped'
        /\ \A p \in Requests \ {q} : request'[p] = request[p]
    <2>1. CASE Record(q)
      BY <1>0, <2>1 DEF Record
    <2>2. CASE RecordLate(q) \/ Notify(q)
      BY <1>0, <2>2 DEF RecordLate, Notify
    <2> QED
      BY <2>1, <2>2
  <1>2. \/ /\ request[q] \in {"new", "queued"} /\ request'[q] \in {"recorded", "refused"}
           /\ recorded' = Append(recorded, q)
           /\ request'[q] = "recorded" => overlapped' = overlapped \cup Meets(q)
        \/ /\ request[q] = "new" /\ request'[q] \in {"refused", "queued"} /\ recorded' = recorded
        \/ /\ request[q] = "stored" /\ request'[q] = "done" /\ recorded' = recorded
    <2>1. CASE Record(q)
      BY <1>0, <2>1 DEF Record, AfterAuditError
    <2>2. CASE RecordLate(q) \/ Notify(q)
      BY <1>0, <2>2 DEF RecordLate, Notify
    <2> QED
      BY <2>1, <2>2
  <1>3. \A i \in DOMAIN recorded : recorded[i] \in Requests
    BY <1>0
  <1>4. request[q] \in {"new", "queued"} => q \notin applied /\ \A i \in DOMAIN recorded : recorded[i] # q
    BY <1>0 DEF EnteredOnce, AppliedIsLogged
  <1>5. PICK n \in Nat : DOMAIN recorded = 1..n /\ n = Len(recorded)
    BY <1>0
  <1>6. OneUnderWay'
    <2> SUFFICES ASSUME NEW p \in Requests, NEW r \in Requests, p # r, RowOf(p) = RowOf(r),
                        request'[p] = "recorded", request'[r] = "recorded"
                 PROVE  RowOf(p) \in overlapped'
      BY DEF OneUnderWay
    <2>1. CASE p # q /\ r # q
      BY <1>0, <1>1, <2>1 DEF OneUnderWay
    <2>2. ASSUME NEW o \in Requests \ {q}, request'[o] = "recorded", request'[q] = "recorded",
                 RowOf(o) = RowOf(q)
          PROVE  RowOf(q) \in overlapped'
      <3>1. request[o] = "recorded" /\ overlapped' = overlapped \cup Meets(q)
        BY <1>1, <1>2, <2>2
      <3> QED
        BY <2>2, <3>1 DEF Meets, RowOf
    <2> QED
      BY <2>1, <2>2
  <1>7. CASE recorded' = recorded
    <2>1. \A i \in DOMAIN recorded : request'[recorded[i]] = "recorded" => request[recorded[i]] = "recorded"
      BY <1>1, <1>2, <1>3, <1>4, <1>7
    <2>2. EnteredOnce'
      BY <1>0, <1>1, <1>2, <1>3, <1>4, <1>7 DEF EnteredOnce
    <2>3. AppliedIsLogged'
      BY <1>0, <1>1, <1>2, <1>4, <1>7 DEF AppliedIsLogged
    <2>4. UnderWayIsLast'
      BY <1>0, <1>1, <1>7, <2>1 DEF UnderWayIsLast
    <2>5. LatestHolds'
      BY <1>0, <1>1, <1>7 DEF LatestHolds
    <2> QED
      BY <1>6, <2>2, <2>3, <2>4, <2>5 DEF LogInv
  <1>8. CASE recorded' = Append(recorded, q) /\ request[q] \in {"new", "queued"}
    <2>1. /\ DOMAIN recorded' = 1..(n + 1) /\ Len(recorded') = n + 1
          /\ \A i \in 1..n : recorded'[i] = recorded[i]
          /\ recorded'[n + 1] = q
      BY <1>0, <1>5, <1>8
    <2>2. \A i \in 1..n : recorded[i] # q /\ request'[recorded[i]] = request[recorded[i]]
      BY <1>1, <1>3, <1>4, <1>5, <1>8
    <2>3. q \notin applied'
      BY <1>1, <1>4, <1>8
    <2>4. EnteredOnce'
      <3>1. request'[q] \notin {"new", "queued"}
        BY <1>2, <1>8
      <3> QED
        BY <1>0, <1>5, <2>1, <2>2, <3>1 DEF EnteredOnce
    <2>5. AppliedIsLogged'
      <3> SUFFICES ASSUME NEW p \in applied
                   PROVE  /\ p \in Requests /\ request'[p] \in {"stored", "failed", "done"}
                          /\ \E i \in DOMAIN recorded' : recorded'[i] = p
                          /\ What[p].table = "rules" => What[p].name \in Rules
        BY <1>1 DEF AppliedIsLogged
      <3>1. PICK i \in DOMAIN recorded : recorded[i] = p
        BY <1>0 DEF AppliedIsLogged
      <3>2. i \in DOMAIN recorded' /\ recorded'[i] = p
        BY <1>5, <2>1, <3>1
      <3> QED
        BY <1>0, <1>1, <2>3, <3>2 DEF AppliedIsLogged
    <2>6. UnderWayIsLast'
      <3> SUFFICES ASSUME NEW i \in 1..(n + 1), NEW j \in 1..(n + 1), i < j,
                          request'[recorded'[i]] = "recorded",
                          RowOf(recorded'[i]) = RowOf(recorded'[j])
                   PROVE  recorded'[j] \notin applied' \/ RowOf(recorded'[i]) \in overlapped'
        BY <2>1 DEF UnderWayIsLast
      <3>1. CASE j = n + 1
        BY <2>1, <2>3, <3>1
      <3>2. CASE j \in 1..n
        <4>1. /\ i \in 1..n /\ recorded'[i] = recorded[i] /\ recorded'[j] = recorded[j]
              /\ request[recorded[i]] = "recorded"
          BY <2>1, <2>2, <3>2
        <4> QED
          BY <1>0, <1>1, <1>5, <3>2, <4>1 DEF UnderWayIsLast
      <3> QED
        BY <3>1, <3>2
    <2>7. LatestHolds'
      <3> SUFFICES ASSUME NEW i \in 1..(n + 1), recorded'[i] \in applied,
                          IsLatest(i, recorded', applied), RowOf(recorded'[i]) \notin overlapped'
                   PROVE  Holds(recorded'[i], rules, access)
        BY <1>1, <2>1 DEF LatestHolds
      <3>1. i \in 1..n /\ recorded'[i] = recorded[i]
        <4>1. applied' = applied
          BY <1>1
        <4>2. i # n + 1
          BY Zenon, <2>1, <2>3, <4>1
        <4>3. i \in 1..n
          BY <4>2
        <4> QED
          BY <2>1, <4>3
      <3>2. IsLatest(i, recorded, applied)
        BY <1>5, <2>1, <3>1 DEF IsLatest
      <3> QED
        BY <1>0, <1>1, <1>5, <3>1, <3>2 DEF LatestHolds
    <2> QED
      BY <1>6, <2>4, <2>5, <2>6, <2>7 DEF LogInv
  <1> QED
    BY <1>2, <1>7, <1>8

(* A statement gives its own row the value asked for, and no other row.    *)
LEMMA WriteHolds ==
  ASSUME IInv, NEW q \in Requests, Exists(What[q]), Write(q)
  PROVE  /\ Holds(q, rules', access')
         /\ \A p \in Requests :
              /\ What[p].table = "rules" => What[p].name \in Rules
              /\ RowOf(p) # RowOf(q)
              /\ Holds(p, rules, access)
              => Holds(p, rules', access')
  <1> DEFINE c == What[q]
  <1>1. c \in Change /\ \A p \in Requests : What[p] \in Change
    BY ConfigAssumption
  <1>2. /\ rules \in Seq(Table) /\ Len(rules) >= 1 /\ Last(rules) \in Table
        /\ access \in Seq(AccessTable) /\ Len(access) >= 1 /\ Last(access) \in AccessTable
    BY DEF IInv, Types, Last
  <1>3. CASE c.table = "rules"
    <2> DEFINE rows == [Last(rules) EXCEPT ![c.name] = Value(c)]
    <2>1. rules' = Append(rules, rows) /\ access' = access
      BY <1>3 DEF Write
    <2>2. c.name \in Rules /\ Value(c) \in BOOLEAN
      BY <1>1, <1>3 DEF Exists, Change, Value
    <2>3. /\ rows \in Table /\ rows[c.name] = Value(c)
          /\ \A r \in Rules \ {c.name} : rows[r] = Last(rules)[r]
      BY <1>2, <2>2 DEF Table
    <2>4. Last(rules') = rows
      <3> HIDE DEF rows
      <3> QED
        BY <1>2, <2>1, <2>3 DEF Last
    <2>5. \A p \in Requests : RowOf(p) # RowOf(q) /\ What[p].table = "rules" => What[p].name # c.name
      BY <1>3 DEF RowOf, Row
    <2>6. Holds(q, rules', access')
      BY <1>3, <2>3, <2>4 DEF Holds
    <2> HIDE DEF rows, c
    <2> QED
      BY <2>1, <2>3, <2>4, <2>5, <2>6 DEF Holds
  <1>4. CASE c.table = "ip"
    <2> DEFINE rows == [Last(access) EXCEPT ![c.cidr] = Value(c)]
    <2>1. access' = Append(access, rows) /\ rules' = rules
      BY <1>4 DEF Write
    <2>2. c.cidr \in CIDRs /\ Value(c) \in {"none", "allow", "deny"}
      BY <1>1, <1>4 DEF Change, Value
    <2>3. /\ rows \in AccessTable /\ rows[c.cidr] = Value(c)
          /\ \A p \in CIDRs \ {c.cidr} : rows[p] = Last(access)[p]
      BY <1>2, <2>2 DEF AccessTable
    <2>4. Last(access') = rows
      <3> HIDE DEF rows
      <3> QED
        BY <1>2, <2>1, <2>3 DEF Last
    <2>5. \A p \in Requests : RowOf(p) # RowOf(q) /\ What[p].table # "rules" =>
             What[p].cidr \in CIDRs \ {c.cidr}
      <3> SUFFICES ASSUME NEW p \in Requests, RowOf(p) # RowOf(q), What[p].table # "rules"
                   PROVE  What[p].cidr \in CIDRs \ {c.cidr}
        OBVIOUS
      <3>1. What[p].cidr \in CIDRs
        BY <1>1 DEF Change
      <3>2. RowOf(p) = <<"ip", What[p].cidr>> /\ RowOf(q) = <<"ip", c.cidr>>
        BY <1>4 DEF RowOf, Row
      <3> QED
        BY <3>1, <3>2
    <2>6. Holds(q, rules', access')
      BY <1>4, <2>3, <2>4 DEF Holds
    <2> HIDE DEF rows, c
    <2> QED
      BY <2>1, <2>3, <2>4, <2>5, <2>6 DEF Holds
  <1> QED
    BY <1>1, <1>3, <1>4 DEF Change

(* The statement of a handler runs, finds no row, or fails.                *)
LEMMA StoreLogInv ==
  ASSUME IInv, LogInv, NEW q \in Requests, Store(q)
  PROVE  LogInv'
  <1>0. /\ EnteredOnce /\ AppliedIsLogged /\ OneUnderWay /\ UnderWayIsLast /\ LatestHolds
        /\ request \in [Requests -> Points] /\ recorded \in Seq(Requests)
    BY DEF LogInv, IInv, Types
  <1>1. /\ request[q] = "recorded" /\ request'[q] \in {"stored", "failed", "notfound"}
        /\ \A p \in Requests \ {q} : request'[p] = request[p]
        /\ UNCHANGED <<recorded, overlapped>>
        /\ q \notin applied
    BY <1>0 DEF Store, AppliedIsLogged
  <1>2. \A i \in DOMAIN recorded : recorded[i] \in Requests
    BY <1>0
  <1>3. EnteredOnce' /\ OneUnderWay'
    BY <1>0, <1>1, <1>2 DEF EnteredOnce, OneUnderWay
  <1>4. CASE UNCHANGED <<applied, rules, access>>
    <2>1. AppliedIsLogged'
      BY <1>0, <1>1, <1>4 DEF AppliedIsLogged
    <2>2. UnderWayIsLast'
      BY <1>0, <1>1, <1>2, <1>4 DEF UnderWayIsLast
    <2>3. LatestHolds'
      BY <1>0, <1>1, <1>4 DEF LatestHolds
    <2> QED
      BY <1>3, <2>1, <2>2, <2>3 DEF LogInv
  <1>5. CASE Exists(What[q]) /\ Write(q) /\ request'[q] \in {"stored", "failed"}
    <2>1. applied' = applied \cup {q}
      BY <1>5 DEF Write
    <2>2. PICK k \in DOMAIN recorded : recorded[k] = q
      BY <1>1 DEF IInv, Logged
    <2>3. AppliedIsLogged'
      <3>1. What[q].table = "rules" => What[q].name \in Rules
        BY <1>5 DEF Exists
      <3> QED
        BY <1>0, <1>1, <1>5, <2>1, <2>2, <3>1 DEF AppliedIsLogged
    <2>4. UnderWayIsLast'
      <3> SUFFICES ASSUME NEW i \in DOMAIN recorded, NEW j \in DOMAIN recorded, i < j,
                          request'[recorded[i]] = "recorded", recorded[j] \in applied',
                          RowOf(recorded[i]) = RowOf(recorded[j])
                   PROVE  RowOf(recorded[i]) \in overlapped
        BY <1>1 DEF UnderWayIsLast
      <3>1. recorded[i] # q /\ request[recorded[i]] = "recorded"
        BY <1>1, <1>2
      <3>2. CASE recorded[j] = q
        BY <1>0, <1>1, <1>2, <3>1, <3>2 DEF OneUnderWay
      <3>3. CASE recorded[j] \in applied
        BY <1>0, <3>1, <3>3 DEF UnderWayIsLast
      <3> QED
        BY <2>1, <3>2, <3>3
    <2>5. LatestHolds'
      <3> SUFFICES ASSUME NEW i \in DOMAIN recorded, recorded[i] \in applied',
                          IsLatest(i, recorded, applied'), RowOf(recorded[i]) \notin overlapped
                   PROVE  Holds(recorded[i], rules', access')
        BY <1>1 DEF LatestHolds
      <3>1. CASE recorded[i] = q
        BY <1>5, <3>1, WriteHolds
      <3>2. CASE recorded[i] # q /\ recorded[i] \in applied
        <4>1. i \in 1..Len(recorded) /\ k \in 1..Len(recorded) /\ Len(recorded) \in Nat /\ i # k
          BY <1>0, <2>2, <3>2
        <4>2. RowOf(recorded[i]) # RowOf(q)
          <5>1. CASE i < k
            <6>1. k \in i + 1 .. Len(recorded)
              BY <4>1, <5>1
            <6> QED
              BY <2>1, <2>2, <6>1 DEF IsLatest
          <5>2. CASE k < i
            BY <1>0, <1>1, <2>2, <3>2, <5>2 DEF UnderWayIsLast
          <5> QED
            BY <4>1, <5>1, <5>2
        <4>3. IsLatest(i, recorded, applied)
          BY <2>1 DEF IsLatest
        <4>4. Holds(recorded[i], rules, access)
          BY <1>0, <3>2, <4>3 DEF LatestHolds
        <4>5. What[recorded[i]].table = "rules" => What[recorded[i]].name \in Rules
          BY <1>0, <3>2 DEF AppliedIsLogged
        <4>6. PICK p \in Requests : p = recorded[i]
          BY <1>2
        <4> QED
          BY <1>5, <4>2, <4>4, <4>5, <4>6, WriteHolds
      <3> QED
        BY <2>1, <3>1, <3>2
    <2> QED
      BY <1>3, <2>3, <2>4, <2>5 DEF LogInv
  <1> QED
    BY <1>0, <1>4, <1>5 DEF Store

(* "Recorded before it is applied": for any requests, whichever calls fail *)
(* and however often the engine ends, every change in the tables is in the *)
(* log, and the log's last change of a row is the row's value unless two   *)
(* changes of the row were under way at once.                              *)
THEOREM LogTellsTheTables == Spec => []LogTellsTables
  <1>1. Init => LogInv
    BY DEF Init, LogInv, EnteredOnce, AppliedIsLogged, OneUnderWay, UnderWayIsLast, LatestHolds
  <1>2. IInv /\ LogInv /\ [Next]_vars => LogInv'
    <2> SUFFICES ASSUME IInv, LogInv, [Next]_vars PROVE LogInv'
      OBVIOUS
    <2>1. CASE \E q \in Requests : Handler(q)
      BY <2>1, EntryLogInv, StoreLogInv DEF Handler
    <2>2. CASE Start \/ Crash \/ Notified \/ Ticker \/ Reload \/ UNCHANGED vars
      <3>1. /\ UNCHANGED <<recorded, applied, overlapped, rules, access>>
            /\ request' = request \/ Crash
        BY <2>2 DEF Start, Crash, Notified, Ticker, Reload, ReadRules, ReadRulesFails, SetRules,
                    ReadList, ReadListFails, SetList, dashboardVars, vars
      <3>2. \A p \in Requests : request'[p] = request[p] \/ (request[p] = "queued" /\ request'[p] = "refused")
        BY <3>1 DEF Crash
      <3>3. \A i \in DOMAIN recorded : recorded[i] \in Requests
        BY DEF IInv, Types
      <3>4. EnteredOnce' /\ AppliedIsLogged' /\ OneUnderWay'
        BY <3>1, <3>2, <3>3 DEF LogInv, EnteredOnce, AppliedIsLogged, OneUnderWay
      <3>5. UnderWayIsLast' /\ LatestHolds'
        BY <3>1, <3>2, <3>3 DEF LogInv, UnderWayIsLast, LatestHolds
      <3> QED
        BY <3>4, <3>5 DEF LogInv
    <2> QED
      BY <2>1, <2>2 DEF Next
  <1>3. LogInv => LogTellsTables
    <2> SUFFICES ASSUME LogInv, NEW q \in applied
                 PROVE  \E i \in DOMAIN recorded :
                          /\ recorded[i] = q
                          /\ Latest(i) /\ Row(What[q]) \notin overlapped =>
                                InTable(Row(What[q])) = Value(What[q])
      BY DEF LogTellsTables
    <2>1. PICK i \in DOMAIN recorded : recorded[i] = q
      BY DEF LogInv, AppliedIsLogged
    <2>2. Latest(i) /\ RowOf(q) \notin overlapped => Holds(q, rules, access)
      BY <2>1 DEF LogInv, LatestHolds, IsLatest, Latest, RowOf
    <2>3. Holds(q, rules, access) => InTable(RowOf(q)) = Value(What[q])
      BY DEF Holds, InTable, RowOf, Row
    <2> QED
      BY <2>1, <2>2, <2>3 DEF RowOf
  <1> QED
    BY <1>1, <1>2, <1>3, ConfigInvariant, PTL DEF Spec
=============================================================================
