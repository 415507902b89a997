--------------------------- MODULE StartupProofs ----------------------------
(***************************************************************************)
(* Proofs about Startup and, in it, Migrate: for any number of engines of  *)
(* any releases, dashboards, environments and failures.                    *)
(***************************************************************************)
EXTENDS Startup, TLAPS

-----------------------------------------------------------------------------
(***************************************************************************)
(* Migrations.                                                             *)
(***************************************************************************)

(* The strengthening: whoever is between the lock and its release holds    *)
(* the lock, and knows the versions that are committed.  Without the       *)
(* second, which the lock gives, Name could be a migration that another    *)
(* engine has applied since.                                               *)
Inside == {"locked", "loop", "body", "recorded"}

LockHeld == \A e \in Engines : at[e] \in Inside => lock = e

KnowsVersions == \A e \in Engines :
    /\ at[e] \in {"loop", "body", "recorded"} => applied[e] = versions
    /\ at[e] \in {"body", "recorded"} => Remaining(e) # {}

MigrateTypes ==
    /\ at \in [Engines -> {"idle", "waiting", "locked", "loop", "body", "recorded", "done"}]
    /\ DOMAIN applied = Engines
    /\ schema \in Seq(Nat)

MInv == MigrateTypes /\ LockHeld /\ KnowsVersions /\ SchemaIsRecorded

(* With the first migrations committed, the next file the loop comes to is *)
(* the one after them.                                                     *)
LEMMA NextName ==
  ASSUME NEW e \in Engines, NEW n \in Nat, applied[e] = 1..n, Remaining(e) # {}
  PROVE  Name(e) = n + 1 /\ n + 1 <= Release[e]
  <1>1. Release[e] \in Nat
    BY MigrateAssumption
  <1>2. Remaining(e) = (n + 1)..Release[e]
    BY <1>1 DEF Remaining
  <1>3. n + 1 \in Remaining(e) /\ \A m \in Remaining(e) : m \in Nat /\ n + 1 <= m
    BY <1>1, <1>2
  <1>4. Name(e) \in Remaining(e) /\ \A m \in Remaining(e) : Name(e) <= m
    BY <1>3 DEF Name
  <1> QED
    BY <1>1, <1>2, <1>3, <1>4

(* Before any start.                                                       *)
LEMMA InitMInv == Init => MInv
  BY DEF Init, MInv, MigrateTypes, LockHeld, KnowsVersions, SchemaIsRecorded, Inside

(* A step of Apply keeps the invariant.                                    *)
LEMMA ApplyMInv ==
  ASSUME MInv, NEW e \in Engines, Apply(e)
  PROVE  MInv'
  <1> USE DEF MInv, MigrateTypes, Goto
  <1>1. CASE Start(e)
    BY <1>1 DEF Start, LockHeld, KnowsVersions, Remaining, SchemaIsRecorded, Inside
  <1>2. CASE Lock(e)
    BY <1>2, MigrateAssumption DEF Lock, LockHeld, KnowsVersions, Remaining, SchemaIsRecorded, Inside
  <1>3. CASE ReadVersions(e)
    BY <1>3 DEF ReadVersions, AppliedVersions, LockHeld, KnowsVersions, Remaining, SchemaIsRecorded, Inside
  <1>4. CASE RunBody(e)
    BY <1>4 DEF RunBody, LockHeld, KnowsVersions, Remaining, SchemaIsRecorded, Inside
  <1>5. CASE RecordVersion(e)
    BY <1>5 DEF RecordVersion, LockHeld, KnowsVersions, Remaining, SchemaIsRecorded, Inside
  <1>6. CASE Commit(e)
    <2>1. Len(schema) \in Nat /\ versions = 1..Len(schema) /\ applied[e] = versions
          /\ Remaining(e) # {}
      BY <1>6 DEF Commit, KnowsVersions, SchemaIsRecorded
    <2>2. Name(e) = Len(schema) + 1
      BY <2>1, NextName
    <2>3. schema' = Append(schema, Len(schema) + 1)
          /\ versions' = versions \cup {Len(schema) + 1}
          /\ applied' = [applied EXCEPT ![e] = versions']
          /\ at' = [at EXCEPT ![e] = "loop"] /\ UNCHANGED lock
      BY <1>6, <2>1, <2>2 DEF Commit
    <2>4. SchemaIsRecorded' /\ schema' \in Seq(Nat)
      BY <2>1, <2>3 DEF SchemaIsRecorded
    <2>5. ASSUME NEW f \in Engines, f # e PROVE at[f] \notin Inside
      BY <1>6, <2>5 DEF Commit, LockHeld, Inside
    <2>6. LockHeld' /\ KnowsVersions'
      BY <1>6, <2>3, <2>5 DEF Commit, LockHeld, KnowsVersions, Inside
    <2> QED
      BY <2>3, <2>4, <2>6
  <1>7. CASE Return(e)
    BY <1>7 DEF Return, Unlocked, LockHeld, KnowsVersions, Remaining, SchemaIsRecorded, Inside
  <1> QED
    BY <1>1, <1>2, <1>3, <1>4, <1>5, <1>6, <1>7 DEF Apply

(* The end of any process keeps it: what it had not committed is undone.   *)
LEMMA LeaveMInv ==
  ASSUME MInv, NEW e, Leave(e)
  PROVE  MInv'
  BY DEF Leave, MInv, MigrateTypes, LockHeld, KnowsVersions, Remaining, SchemaIsRecorded, Inside

(* Every step of every process keeps it.                                   *)
LEMMA StartupMInv == MInv /\ [StartupNext]_startupVars => MInv'
  <1> SUFFICES ASSUME MInv, [StartupNext]_startupVars PROVE MInv'
    OBVIOUS
  <1>1. CASE UNCHANGED vars
    BY <1>1 DEF vars, MInv, MigrateTypes, LockHeld, KnowsVersions, Remaining, SchemaIsRecorded
  <1>2. ASSUME NEW e \in Processes, MigrateStep(e) PROVE MInv'
    BY <1>2, ApplyMInv DEF MigrateStep
  <1>3. ASSUME NEW e \in Processes, End(e) PROVE MInv'
    BY <1>3, LeaveMInv DEF End
  <1> QED
    BY <1>1, <1>2, <1>3 DEF StartupNext, startupVars, Run, Fail, Refuse, Depend, Restart, GoOn,
       Configure, Open, Connect, Resume, Serve

(* Every migration takes effect once, in order and with its record: for    *)
(* any number of engines of any releases that start, fail and start again. *)
THEOREM MigratedOnce == StartupSpec => []SchemaIsRecorded
  <1>1. StartupInit => MInv
    BY InitMInv DEF StartupInit
  <1>2. MInv => SchemaIsRecorded
    BY DEF MInv
  <1> QED
    BY <1>1, <1>2, StartupMInv, PTL DEF StartupSpec

-----------------------------------------------------------------------------
(***************************************************************************)
(* Durations.                                                              *)
(***************************************************************************)

(* A duration that time.Duration can hold does not wrap.                   *)
LEMMA WrappedKeeps ==
  ASSUME NEW n \in -MaxDuration..MaxDuration
  PROVE  Wrapped(n) = n
  <1> DEFINE m == 2 * MaxDuration + 1
             x == n + MaxDuration + 1
  <1>1. MaxDuration \in Nat
    BY StartupAssumption
  <1>2. m \in Nat /\ x \in 0..m /\ 2 * (MaxDuration + 1) = m + 1
    BY <1>1
  <1>3. x % (m + 1) = x
    <2> HIDE DEF m, x
    <2> QED
      BY <1>2
  <1>4. Wrapped(n) = (x % (m + 1)) - (MaxDuration + 1)
    BY <1>2 DEF Wrapped
  <1> QED
    BY <1>1, <1>3, <1>4

(* Any number wraps to a number.                                           *)
LEMMA WrappedType ==
  ASSUME NEW n \in Int
  PROVE  Wrapped(n) \in Int
  <1>1. MaxDuration \in Nat /\ 2 * (MaxDuration + 1) \in Nat \ {0}
    BY StartupAssumption
  <1> QED
    BY <1>1 DEF Wrapped

(* A number of seconds in range is that many nanoseconds, and of the same  *)
(* sign.                                                                   *)
LEMMA SecondsKeep ==
  ASSUME NEW n \in -(MaxDuration \div Second)..(MaxDuration \div Second)
  PROVE  Wrapped(n * Second) = n * Second /\ (n * Second > 0 <=> n > 0)
  <1> DEFINE q == MaxDuration \div Second
  <1>1. Second \in Nat \ {0} /\ MaxDuration \in Nat
    BY StartupAssumption
  <1>2. q \in Nat /\ q * Second <= MaxDuration
    BY <1>1
  <1>3. n \in Int /\ n <= q /\ -q <= n
    BY <1>2
  <1> HIDE DEF q
  <1>4. n * Second \in Int /\ n * Second <= q * Second
    BY <1>1, <1>2, <1>3
  <1>5. (-q) * Second <= n * Second /\ (-q) * Second = -(q * Second)
    BY <1>1, <1>2, <1>3
  <1>6. n * Second \in -MaxDuration..MaxDuration
    BY <1>1, <1>2, <1>4, <1>5
  <1> QED
    BY <1>1, <1>3, <1>6, WrappedKeeps

-----------------------------------------------------------------------------
(***************************************************************************)
(* Configuration.                                                          *)
(***************************************************************************)
Constructed == {"configured", "open", "connected", "resumed", "serving"}

ConfigOf(e) == IF e \in Engines THEN EngineConfig(e) ELSE DashboardConfig(e)

(* The strengthening: a process that is past Configure had no errors and   *)
(* keeps what it was constructed with; an engine past Connect has returned *)
(* from Apply, after which its migrations are there to stay; and no        *)
(* dashboard is started before an engine has come so far.                  *)
Migrated(e) == Release[e] <= Len(schema)

CInv ==
    /\ env \in Deployments
    /\ phase \in [Processes -> Phases] /\ DOMAIN config = Processes
    /\ \A e \in Processes : phase[e] \in Constructed =>
          Errors(e) = {} /\ config[e] = ConfigOf(e)
    /\ \A e \in Engines : phase[e] \in {"connected", "resumed", "serving"} => at[e] = "done"
    /\ \A e \in Engines : at[e] = "done" => Migrated(e)
    /\ \A e \in Dashboards : phase[e] # "waiting" => \E f \in Engines : Migrated(f)

(* What the environment asks for is a number where one is read.            *)
LEMMA AskedType ==
  ASSUME env \in Deployments, NEW e \in Processes, NEW k \in Quantities,
         env[e][k].kind # "malformed"
  PROVE  /\ Asked(e, k) \in Int
         /\ integer(env[e][k], Default[k]) = Asked(e, k)
         /\ Default[k] \in 1..(MaxDuration \div Second) /\ Default[k] \in Nat \ {0}
  <1>1. env[e][k].kind \in {"unset", "integer"} /\ (env[e][k].kind = "integer" => env[e][k].n \in Int)
    BY StartupAssumption
  <1>2. Default[k] \in 1..(MaxDuration \div Second)
    BY StartupAssumption
  <1>3. Default[k] \in Nat \ {0}
    BY <1>2
  <1> QED
    BY <1>1, <1>2, <1>3 DEF Asked, integer, Is

(* Without errors, nothing that was read is malformed.                     *)
LEMMA NothingMalformed ==
  ASSUME NEW e \in Processes, Errors(e) = {}
  PROVE  \A k \in Parsed(e) : env[e][k].kind # "malformed"
  BY DEF Errors, EngineErrors, DashboardErrors, ParseErrors, Is

(* A number of seconds that can be represented is what was asked for.      *)
LEMMA AskedSeconds ==
  ASSUME env \in Deployments, NEW e \in Processes, NEW k \in Durations,
         env[e][k].kind # "malformed"
  PROVE  /\ seconds(env[e][k], Default[k]) \in Int
         /\ Representable(e, k) =>
               /\ seconds(env[e][k], Default[k]) = Asked(e, k) * Second
               /\ Asked(e, k) * Second > 0 <=> Asked(e, k) > 0
  <1>1. k \in Quantities /\ Second \in Nat \ {0}
    BY StartupAssumption DEF Durations, Quantities
  <1>2. /\ Asked(e, k) \in Int /\ Default[k] \in 1..(MaxDuration \div Second)
        /\ seconds(env[e][k], Default[k]) = Wrapped(Asked(e, k) * Second)
    BY <1>1, AskedType DEF seconds
  <1>3. Asked(e, k) * Second \in Int
    BY <1>1, <1>2
  <1>4. ASSUME Representable(e, k)
        PROVE  Asked(e, k) \in -(MaxDuration \div Second)..(MaxDuration \div Second)
    <2>1. CASE env[e][k].kind = "integer"
      BY <1>4, <2>1 DEF Representable
    <2>2. CASE env[e][k].kind = "unset"
      <3>1. Asked(e, k) = Default[k] /\ MaxDuration \div Second \in Int
        BY <1>1, <2>2, StartupAssumption DEF Asked
      <3> QED
        BY <1>2, <3>1
    <2> QED
      BY <1>1, <2>1, <2>2, StartupAssumption
  <1> QED
    BY <1>2, <1>3, <1>4, SecondsKeep, WrappedType

(* What the constructors are given is positive, and what was asked for or  *)
(* the default: for the settings of the engine,                            *)
LEMMA EngineSettings ==
  ASSUME env \in Deployments, NEW e \in Engines, Errors(e) = {}
  PROVE  /\ EngineConfig(e).requests > 0 /\ Asked(e, "requests") > 0
         /\ EngineConfig(e).requests = Asked(e, "requests") * 1
         /\ EngineConfig(e).window > 0
         /\ Representable(e, "window") =>
               Asked(e, "window") > 0 /\ EngineConfig(e).window = Asked(e, "window") * Second
         /\ EngineConfig(e).maxScan > 0
         /\ EngineConfig(e).maxScan =
               (IF Asked(e, "body") > 0 THEN Asked(e, "body") ELSE Default["body"]) * 1
         /\ EngineConfig(e).buffer > 0
         /\ EngineConfig(e).buffer =
               (IF Asked(e, "buffer") > 0 THEN Asked(e, "buffer") ELSE Default["buffer"]) * 1
  <1>1. e \in Processes /\ EngineErrors(e) = {} /\ {"requests", "window", "body", "buffer"} \subseteq Parsed(e)
    BY DEF Processes, Errors, Parsed
  <1>2. \A k \in {"requests", "window", "body", "buffer"} :
           env[e][k].kind # "malformed" /\ k \in Quantities
    BY <1>1, NothingMalformed DEF Quantities
  <1>3. \A k \in {"requests", "body", "buffer"} :
           /\ Asked(e, k) \in Int /\ Default[k] \in Nat \ {0}
           /\ integer(env[e][k], Default[k]) = Asked(e, k)
    BY <1>1, <1>2, AskedType
  <1>4. /\ seconds(env[e]["window"], Default["window"]) \in Int
        /\ Representable(e, "window") =>
              /\ seconds(env[e]["window"], Default["window"]) = Asked(e, "window") * Second
              /\ Asked(e, "window") * Second > 0 <=> Asked(e, "window") > 0
    BY <1>1, <1>2, AskedSeconds DEF Durations
  <1>5. ~(integer(env[e]["requests"], Default["requests"]) <= 0)
        /\ ~(seconds(env[e]["window"], Default["window"]) <= 0)
    BY <1>1 DEF EngineErrors
  <1>6. /\ EngineConfig(e).requests = integer(env[e]["requests"], Default["requests"])
        /\ EngineConfig(e).window = seconds(env[e]["window"], Default["window"])
        /\ EngineConfig(e).maxScan =
              OrDefault(integer(env[e]["body"], Default["body"]), Default["body"])
        /\ EngineConfig(e).buffer =
              OrDefault(integer(env[e]["buffer"], Default["buffer"]), Default["buffer"])
    BY DEF EngineConfig
  <1> QED
    BY <1>3, <1>4, <1>5, <1>6 DEF OrDefault

(* and for that of the dashboard.                                          *)
LEMMA DashboardSettings ==
  ASSUME env \in Deployments, NEW e \in Dashboards, Errors(e) = {}
  PROVE  /\ DashboardConfig(e).ttl > 0
         /\ Representable(e, "ttl") => DashboardConfig(e).ttl =
               (IF Asked(e, "ttl") > 0 THEN Asked(e, "ttl") ELSE Default["ttl"]) * Second
  <1>1. e \in Processes /\ "ttl" \in Parsed(e) /\ "ttl" \in Quantities /\ "ttl" \in Durations
    BY StartupAssumption DEF Processes, Parsed, Quantities, Durations
  <1>2. env[e]["ttl"].kind # "malformed"
    BY <1>1, NothingMalformed
  <1>3. Asked(e, "ttl") \in Int /\ Default["ttl"] \in Nat \ {0} /\ Second \in Nat \ {0}
    BY <1>1, <1>2, AskedType, StartupAssumption
  <1>4. /\ seconds(env[e]["ttl"], Default["ttl"]) \in Int
        /\ Representable(e, "ttl") =>
              /\ seconds(env[e]["ttl"], Default["ttl"]) = Asked(e, "ttl") * Second
              /\ Asked(e, "ttl") * Second > 0 <=> Asked(e, "ttl") > 0
    BY <1>1, <1>2, AskedSeconds
  <1>5. DashboardConfig(e).ttl =
          OrDefault(seconds(env[e]["ttl"], Default["ttl"]), Default["ttl"] * Second)
    BY DEF DashboardConfig
  <1>6. Default["ttl"] * Second \in Int /\ Default["ttl"] * Second > 0
        /\ Asked(e, "ttl") * Second \in Int
    BY <1>3
  <1> QED
    BY <1>3, <1>4, <1>5, <1>6 DEF OrDefault

(* The invariant gives the property.                                       *)
LEMMA CInvServes == CInv => ServesAsConfigured
  <1> SUFFICES ASSUME CInv, NEW e \in Processes, phase[e] = "serving"
               PROVE  /\ \A k \in Parsed(e) : env[e][k].kind # "malformed"
                      /\ \A s \in DOMAIN config[e] :
                            LET k == IF s = "maxScan" THEN "body" ELSE s
                                unit == IF k \in Durations THEN Second ELSE 1
                                wanted == IF Asked(e, k) > 0 THEN Asked(e, k) ELSE Default[k]
                            IN  config[e][s] > 0 /\ (Representable(e, k) => config[e][s] = wanted * unit)
                      /\ \E f \in Engines : (e \in Engines => f = e) /\ Release[f] <= Len(schema)
    BY DEF ServesAsConfigured
  <1>1. env \in Deployments /\ Errors(e) = {} /\ config[e] = ConfigOf(e)
    BY DEF CInv, Constructed
  <1>2. \A k \in Parsed(e) : env[e][k].kind # "malformed"
    BY <1>1, NothingMalformed
  <1>3. CASE e \in Engines
    <2>1. config[e] = EngineConfig(e) /\ DOMAIN config[e] = {"requests", "window", "maxScan", "buffer"}
      BY <1>1, <1>3 DEF ConfigOf, EngineConfig
    <2>2. Release[e] <= Len(schema)
      BY <1>3 DEF CInv, Migrated
    <2> QED
      BY <1>1, <1>2, <1>3, <2>1, <2>2, EngineSettings DEF Durations
  <1>4. CASE e \notin Engines
    <2>1. config[e] = DashboardConfig(e) /\ DOMAIN config[e] = {"ttl"} /\ e \in Dashboards
      BY <1>1, <1>4 DEF ConfigOf, DashboardConfig, Processes
    <2>2. \E f \in Engines : Release[f] <= Len(schema)
      BY <2>1 DEF CInv, Migrated
    <2> QED
      BY <1>1, <1>2, <1>4, <2>1, <2>2, DashboardSettings DEF Durations
  <1> QED
    BY <1>3, <1>4

(* Nothing a process was configured with changes while its environment     *)
(* does not.                                                               *)
LEMMA ConfigStays ==
  ASSUME UNCHANGED env
  PROVE  \A e : Errors(e)' = Errors(e) /\ ConfigOf(e)' = ConfigOf(e)
  BY DEF Errors, EngineErrors, DashboardErrors, NewErrors, ParseErrors, ConfigOf,
         EngineConfig, DashboardConfig

(* A step of Apply removes no migration, and an engine returns from it     *)
(* with all of its own in place.                                           *)
LEMMA ApplyMigrates ==
  ASSUME MInv, NEW e \in Engines, Apply(e)
  PROVE  /\ Len(schema) \in Nat /\ Len(schema)' \in Nat /\ Len(schema) <= Len(schema)'
         /\ \A f \in Engines : at'[f] = "done" => (f # e /\ at[f] = "done") \/ Migrated(f)'
  <1>1. Len(schema) \in Nat /\ at \in [Engines -> {"idle", "waiting", "locked", "loop", "body", "recorded", "done"}]
    BY DEF MInv, MigrateTypes
  <1>2. CASE Return(e)
    <2>1. applied[e] = 1..Len(schema) /\ Remaining(e) = {} /\ UNCHANGED schema
      BY <1>2 DEF Return, MInv, KnowsVersions, SchemaIsRecorded
    <2>2. Release[e] \in Nat
      BY MigrateAssumption
    <2>3. Release[e] <= Len(schema)
      BY <1>1, <2>1, <2>2 DEF Remaining
    <2> QED
      BY <1>1, <1>2, <2>1, <2>3 DEF Return, Goto, Migrated
  <1>3. CASE Commit(e)
    <2>1. schema \in Seq(Nat) /\ schema' = Append(schema, Name(e))
          /\ applied[e] = 1..Len(schema) /\ Remaining(e) # {}
      BY <1>3 DEF Commit, MInv, MigrateTypes, KnowsVersions, SchemaIsRecorded
    <2>2. Name(e) = Len(schema) + 1
      BY <1>1, <2>1, NextName
    <2>3. Len(schema)' = Len(schema) + 1
      BY <1>1, <2>1, <2>2
    <2> QED
      BY <1>1, <1>3, <2>3 DEF Commit, Goto
  <1>4. CASE Start(e) \/ Lock(e) \/ ReadVersions(e) \/ RunBody(e) \/ RecordVersion(e)
    BY <1>1, <1>4 DEF Start, Lock, ReadVersions, RunBody, RecordVersion, Goto
  <1> QED
    BY <1>2, <1>3, <1>4 DEF Apply

(* Before any start.                                                       *)
LEMMA InitCInv == StartupInit => CInv
  BY StartupAssumption DEF StartupInit, Init, CInv, Phases, Constructed, Processes

(* Every step keeps the invariant.                                         *)
LEMMA StartupCInv == MInv /\ CInv /\ [StartupNext]_startupVars => CInv'
  <1> SUFFICES ASSUME MInv, CInv, [StartupNext]_startupVars PROVE CInv'
    OBVIOUS
  <1>a. \A f \in Engines : f \in Processes /\ f \notin Dashboards
    BY StartupAssumption DEF Processes
  <1>b. \A f \in Dashboards : f \in Processes /\ f \notin Engines
    BY StartupAssumption DEF Processes
  <1>1. CASE UNCHANGED startupVars
    BY <1>1, ConfigStays DEF startupVars, vars, CInv, Migrated
  <1>2. ASSUME NEW e \in Processes, NEW to \in Phases, GoOn(e, to),
               to \in Constructed => phase[e] \in Constructed,
               e \in Engines /\ to \in {"connected", "resumed", "serving"} => at[e] = "done",
               e \in Dashboards /\ phase[e] = "waiting" => \E f \in Engines : Migrated(f)
        PROVE  CInv'
    <2>1. UNCHANGED <<vars, env, config>> /\ phase' = [phase EXCEPT ![e] = to]
      BY <1>2 DEF GoOn
    <2>2. \A f : Errors(f)' = Errors(f) /\ ConfigOf(f)' = ConfigOf(f)
      BY <2>1, ConfigStays
    <2> QED
      BY <1>2, <1>a, <1>b, <2>1, <2>2 DEF vars, CInv, Migrated
  <1>3. ASSUME NEW e \in Processes, End(e), phase[e] # "waiting" PROVE CInv'
    <2>1. /\ phase' = [phase EXCEPT ![e] = "ended"] /\ config' = [config EXCEPT ![e] = <<>>]
          /\ UNCHANGED <<env, schema>>
          /\ \A f \in Engines : at'[f] = IF f = e THEN "idle" ELSE at[f]
      BY <1>3 DEF End, Leave
    <2>2. \A f : Errors(f)' = Errors(f) /\ ConfigOf(f)' = ConfigOf(f)
      BY <2>1, ConfigStays
    <2> QED
      BY <1>3, <1>a, <1>b, <2>1, <2>2 DEF CInv, Migrated, Constructed, Phases
  <1>4. ASSUME NEW e \in Processes, Configure(e) PROVE CInv'
    <2>1. /\ phase' = [phase EXCEPT ![e] = "configured"] /\ phase[e] = "off" /\ Errors(e) = {}
          /\ config' = [config EXCEPT ![e] = ConfigOf(e)]
          /\ UNCHANGED <<vars, env>>
      BY <1>4 DEF Configure, ConfigOf
    <2>2. \A f : Errors(f)' = Errors(f) /\ ConfigOf(f)' = ConfigOf(f)
      BY <2>1, ConfigStays
    <2> QED
      BY <1>a, <1>b, <2>1, <2>2 DEF vars, CInv, Migrated, Constructed, Phases
  <1>5. ASSUME NEW e \in Processes, MigrateStep(e) PROVE CInv'
    <2>1. e \in Engines /\ phase[e] = "open" /\ Apply(e) /\ UNCHANGED <<env, phase, config>>
      BY <1>5 DEF MigrateStep
    <2>2. \A f : Errors(f)' = Errors(f) /\ ConfigOf(f)' = ConfigOf(f)
      BY <2>1, ConfigStays
    <2>3. /\ Len(schema) \in Nat /\ Len(schema)' \in Nat /\ Len(schema) <= Len(schema)'
          /\ \A f \in Engines : at'[f] = "done" => (f # e /\ at[f] = "done") \/ Migrated(f)'
      BY <2>1, ApplyMigrates
    <2>4. \A f \in Engines : Migrated(f) => Migrated(f)'
      BY <2>3, MigrateAssumption DEF Migrated
    <2>5. \A f \in Engines : f # e => at'[f] = at[f]
      BY <2>1 DEF Apply, Start, Lock, ReadVersions, RunBody, RecordVersion, Commit, Return, Goto,
                  MInv, MigrateTypes
    <2> QED
      BY <1>a, <2>1, <2>2, <2>3, <2>4, <2>5 DEF CInv
  <1>6. ASSUME NEW e \in Processes,
               Depend(e) \/ Restart(e) \/ Open(e) \/ Connect(e) \/ Resume(e) \/ Serve(e)
        PROVE  CInv'
    <2>1. CASE Depend(e)
      <3>1. PICK f \in Engines : phase[f] = "serving"
        BY <2>1 DEF Depend
      <3>2. Migrated(f)
        BY <3>1 DEF CInv
      <3> QED
        BY <1>2, <2>1, <3>2 DEF Depend, Phases, Constructed
    <2>2. CASE Restart(e)
      BY <1>2, <2>2 DEF Restart, Phases, Constructed
    <2>3. CASE Open(e)
      BY <1>2, <2>3 DEF Open, Phases, Constructed
    <2>4. CASE Connect(e)
      BY <1>2, <2>4 DEF Connect, Phases, Constructed
    <2>5. CASE Resume(e)
      <3>1. e \in Engines /\ phase[e] = "connected" /\ GoOn(e, "resumed") /\ at[e] = "done"
        BY <2>5 DEF Resume, CInv
      <3> QED
        BY <1>2, <1>a, <3>1 DEF Phases, Constructed
    <2>6. CASE Serve(e)
      <3>1. phase[e] \in {"resumed", "connected"} /\ GoOn(e, "serving") /\ (e \in Engines => at[e] = "done")
        BY <2>6 DEF Serve, CInv
      <3> QED
        BY <1>2, <3>1 DEF Phases, Constructed
    <2> QED
      BY <1>6, <2>1, <2>2, <2>3, <2>4, <2>5, <2>6
  <1>7. ASSUME NEW e \in Processes, Refuse(e) \/ Fail(e) PROVE CInv'
    BY <1>3, <1>7 DEF Refuse, Fail
  <1> QED
    BY <1>1, <1>4, <1>5, <1>6, <1>7 DEF StartupNext, Run

(* A process that serves runs with what its environment asks for, or the   *)
(* default where that is no positive number, never with the fallback of a  *)
(* value it could not read, and finds its schema: for any processes, any   *)
(* environments and any failures, with the overflow of seconds as it is.   *)
THEOREM ServedAsConfigured == StartupSpec => []ServesAsConfigured
  <1>1. StartupInit => MInv /\ CInv
    BY InitMInv, InitCInv DEF StartupInit
  <1>2. MInv /\ CInv /\ [StartupNext]_startupVars => (MInv /\ CInv)'
    BY StartupMInv, StartupCInv
  <1> QED
    BY <1>1, <1>2, CInvServes, PTL DEF StartupSpec
=============================================================================
