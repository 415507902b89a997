------------------------------ MODULE Migrate -------------------------------
(***************************************************************************)
(* Schema migrations: Apply of internal/migrate.  Engines of different     *)
(* releases call it at the same time on one database, and any of them may  *)
(* fail or end at any point.  Startup has the calls and the restarts.      *)
(*                                                                         *)
(* A migration is its number: the file names are zero-padded, so that      *)
(* their lexical order is the order of the numbers.                        *)
(***************************************************************************)
EXTENDS Integers, Sequences

CONSTANTS
    Engines,    \* The processes that call Apply.
    Release,    \* The number of migrations each of them was built with.
    None        \* Nobody holds the lock.

ASSUME MigrateAssumption ==
    /\ Release \in [Engines -> Nat]
    /\ None \notin Engines

VARIABLES
    at,         \* The point Apply has reached in each engine.
    applied,    \* The map that appliedVersions returned.
    lock,       \* The session that holds the advisory lock.
    versions,   \* The committed rows of schema_migrations.
    schema      \* The committed migration bodies, in order.

vars == <<at, applied, lock, versions, schema>>

Numbers == UNION {1..Release[e] : e \in Engines}

TypeOK ==
    /\ at \in [Engines -> {"idle", "waiting", "locked", "loop", "body", "recorded", "done"}]
    /\ applied \in [Engines -> SUBSET Numbers]
    /\ lock \in Engines \cup {None}
    /\ versions \subseteq Numbers
    /\ schema \in Seq(Numbers)

Init ==
    /\ at = [e \in Engines |-> "idle"]
    /\ applied = [e \in Engines |-> {}]
    /\ lock = None
    /\ versions = {}
    /\ schema = <<>>

Goto(e, point) == at' = [at EXCEPT ![e] = point]

Start(e) ==
    /\ at[e] = "idle"
    /\ Goto(e, "waiting")
    /\ UNCHANGED <<applied, lock, versions, schema>>

(* pg_advisory_lock waits; the lock belongs to the session.                *)
Lock(e) ==
    /\ at[e] = "waiting" /\ lock = None
    /\ lock' = e
    /\ Goto(e, "locked")
    /\ UNCHANGED <<applied, versions, schema>>

(* CREATE TABLE IF NOT EXISTS, then appliedVersions.                       *)
AppliedVersions == versions
ReadVersions(e) ==
    /\ at[e] = "locked"
    /\ applied' = [applied EXCEPT ![e] = AppliedVersions]
    /\ Goto(e, "loop")
    /\ UNCHANGED <<lock, versions, schema>>

(* The files the loop has not passed, and the one it comes to: names are   *)
(* sorted, and what is applied is skipped.                                 *)
Remaining(e) == (1..Release[e]) \ applied[e]
Name(e) == CHOOSE m \in Remaining(e) : \A n \in Remaining(e) : m <= n

(* Begin and the body; nothing is visible before the commit.               *)
RunBody(e) ==
    /\ at[e] = "loop" /\ Remaining(e) # {}
    /\ Goto(e, "body")
    /\ UNCHANGED <<applied, lock, versions, schema>>

(* INSERT INTO schema_migrations, in the transaction of the body; a row    *)
(* that is there already makes it fail.  Mutant: on its own connection.    *)
RecordAtOnce(e) ==
    /\ at[e] = "body"
    /\ versions' = versions \cup {Name(e)}
    /\ Goto(e, "recorded")
    /\ UNCHANGED <<applied, lock, schema>>
RecordVersion(e) ==
    /\ at[e] = "body" /\ Name(e) \notin versions
    /\ Goto(e, "recorded")
    /\ UNCHANGED <<applied, lock, versions, schema>>

(* Commit.  applied is not written by the loop; here it also stands for    *)
(* the files the loop has passed.                                          *)
Commit(e) ==
    /\ at[e] = "recorded"
    /\ versions' = versions \cup {Name(e)}
    /\ schema' = Append(schema, Name(e))
    /\ applied' = [applied EXCEPT ![e] = @ \cup {Name(e)}]
    /\ Goto(e, "loop")
    /\ UNCHANGED lock

(* The deferred unlock.  Mutant: it is only called after an error.         *)
Kept == lock
Unlocked == None

Return(e) ==
    /\ at[e] = "loop" /\ Remaining(e) = {}
    /\ lock' = Unlocked
    /\ Goto(e, "done")
    /\ UNCHANGED <<applied, versions, schema>>

(* Any call fails, also a commit that took effect, or the process ends:    *)
(* the transaction is rolled back and the lock released, by the deferred   *)
(* unlock or with the session.                                             *)
Leave(e) ==
    /\ lock' = IF lock = e THEN None ELSE lock
    /\ applied' = [f \in Engines |-> IF f = e THEN {} ELSE applied[f]]
    /\ at' = [f \in Engines |-> IF f = e THEN "idle" ELSE at[f]]
    /\ UNCHANGED <<versions, schema>>

Apply(e) ==
    \/ Start(e) \/ Lock(e) \/ ReadVersions(e)
    \/ RunBody(e) \/ RecordVersion(e) \/ Commit(e) \/ Return(e)

-----------------------------------------------------------------------------
(* The body of every migration takes effect once and in the order of the   *)
(* numbers, whichever engines start, fail and start again, and it is on    *)
(* record exactly if it did ("each one inside its own transaction").       *)
SchemaIsRecorded ==
    /\ \A i \in 1..Len(schema) : schema[i] = i
    /\ versions = 1..Len(schema)
=============================================================================
