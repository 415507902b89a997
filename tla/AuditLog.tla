------------------------------ MODULE AuditLog ------------------------------
(***************************************************************************)
(* What the audit writer promises, with no queue, no lock, no goroutine    *)
(* and no process: a log that only ever grows by one row linked to its     *)
(* current head, for an entry that was built before and is stored once,    *)
(* and acknowledgements that are given only for stored entries.            *)
(*                                                                         *)
(* Entries are stored in any order, whatever their timestamps: the code    *)
(* stamps an entry before it reaches the queue.  An entry may be lost      *)
(* before it is stored, never after.                                       *)
(***************************************************************************)
EXTENDS AuditChain

CONSTANT MaxTime   \* The last value of the clock, which starts at 1.

VARIABLES
    log,      \* The rows of audit_log.
    nextSeq,  \* The next value of audit_log.seq.
    built,    \* The entries that are built and neither stored nor lost.
    acked,    \* The ids whose callers were told the entry is durable.
    clock     \* The wall clock.

vars == <<log, nextSeq, built, acked, clock>>

Init ==
    /\ log = {}
    /\ nextSeq = 1
    /\ built = {}
    /\ acked = {}
    /\ clock = 1

Tick ==
    /\ clock < MaxTime
    /\ clock' = clock + 1
    /\ UNCHANGED <<log, nextSeq, built, acked>>

Build(id) ==
    /\ id \notin StoredIds(log)
    /\ \A e \in built : e.id # id
    /\ built' = built \cup {[id |-> id, ts |-> clock]}
    /\ UNCHANGED <<log, nextSeq, acked, clock>>

(* One entry is stored.  The process may end in the same step, and then    *)
(* the entries that were not stored are lost with it.                      *)
Store(e, lost) ==
    /\ e \in built
    /\ log' = log \cup {Seal(e, HeadHash(log), nextSeq)}
    /\ nextSeq' = nextSeq + 1
    /\ built' = built \ (lost \cup {e})
    /\ UNCHANGED <<acked, clock>>

(* Entries are lost: the queue was full, the payload or the INSERT failed, *)
(* a caller gave up, or the process ended.                                 *)
Lose(lost) ==
    /\ built' = built \ lost
    /\ UNCHANGED <<log, nextSeq, acked, clock>>

Acknowledge(id) ==
    /\ id \in StoredIds(log)
    /\ acked' = acked \cup {id}
    /\ UNCHANGED <<log, nextSeq, built, clock>>

Next ==
    \/ Tick
    \/ \E id \in Ids : Build(id) \/ Acknowledge(id)
    \/ \E lost \in SUBSET built : Lose(lost) \/ \E e \in built : Store(e, lost)

Spec == Init /\ [][Next]_vars
=============================================================================
