----------------------------- MODULE AuditChain -----------------------------
(***************************************************************************)
(* The hash chain of the audit log: what an entry is, how it is sealed     *)
(* against its predecessor, and what the audit_log table holds.            *)
(*                                                                         *)
(* SHA-256 is idealised.  A digest is the value it is computed from: the   *)
(* previous digest followed by the entry.  Equal digests then mean equal   *)
(* histories, which is collision resistance taken to the limit, and        *)
(* nothing else about SHA-256 is used.  The fields an entry is hashed over *)
(* are abstracted to its identity and its timestamp; the payload, kind and *)
(* request id are functions of the identity.                               *)
(***************************************************************************)
EXTENDS Integers, Sequences

CONSTANT Ids      \* The entry ids: one for every call of Record or RecordSync.

Entry == [id : Ids, ts : Nat]

Hash == Seq(Entry)

GenesisHash == <<>>

ComputeHash(prev, entry) == Append(prev, entry)

(***************************************************************************)
(* A row of audit_log.  seq is the BIGSERIAL primary key: it orders the    *)
(* rows, it may have gaps.                                                 *)
(***************************************************************************)
Row == [entry : Entry, prev : Hash, hash : Hash, seq : Nat]

Seal(entry, prev, seq) ==
    [entry |-> entry, prev |-> prev, hash |-> ComputeHash(prev, entry), seq |-> seq]

(***************************************************************************)
(* SELECT hash ... ORDER BY seq DESC LIMIT 1, over a set of rows.          *)
(***************************************************************************)
HeadHash(rows) ==
    IF rows = {}
    THEN GenesisHash
    ELSE (CHOOSE r \in rows : \A q \in rows : q.seq <= r.seq).hash

Before(rows, r) == {q \in rows : q.seq < r.seq}

StoredIds(rows) == {r.entry.id : r \in rows}

(***************************************************************************)
(* What an intact chain is, stated row by row: the recorded hash is the    *)
(* hash of the content, and prev_hash is the hash of the row before it.    *)
(***************************************************************************)
Intact(rows) ==
    \A r \in rows : /\ r.prev = HeadHash(Before(rows, r))
                    /\ r.hash = ComputeHash(r.prev, r.entry)
=============================================================================
