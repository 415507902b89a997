---------------------------- MODULE AuditVerify -----------------------------
(***************************************************************************)
(* Verification of the audit chain: the walker of internal/audit/verify.go *)
(* and the two VerifyChain that stream rows through it, over every log the *)
(* writer can produce (AuditLog, which AuditWriter implements), including  *)
(* logs somebody has altered behind the writer's back.                     *)
(*                                                                         *)
(* The dashboard verifies while the engine appends.  VerifyChain of the    *)
(* PostgreSQL store is two statements on a pool, not one transaction: the  *)
(* anchor is read first, the rows of the range later.                      *)
(***************************************************************************)
EXTENDS AuditLog, FiniteSets

CONSTANTS
    None,      \* Nothing: no row altered, no verdict yet.
    Hashed,    \* The encoding of each entry's payload, which its hash covers.
    Stored,    \* What the payload column holds for each entry once it is stored.
    ReadBack   \* The encoding a reader hashes, for everything a column may hold.

Alterations == {"payload", "rewrite", "rehash", "remove"}

ASSUME VerifyAssumption ==
    /\ MaxTime \in Nat \ {0}
    /\ DOMAIN Hashed = Ids
    /\ Stored \in [Ids -> DOMAIN ReadBack]
    /\ None \notin [how : Alterations, id : Ids, last : BOOLEAN]

(* A column gives back the bytes an entry's hash was computed over when it *)
(* holds what was stored, and only then: EncodingIsFaithful of Payload.    *)
ASSUME EncodingAssumption ==
    \A id \in Ids, c \in DOMAIN ReadBack : ReadBack[c] = Hashed[id] <=> c = Stored[id]

VARIABLES
    column,     \* The payload column of each entry.
    verifier,   \* A call of VerifyChain: its range, its anchor, its verdict.
    touched     \* The row somebody altered, and how.

verifyVars == <<vars, column, verifier, touched>>

-----------------------------------------------------------------------------
(***************************************************************************)
(* chainWalker.  The walk stops at the first broken entry, which the       *)
(* result names; time 0 is Go's zero time, "unbounded on that side".       *)
(***************************************************************************)
(* scanEntry, ComputeHash: a row as it is read has the digest it carries.  *)
(* Other bytes than the ones that were hashed give a digest no row has.    *)
Rehashes(row) ==
    /\ ReadBack[column[row.entry.id]] = Hashed[row.entry.id]
    /\ ComputeHash(row.prev, row.entry) = row.hash

NewChainWalker(anchor) == [prev |-> anchor, position |-> 0, ok |-> TRUE, brokenAt |-> None]

Stepped(walker, row, intact) ==
    IF ~walker.ok THEN walker
    ELSE [prev     |-> IF intact THEN row.hash ELSE walker.prev,
          position |-> walker.position + 1,
          ok       |-> intact,
          brokenAt |-> IF intact THEN None ELSE row.entry.id]

(* Mutant of Step: the links are compared, the content is not rehashed.    *)
StepWithoutRehash(walker, row) == Stepped(walker, row, row.prev = walker.prev)
Step(walker, row) == Stepped(walker, row, row.prev = walker.prev /\ Rehashes(row))

(* The walker after each of the rows.                                      *)
Walk(anchor, rows) ==
    LET walker[i \in 0..Len(rows)] ==
          IF i = 0 THEN NewChainWalker(anchor) ELSE Step(walker[i - 1], rows[i])
    IN  walker

VerifyResult(anchor, rows) ==
    LET w == Walk(anchor, rows)[Len(rows)]
    IN  [ok |-> w.ok, checked |-> w.position, brokenAt |-> w.brokenAt]

(* ORDER BY: the element at i is the one with i - 1 elements before it.    *)
InOrder(S, before) ==
    [i \in 1..Cardinality(S) |->
        CHOOSE x \in S : Cardinality({y \in S : <<y, x>> \in before}) = i - 1]

InSeqOrder(rows) == InOrder(rows, {p \in rows \X rows : p[1].seq < p[2].seq})

(***************************************************************************)
(* The PostgreSQL store.                                                   *)
(***************************************************************************)
(* Mutants: the anchor may lie in the range; the range excludes its end.   *)
AnchorInRange(rows, from) ==
    IF from = 0 THEN GenesisHash ELSE HeadHash({r \in rows : r.entry.ts <= from})

TimeRangeOpen(rows, from, to) ==
    {r \in rows : (from = 0 \/ r.entry.ts >= from) /\ (to = 0 \/ r.entry.ts < to)}

AnchorBefore(rows, from) ==
    IF from = 0 THEN GenesisHash ELSE HeadHash({r \in rows : r.entry.ts < from})

TimeRange(rows, from, to) ==
    {r \in rows : (from = 0 \/ r.entry.ts >= from) /\ (to = 0 \/ r.entry.ts <= to)}

PostgresVerify(rows, from, to) ==
    VerifyResult(AnchorBefore(rows, from), InSeqOrder(TimeRange(rows, from, to)))

(***************************************************************************)
(* The in-memory store: skip the leading entries before the range, then    *)
(* walk until the first entry after it.                                    *)
(***************************************************************************)
MemoryVerify(rows, from, to) ==
    LET entries == InSeqOrder(rows)
        n == Len(entries)
        start == CHOOSE i \in 1..(n + 1) :
                    /\ \A j \in 1..(i - 1) : from # 0 /\ entries[j].entry.ts < from
                    /\ i = n + 1 \/ from = 0 \/ entries[i].entry.ts >= from
        end == CHOOSE i \in (start - 1)..n :
                    /\ \A j \in start..i : to = 0 \/ entries[j].entry.ts <= to
                    /\ i = n \/ (to # 0 /\ entries[i + 1].entry.ts > to)
        anchor == IF start = 1 THEN GenesisHash ELSE entries[start - 1].hash
    IN  VerifyResult(anchor, SubSeq(entries, start, end))

-----------------------------------------------------------------------------
NoVerifier == [at |-> "idle", from |-> 0, to |-> 0, anchor |-> GenesisHash,
               next |-> 0, result |-> None]

VerifyInit ==
    /\ Init
    /\ column = Stored
    /\ verifier = NoVerifier
    /\ touched = None

(* VerifyChain: the anchor is read.  next is history.                      *)
ReadAnchor(from, to) ==
    /\ verifier.at = "idle" /\ touched = None
    /\ verifier' = [at |-> "anchored", from |-> from, to |-> to,
                    anchor |-> AnchorBefore(log, from), next |-> nextSeq, result |-> None]
    /\ UNCHANGED <<vars, column, touched>>

(* VerifyChain: the rows of the range are read, in one statement, walked,  *)
(* and the result is returned.                                             *)
WalkRows ==
    /\ verifier.at = "anchored"
    /\ verifier' = [verifier EXCEPT
         !.at = "done",
         !.result = VerifyResult(verifier.anchor,
                        InSeqOrder(TimeRange(log, verifier.from, verifier.to)))]
    /\ UNCHANGED <<vars, column, touched>>

(***************************************************************************)
(* A row is altered past the append-only triggers, as the tests' Tamper    *)
(* and Truncate do: its payload or another field is rewritten, the field   *)
(* is rewritten and the row rehashed, or the row is removed.               *)
(***************************************************************************)
Rewritten(r) == [r EXCEPT !.entry.ts = IF @ = 1 THEN 2 ELSE 1]

Rehashed(r) == LET q == Rewritten(r) IN [q EXCEPT !.hash = ComputeHash(q.prev, q.entry)]

Tamper(r) ==
    /\ touched = None /\ verifier.at = "idle"
    /\ \E how \in Alterations :
         /\ touched' = [how |-> how, id |-> r.entry.id,
                        last |-> \A q \in log : q.seq <= r.seq]
         /\ log' = (log \ {r}) \cup CASE how = "payload" -> {r}
                                      [] how = "rewrite" -> {Rewritten(r)}
                                      [] how = "rehash"  -> {Rehashed(r)}
                                      [] how = "remove"  -> {}
         /\ IF how = "payload"
            THEN \E c \in DOMAIN ReadBack \ {column[r.entry.id]} :
                    column' = [column EXCEPT ![r.entry.id] = c]
            ELSE UNCHANGED column
    /\ UNCHANGED <<nextSeq, built, acked, clock, verifier>>

(* The log grows until it is altered, or until a call has returned, which  *)
(* is the last thing that is looked at.                                    *)
Grow ==
    /\ touched = None /\ verifier.at # "done"
    /\ Next
    /\ UNCHANGED <<column, verifier, touched>>

VerifyNext ==
    \/ Grow
    \/ \E from, to \in 0..MaxTime : ReadAnchor(from, to)
    \/ WalkRows
    \/ \E r \in log : Tamper(r)

VerifySpec == VerifyInit /\ [][VerifyNext]_verifyVars

-----------------------------------------------------------------------------
(***************************************************************************)
(* Properties.                                                             *)
(***************************************************************************)
Times == 0..MaxTime

(* The timestamps never decrease along the log.                            *)
TimeOrdered ==
    \A r, q \in log : r.seq < q.seq => r.entry.ts <= q.entry.ts

(* On the whole log, altered or not, VerifyChain says ok exactly when      *)
(* every row carries the hash of its content and of the row before it.  So *)
(* an alteration is found, be the entry rewritten, rewritten and rehashed, *)
(* or removed: only one of the last entry that leaves a consistent chain   *)
(* goes unnoticed.                                                         *)
TamperingIsDetected ==
    LET ok == PostgresVerify(log, 0, 0).ok
    IN  /\ ok <=> Intact(log) /\ (touched # None => touched.how # "payload")
        /\ touched # None /\ (touched.last => touched.how \in {"payload", "rewrite"}) => ~ok

(* VerifyChain of an unaltered log reports a broken entry only for a range *)
(* that is bounded, and either the timestamps do not follow the log, or an *)
(* entry from before the range was appended after the anchor was read.     *)
(* The whole log always verifies, whatever is appended meanwhile: what the *)
(* store gives back of a payload is what its hash was computed over.       *)
AlarmHasCause ==
    touched = None /\ verifier.at = "done" /\ ~verifier.result.ok
        => /\ verifier.from # 0 \/ verifier.to # 0
           /\ \/ ~TimeOrdered
              \/ \E r \in log : r.seq >= verifier.next /\ r.entry.ts < verifier.from
=============================================================================
