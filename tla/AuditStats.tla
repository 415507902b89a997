----------------------------- MODULE AuditStats -----------------------------
(***************************************************************************)
(* The figures of the Live view: Stats of the two audit stores.            *)
(*                                                                         *)
(* The PostgreSQL store computes an answer with four statements on a pool, *)
(* while the engine appends: the totals, the two rankings and the chart    *)
(* are read at different times.  The in-memory store holds a lock.         *)
(***************************************************************************)
EXTENDS AuditVerify, FiniteSetsExt

CONSTANTS
    Traffic,     \* The entries of kind traffic.
    Fields,      \* The verdict, ip and rule a column holds; "" is none.
    LabelOrder,  \* The order of labels.
    TopLimit,    \* LIMIT of a ranking.
    BucketWidth  \* bucketSeconds.

ASSUME StatsAssumption ==
    /\ Traffic \subseteq Ids
    /\ DOMAIN Fields = DOMAIN ReadBack
    /\ TopLimit \in Nat \ {0} /\ BucketWidth \in Nat \ {0}
    /\ IsInjective(LabelOrder) /\ LabelOrder \in [DOMAIN LabelOrder -> Nat]

(* trafficPayload: a request has a verdict, and one that is blocked has    *)
(* the address the proxy saw and the name of the rule.                     *)
ASSUME TrafficAssumption ==
    \A id \in Traffic :
        LET of == Fields[Stored[id]]
        IN  /\ of.verdict \in {"allow", "block"}
            /\ of.verdict = "block" => {of.ip, of.rule} \subseteq DOMAIN LabelOrder \ {""}

VARIABLE stats   \* A call of Stats: how far it is, and its answer so far.

statsVars == <<verifyVars, stats>>

-----------------------------------------------------------------------------
Value(r, field) == Fields[column[r.entry.id]][field]

(* The requests of the window.                                             *)
Since(rows, since) == {r \in rows : r.entry.id \in Traffic /\ r.entry.ts >= since}

With(rows, field, value) == {r \in rows : Value(r, field) = value}
Blocked(rows) == With(rows, "verdict", "block")

(* Rows counted by label: the most frequent first, then by label.          *)
Ranking(rows, field) ==
    LET labels == {Value(r, field) : r \in rows} \ {""}
        count(l) == Cardinality(With(rows, field, l))
        sorted == InOrder(labels, {p \in labels \X labels :
                     \/ count(p[1]) > count(p[2])
                     \/ count(p[1]) = count(p[2]) /\ LabelOrder[p[1]] < LabelOrder[p[2]]})
        n == IF Len(sorted) > TopLimit THEN TopLimit ELSE Len(sorted)
    IN  [i \in 1..n |-> [label |-> sorted[i], count |-> count(sorted[i])]]

(* The statements of the PostgreSQL store.                                 *)
Totals(since) ==
    LET rows == Since(log, since)
    IN  [total   |-> Cardinality(rows),
         allowed |-> Cardinality(With(rows, "verdict", "allow")),
         blocked |-> Cardinality(Blocked(rows))]

topBlocked(since, field) == Ranking(Blocked(Since(log, since)), field)

(* Mutant: the chart starts after the edge of the window.                  *)
AfterEdge(since) == since + 1
Edge(since) == since

series(since) ==
    LET rows == Since(log, Edge(since))
        bucket(r) == (r.entry.ts \div BucketWidth) * BucketWidth
        in(rs, b) == Cardinality({r \in rs : bucket(r) = b})
    IN  {[start   |-> b,
          allowed |-> in(With(rows, "verdict", "allow"), b),
          blocked |-> in(Blocked(rows), b)] : b \in {bucket(r) : r \in rows}}

(***************************************************************************)
(* The in-memory store: what is not blocked counts as allowed, and there   *)
(* is no chart.  Its rows are the ones the table holds.                    *)
(***************************************************************************)
MemoryStats(rows, since) ==
    LET recent == Since(rows, since)
        blocked == Blocked(recent)
    IN  [totals |-> [total   |-> Cardinality(recent),
                     allowed |-> Cardinality(recent \ blocked),
                     blocked |-> Cardinality(blocked)],
         ips    |-> Ranking(blocked, "ip"),
         rules  |-> Ranking(blocked, "rule")]

(***************************************************************************)
(* List and Count of both stores: filterClause and memoryMatches, newest   *)
(* first, one page.  "" and time 0 mean no constraint.                     *)
(***************************************************************************)
Filter == [traffic : BOOLEAN, verdict : {"", "block"}, from : Times, to : Times]

Matches(r, f) ==
    /\ f.traffic => r.entry.id \in Traffic
    /\ f.verdict \in {"", Value(r, "verdict")}
    /\ f.from = 0 \/ r.entry.ts >= f.from
    /\ f.to = 0 \/ r.entry.ts <= f.to

Matching(rows, f) == {r \in rows : Matches(r, f)}

Page(entries, limit, offset) == SubSeq(entries, offset + 1, offset + limit)

PostgresList(rows, f, limit, offset) ==
    LET found == Matching(rows, f)
        n == Cardinality(found)
        newest == InOrder(found, {p \in found \X found : p[1].seq > p[2].seq})
    IN  Page(newest, IF offset + limit > n THEN n - offset ELSE limit, offset)

(* SliceStable: entries of the same time stay in the order of the log.     *)
MemoryList(rows, f, limit, offset) ==
    LET found == Matching(rows, f)
        newest == InOrder(found, {p \in found \X found :
                     \/ p[1].entry.ts > p[2].entry.ts
                     \/ p[1].entry.ts = p[2].entry.ts /\ p[1].seq < p[2].seq})
        n == Len(newest)
    IN  IF offset >= n THEN <<>>
        ELSE Page(newest, IF n - offset > limit THEN limit ELSE n - offset, offset)

-----------------------------------------------------------------------------
NoStats == [at |-> "idle", since |-> 0, totals |-> None, ips |-> None,
            rules |-> None, series |-> None]

StatsInit == VerifyInit /\ stats = NoStats

(* A request with a window that reaches back to since.                     *)
CallStats(since) ==
    /\ stats.at = "idle" /\ verifier.at = "idle" /\ touched = None
    /\ stats' = [stats EXCEPT !.at = "totals", !.since = since]
    /\ UNCHANGED verifyVars

ReadTotals ==
    /\ stats.at = "totals"
    /\ stats' = [stats EXCEPT !.at = "ips", !.totals = Totals(stats.since)]
    /\ UNCHANGED verifyVars

ReadTopIPs ==
    /\ stats.at = "ips"
    /\ stats' = [stats EXCEPT !.at = "rules", !.ips = topBlocked(stats.since, "ip")]
    /\ UNCHANGED verifyVars

ReadTopRules ==
    /\ stats.at = "rules"
    /\ stats' = [stats EXCEPT !.at = "series", !.rules = topBlocked(stats.since, "rule")]
    /\ UNCHANGED verifyVars

ReadSeries ==
    /\ stats.at = "series"
    /\ stats' = [stats EXCEPT !.at = "done", !.series = series(stats.since)]
    /\ UNCHANGED verifyVars

(* A statement fails: the caller gets an error and none of the figures.    *)
StatsFails ==
    /\ stats.at \notin {"idle", "done"}
    /\ stats' = [NoStats EXCEPT !.at = "done"]
    /\ UNCHANGED verifyVars

StatsNext ==
    \/ stats.at = "idle" /\ VerifyNext /\ UNCHANGED stats
    \/ stats.at \notin {"idle", "done"} /\ Grow /\ UNCHANGED stats
    \/ \E since \in 1..clock : CallStats(since)
    \/ ReadTotals \/ ReadTopIPs \/ ReadTopRules \/ ReadSeries \/ StatsFails

StatsSpec == StatsInit /\ [][StatsNext]_statsVars

-----------------------------------------------------------------------------
Counted(ranking) == MapThenSumSet(LAMBDA i : ranking[i].count, DOMAIN ranking)
Drawn(chart, verdict) == MapThenSumSet(LAMBDA bucket : bucket[verdict], chart)

(* The figures of one answer fit together although four statements read    *)
(* them while the log grows: no tile is ahead of the chart below it, no    *)
(* ranking counts more than the chart draws, and one that is not cut off   *)
(* accounts for every blocked request of the tile.  All four go by the     *)
(* same start of the window, and the log only grows.                       *)
FiguresFit ==
    stats.at = "done" /\ stats.totals # None =>
        /\ stats.totals.allowed + stats.totals.blocked = stats.totals.total
        /\ \A verdict \in {"allowed", "blocked"} :
              stats.totals[verdict] <= Drawn(stats.series, verdict)
        /\ \A ranking \in {stats.ips, stats.rules} :
              /\ Counted(ranking) <= Drawn(stats.series, "blocked")
              /\ Len(ranking) < TopLimit => stats.totals.blocked <= Counted(ranking)

(* "Exactly as the SQL store does": both stores give the same figures for  *)
(* any window of a log nobody has altered; as long as timestamps follow    *)
(* the log, the same verdict for any range, of altered logs too; and as    *)
(* long as no two are equal either, "matching the SQL store's ordering",   *)
(* the same pages for any filter.                                          *)
StoresAgree ==
    /\ touched = None => \A since \in Times :
          MemoryStats(log, since) = [totals |-> Totals(since),
                                     ips    |-> topBlocked(since, "ip"),
                                     rules  |-> topBlocked(since, "rule")]
    /\ TimeOrdered => \A from, to \in Times :
          MemoryVerify(log, from, to) = PostgresVerify(log, from, to)
    /\ TimeOrdered /\ (\A r, q \in log : r.entry.ts = q.entry.ts => r = q) =>
          \A f \in Filter, limit, offset \in 1..2 :
             MemoryList(log, f, limit, offset - 1) = PostgresList(log, f, limit, offset - 1)
=============================================================================
