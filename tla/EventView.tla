----------------------------- MODULE EventView ------------------------------
(***************************************************************************)
(* The audit view of the dashboard: an operator filters and pages through  *)
(* the log while it grows.                                                 *)
(*                                                                         *)
(* Every change of filter or page starts a load and aborts the one before. *)
(* The API lists and counts in two statements; an answer may come late, in *)
(* another order than the loads, or not at all.                            *)
(***************************************************************************)
EXTENDS Integers, Sequences, FiniteSets

CONSTANTS
    Kinds,      \* The kinds of entry, of which the operator selects one.
    IPs,        \* The source addresses, of which the operator types one.
    PageSize,   \* PAGE of the view, the limit of its loads.
    MaxLimit,   \* The upper bound of Normalized.
    MaxLog,     \* Bound on the length of the log.
    MaxLoads    \* Bound on the number of loads.

Any == ""       \* No constraint.

(* The bound of Normalized leaves the pages of the view as they are.       *)
ASSUME ViewAssumption ==
    /\ Any \notin Kinds \cup IPs
    /\ PageSize \in Nat \ {0} /\ MaxLimit \in Nat /\ PageSize <= MaxLimit
    /\ MaxLog \in Nat /\ MaxLoads \in Nat \ {0}

VARIABLES
    log,        \* The entries of audit_log by seq.
    filter,     \* kind and ipFilter
    typed,      \* ip: what the debounced ipFilter will settle to.
    offset,     \* offset
    loading,    \* loading
    data,       \* data; the empty sequence before the first answer.
    error,      \* error # null
    loads,      \* The loads so far.
    hasty,      \* History: the page was turned by another filter's total.
    sweep       \* History: pages shown one after another from the first.

viewVars == <<log, filter, typed, offset, loading, data, error, loads, hasty, sweep>>
view == <<filter, typed, offset, loading, data, error, hasty, sweep>>

Entry == [kind : Kinds, ip : IPs]
Filter == [kind : Kinds \cup {Any}, ip : IPs \cup {Any}]
Seqs == 1..MaxLog
Load == [state : {"sent", "listed", "answered", "failed", "ended"}, filter : Filter,
         offset : Nat, entries : Seq(Seqs), total : Nat, asOf : Nat]

ViewTypeOK ==
    /\ log \in Seq(Entry)
    /\ filter \in Filter /\ typed \in IPs \cup {Any} /\ offset \in Nat
    /\ loading \in BOOLEAN /\ error \in BOOLEAN /\ hasty \in BOOLEAN
    /\ loads \in Seq(Load) /\ data \in Seq(Load) /\ Len(data) <= 1
    /\ \A i \in 1..Len(loads) : Len(loads[i].entries) <= PageSize
    /\ sweep \in [filter : Filter, reached : Int, asOf : Nat, read : SUBSET Seqs]

NewLoad(f, o) ==
    [state |-> "sent", filter |-> f, offset |-> o, entries |-> <<>>, total |-> 0, asOf |-> 0]

NoFilter == [kind |-> Any, ip |-> Any]

ViewInit ==
    /\ log = <<>>
    /\ filter = NoFilter /\ typed = Any /\ offset = 0
    /\ loading = TRUE /\ error = FALSE /\ hasty = FALSE
    /\ data = <<>>
    /\ loads = <<NewLoad(NoFilter, 0)>>
    /\ sweep = [filter |-> NoFilter, reached |-> -PageSize, asOf |-> 0, read |-> {}]

-----------------------------------------------------------------------------
(***************************************************************************)
(* The store and the API: handleEvents.                                    *)
(***************************************************************************)
Grow(e) ==
    /\ Len(log) < MaxLog
    /\ log' = Append(log, e)
    /\ UNCHANGED <<view, loads>>

(* filterClause, over the first n rows.                                    *)
Matching(f, n) == {s \in 1..n : f.kind \in {Any, log[s].kind} /\ f.ip \in {Any, log[s].ip}}

(* ORDER BY seq DESC.                                                      *)
Rank(rows, s) == Cardinality({r \in rows : r > s})

(* Normalized.  Mutant: a page one short of the view's.                    *)
OneShort(limit) == limit - 1
Normalized(limit) == IF limit > MaxLimit THEN MaxLimit ELSE limit

(* LIMIT and OFFSET.                                                       *)
Page(rows, o) ==
    LET on == {s \in rows : Rank(rows, s) >= o /\ Rank(rows, s) < o + Normalized(PageSize)}
    IN  [i \in 1..Cardinality(on) |-> CHOOSE s \in on : Rank(on, s) = i - 1]

List(c) ==
    LET rows == Matching(loads[c].filter, Len(log))
    IN  /\ loads[c].state = "sent"
        /\ loads' = [loads EXCEPT ![c].state = "listed", ![c].asOf = Len(log),
                                  ![c].entries = Page(rows, loads[c].offset)]
        /\ UNCHANGED <<log, view>>

Counted(c) == Cardinality(Matching(loads[c].filter, Len(log)))

Count(c) ==
    /\ loads[c].state = "listed"
    /\ loads' = [loads EXCEPT ![c].state = "answered", ![c].total = Counted(c)]
    /\ UNCHANGED <<log, view>>

(* What became of a load that ends in an error.                            *)
Failed(load) == [NewLoad(load.filter, load.offset) EXCEPT !.state = "failed"]

(* A statement fails, the server is not reached, or the timer of request   *)
(* fires.  Mutant: no timer, and every failure reported.                   *)
NoTimer(c) == FALSE
Fail(c) ==
    /\ loads[c].state \in {"sent", "listed"}
    /\ loads' = [loads EXCEPT ![c] = Failed(loads[c])]
    /\ UNCHANGED <<log, view>>

-----------------------------------------------------------------------------
(***************************************************************************)
(* The view: Events.                                                       *)
(***************************************************************************)

(* A load that is settled or aborted.                                      *)
Gone == [NewLoad(NoFilter, 0) EXCEPT !.state = "ended"]
Ended(c) == [loads EXCEPT ![c] = Gone]

(* The cleanup of the effect: controller.abort.  Mutant: none.             *)
NotAborted == loads
Aborted == [c \in DOMAIN loads |-> Gone]

(* A page shown next to the last one of the sweep, or the first page.      *)
Swept(load) ==
    IF load.offset = 0
    THEN [filter |-> load.filter, reached |-> 0, asOf |-> load.asOf,
          read |-> {load.entries[i] : i \in 1..Len(load.entries)}]
    ELSE IF load.filter = sweep.filter /\ load.offset = sweep.reached + PageSize
    THEN [sweep EXCEPT !.reached = load.offset,
                       !.read = @ \cup {load.entries[i] : i \in 1..Len(load.entries)}]
    ELSE sweep

Show(c) ==
    /\ loads[c].state = "answered"
    /\ data' = <<loads[c]>>
    /\ error' = FALSE /\ loading' = FALSE
    /\ sweep' = Swept(loads[c])
    /\ loads' = Ended(c)
    /\ UNCHANGED <<log, filter, typed, offset, hasty>>

ShowError(c) ==
    /\ loads[c].state = "failed"
    /\ error' = TRUE /\ loading' = FALSE
    /\ loads' = Ended(c)
    /\ UNCHANGED <<log, filter, typed, offset, hasty, data, sweep>>

(* The effect: a load for what is selected now, instead of the one before. *)
LoadEffect(f, o) ==
    /\ Len(loads) < MaxLoads
    /\ filter' = f /\ offset' = o
    /\ loading' = TRUE
    /\ loads' = Append(Aborted, NewLoad(f, o))
    /\ UNCHANGED <<log, data, error, sweep>>

Refresh == LoadEffect(filter, offset) /\ UNCHANGED <<typed, hasty>>

(* Where changeFilter goes.  Mutant: it stays on its page.                 *)
SamePage == offset
FirstPage == 0

(* changeFilter with a kind, which applies at once.                        *)
SelectKind(k) ==
    /\ filter.kind # k
    /\ LoadEffect([filter EXCEPT !.kind = k], FirstPage)
    /\ hasty' = FALSE
    /\ UNCHANGED typed

(* changeFilter with an address: the page is reset at once, the address    *)
(* applies once it has settled.                                            *)
TypeIP(i) ==
    /\ typed # i
    /\ typed' = i
    /\ hasty' = FALSE
    /\ \/ offset # FirstPage /\ LoadEffect(filter, FirstPage)
       \/ /\ offset = FirstPage
          /\ UNCHANGED <<log, filter, offset, loading, data, error, loads, sweep>>

Settle ==
    /\ filter.ip # typed
    /\ LoadEffect([filter EXCEPT !.ip = typed], offset)
    /\ UNCHANGED <<typed, hasty>>

(* The pager, which goes by the total on screen.                           *)
Total == IF data = <<>> THEN 0 ELSE data[1].total

Turn ==
    /\ Total > PageSize
    /\ \/ /\ offset # 0
          /\ LoadEffect(filter, offset - PageSize)
          /\ UNCHANGED hasty
       \/ /\ offset + PageSize < Total
          /\ LoadEffect(filter, offset + PageSize)
          /\ hasty' = (hasty \/ data[1].filter # filter \/ typed # filter.ip)
    /\ UNCHANGED typed

ViewNext ==
    \/ \E e \in Entry : Grow(e)
    \/ \E c \in 1..Len(loads) : List(c) \/ Count(c) \/ Fail(c) \/ Show(c) \/ ShowError(c)
    \/ Refresh \/ Settle \/ Turn
    \/ \E k \in Kinds \cup {Any} : SelectKind(k)
    \/ \E i \in IPs \cup {Any} : TypeIP(i)

ViewSpec == ViewInit /\ [][ViewNext]_viewVars

(* The timer of request fires, and the browser handles what has come.      *)
ViewFairSpec ==
    /\ ViewSpec
    /\ \A c \in 1..MaxLoads :
         /\ WF_viewVars(c <= Len(loads) /\ Fail(c))
         /\ WF_viewVars(c <= Len(loads) /\ (Show(c) \/ ShowError(c)))

-----------------------------------------------------------------------------
(* "Aborting the previous request is what stops a slow answer for an old   *)
(* filter from overwriting the answer for the current one": what is shown  *)
(* without a loading mark or an error is what is selected.                 *)
ShownIsCurrent == ~loading /\ ~error =>
    data[1].filter = filter /\ data[1].offset = offset

(* An empty page means that nothing matches: a page the operator turned to *)
(* by the total of what is selected is never beyond the end: changeFilter  *)
(* goes back to the first page, and the log only grows.  A page turned to  *)
(* while the address settles or the filter's first load is under way goes  *)
(* by the total of another filter, and may be.                             *)
EmptyMeansNone ==
    /\ ~loading /\ ~error
    /\ data[1].entries = <<>>
    /\ ~hasty
    => Matching(filter, data[1].asOf) = {}

(* Paging "would skip every entry between the two" if limits disagreed: an *)
(* operator who goes through the pages one after another has seen, on the  *)
(* last, every match there was when the first was listed, however many     *)
(* entries were appended meanwhile.                                        *)
NoEntrySkipped == \A d \in {data[i] : i \in 1..Len(data)} :
    /\ d.filter = sweep.filter /\ d.offset = sweep.reached
    /\ d.offset + PageSize >= d.total
    => Matching(sweep.filter, sweep.asOf) \subseteq sweep.read

(* "A spinner that never ends is worse than an error": it ends.            *)
LoadingEnds == []<>~loading
=============================================================================
