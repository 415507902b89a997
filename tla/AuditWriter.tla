---------------------------- MODULE AuditWriter -----------------------------
(***************************************************************************)
(* The audit writer of internal/audit/writer.go, with the store it appends *)
(* to and the process it lives in.                                         *)
(*                                                                         *)
(* Any number of goroutines call Record (asynchronous, for traffic) and    *)
(* RecordSync (synchronous, for administrative changes).  One goroutine    *)
(* takes entries from a bounded queue, seals each against the head of the  *)
(* chain and inserts it.  Close stops the intake and drains the queue.     *)
(* The process may end at any moment; a new one resumes from the store.    *)
(*                                                                         *)
(* A call is made once, and its name is also the id of its entry.          *)
(***************************************************************************)
EXTENDS AuditChain, FiniteSets

CONSTANTS
    AsyncCalls,       \* The calls of Record.
    SyncCalls,        \* The calls of RecordSync.
    Closers,          \* The calls of Close that one process makes.
    Buffer,           \* The capacity of the queue, WriterOptions.Buffer.
    MaxTime,          \* The last value of the clock, which starts at 1.
    AmbiguousAppend,  \* May an INSERT outlive the client that gave up on it?
    None              \* No call.

Calls == AsyncCalls \cup SyncCalls

ASSUME WriterAssumption ==
    /\ Ids = Calls
    /\ AsyncCalls \cap SyncCalls = {}
    /\ None \notin Calls
    /\ Buffer \in Nat \ {0}
    /\ MaxTime \in Nat \ {0}
    /\ AmbiguousAppend \in BOOLEAN

VARIABLES
    up,         \* Is there a process with a Writer?
    call,       \* The point each call has reached.
    stamp,      \* The timestamp build gave each entry.
    result,     \* What the channel done of each RecordSync holds.
    closing,    \* The point each call of Close has reached.
    closed,     \* Writer.closed, under closeMu; the channel is closed with it.
    queue,      \* The entries in Writer.queue.
    sent,       \* History: every entry the queue of this process ever took.
    worker,     \* What the goroutine run is doing.
    item,       \* The entry it is doing it to.
    head,       \* Writer.head.
    written, dropped, failures,  \* The counters of Writer.Stats.
    panic,      \* Has a closed channel been sent to?
    log,        \* The rows of audit_log.
    limbo,      \* Rows whose INSERT the client no longer waits for.
    nextSeq,    \* The next value of audit_log.seq.
    published,  \* The ids handed to the Publisher, in order.
    clock       \* The wall clock.

callVars == <<call, stamp>>
lockVars == <<closing, closed>>
queueVars == <<queue, sent>>
storeVars == <<log, limbo, nextSeq>>
runVars == <<worker, item, result, head, written, failures, published, storeVars>>
vars == <<up, callVars, lockVars, queueVars, runVars, dropped, panic, clock>>

(***************************************************************************)
(* What a caller, the goroutine run and a call of Close never touch.       *)
(***************************************************************************)
notCaller == <<up, lockVars, runVars, clock>>
notRun == <<up, callVars, lockVars, sent, dropped, panic, clock>>
notClose == <<up, callVars, queueVars, runVars, dropped, panic, clock>>

(***************************************************************************)
(* A call is new, then waits for the read lock, then holds it at the       *)
(* select that sends.  An accepted RecordSync waits for its result.        *)
(***************************************************************************)
Returned == {"accepted", "dropped", "ok", "failed", "expired", "refused", "gone"}
CallState == {"new", "calling", "sending", "waiting"} \cup Returned
CloseState == {"none", "locking", "draining", "drained", "timedout"}
WorkerState == {"idle", "appending", "publishing", "stopped"}

TypeOK ==
    /\ up \in BOOLEAN
    /\ call \in [Calls -> CallState]
    /\ stamp \in [Calls -> Nat]
    /\ result \in [Calls -> {"none", "ok", "failed"}]
    /\ closing \in [Closers -> CloseState]
    /\ closed \in BOOLEAN
    /\ queue \in Seq(Calls)
    /\ sent \in Seq(Calls)
    /\ worker \in WorkerState
    /\ item \in Calls \cup {None}
    /\ worker \in {"appending", "publishing"} => item \in Calls
    /\ head \in Hash
    /\ written \in Nat /\ dropped \in Nat /\ failures \in Nat
    /\ panic \in BOOLEAN
    /\ log \in SUBSET Row
    /\ limbo \in SUBSET Row
    /\ nextSeq \in Nat
    /\ published \in Seq(Calls)
    /\ clock \in Nat

Init ==
    /\ up = FALSE
    /\ call = [c \in Calls |-> "new"]
    /\ stamp = [c \in Calls |-> 0]
    /\ result = [c \in Calls |-> "none"]
    /\ closing = [k \in Closers |-> "none"]
    /\ closed = FALSE
    /\ queue = <<>>
    /\ sent = <<>>
    /\ worker = "idle"
    /\ item = None
    /\ head = GenesisHash
    /\ written = 0 /\ dropped = 0 /\ failures = 0
    /\ panic = FALSE
    /\ log = {}
    /\ limbo = {}
    /\ nextSeq = 1
    /\ published = <<>>
    /\ clock = 1

-----------------------------------------------------------------------------
(***************************************************************************)
(* The process: start, end, and the passing of time.                       *)
(***************************************************************************)

(* The fields of a Writer that nothing has happened to.                    *)
FreshWriter ==
    /\ result' = [c \in Calls |-> "none"]
    /\ closing' = [k \in Closers |-> "none"]
    /\ closed' = FALSE
    /\ queue' = <<>>
    /\ sent' = <<>>
    /\ worker' = "idle"
    /\ item' = None
    /\ written' = 0 /\ dropped' = 0 /\ failures' = 0

(* The head a new Writer resumes from.  Mutant: it starts a chain anew.    *)
NoResume == GenesisHash
Resume == HeadHash(log)

(* NewWriter: read the head of the log, start the goroutine.               *)
NewWriter ==
    /\ ~up
    /\ up' = TRUE
    /\ FreshWriter
    /\ head' = Resume
    /\ UNCHANGED <<callVars, panic, storeVars, published, clock>>

EntryOf(c) == [id |-> c, ts |-> stamp[c]]

(* The row that append inserts.                                            *)
Sealed == Seal(EntryOf(item), head, nextSeq)

(* The process ends: a crash, or main returning after Close.  Its calls,   *)
(* its queue and its counters go with it; the store stays.  An INSERT in   *)
(* flight has committed, or has not, or is still running in the server.    *)
ProcessEnds ==
    /\ up
    /\ up' = FALSE
    /\ call' = [c \in Calls |->
                  IF call[c] \in {"calling", "sending", "waiting"} THEN "gone" ELSE call[c]]
    /\ \/ UNCHANGED storeVars
       \/ /\ worker = "appending"
          /\ log' = log \cup {Sealed}
          /\ nextSeq' = nextSeq + 1
          /\ UNCHANGED limbo
       \/ /\ worker = "appending"
          /\ AmbiguousAppend
          /\ limbo' = limbo \cup {Sealed}
          /\ nextSeq' = nextSeq + 1
          /\ UNCHANGED log
    /\ FreshWriter
    /\ head' = GenesisHash
    /\ UNCHANGED <<stamp, panic, published, clock>>

Tick ==
    /\ clock < MaxTime
    /\ clock' = clock + 1
    /\ UNCHANGED <<up, callVars, lockVars, queueVars, runVars, dropped, panic>>

-----------------------------------------------------------------------------
(***************************************************************************)
(* The callers.                                                            *)
(***************************************************************************)

(* closeMu is a sync.RWMutex: a pending Lock keeps new readers out.        *)
LockPending == \E k \in Closers : closing[k] = "locking"

(* Mutants of ReadLocked: Close takes no lock; RecordSync returns on       *)
(* ctx.Done without its RUnlock.                                           *)
NeverReadLocked == FALSE
ReadLockLeaks == \E c \in Calls : call[c] \in {"sending", "expired"}
ReadLocked == \E c \in Calls : call[c] = "sending"

(* A goroutine enters Record or RecordSync and asks for the read lock.     *)
Invoke(c) ==
    /\ up
    /\ call[c] = "new"
    /\ call' = [call EXCEPT ![c] = "calling"]
    /\ UNCHANGED <<notCaller, stamp, queueVars, dropped, panic>>

(* It gets the read lock and finds the writer closed: Record counts a      *)
(* drop, RecordSync returns an error.                                      *)
Refuse(c) ==
    /\ up
    /\ call[c] = "calling"
    /\ ~LockPending
    /\ closed
    /\ \/ /\ c \in AsyncCalls
          /\ call' = [call EXCEPT ![c] = "dropped"]
          /\ dropped' = dropped + 1
       \/ /\ c \in SyncCalls
          /\ call' = [call EXCEPT ![c] = "refused"]
          /\ UNCHANGED dropped
    /\ UNCHANGED <<notCaller, stamp, queueVars, panic>>

(* It gets the read lock, finds the writer open and builds its entry, the  *)
(* timestamp included.  It still holds the lock.                           *)
Build(c) ==
    /\ up
    /\ call[c] = "calling"
    /\ ~LockPending
    /\ ~closed
    /\ call' = [call EXCEPT ![c] = "sending"]
    /\ stamp' = [stamp EXCEPT ![c] = clock]
    /\ UNCHANGED <<notCaller, queueVars, dropped, panic>>

(* The channel is first in, first out.                                     *)
Enqueue(c) == queue' = Append(queue, c) /\ sent' = Append(sent, c)

(* The send succeeds and the read lock is released.  A send on a closed    *)
(* channel panics.                                                         *)
Send(c) ==
    /\ up
    /\ call[c] = "sending"
    /\ closed \/ Len(queue) < Buffer
    /\ call' = [call EXCEPT ![c] = IF c \in AsyncCalls THEN "accepted" ELSE "waiting"]
    /\ Enqueue(c)
    /\ panic' = (panic \/ closed)
    /\ UNCHANGED <<notCaller, stamp, dropped>>

(* Record: the queue is full, the select takes its default.                *)
Drop(c) ==
    /\ up
    /\ c \in AsyncCalls
    /\ call[c] = "sending"
    /\ Len(queue) >= Buffer
    /\ call' = [call EXCEPT ![c] = "dropped"]
    /\ dropped' = dropped + 1
    /\ UNCHANGED <<notCaller, stamp, queueVars, panic>>

(* RecordSync: the context ends before the entry is sent, or while it is   *)
(* queued or in flight.                                                    *)
GiveUp(c) ==
    /\ up
    /\ c \in SyncCalls
    /\ call[c] \in {"sending", "waiting"}
    /\ call' = [call EXCEPT ![c] = "expired"]
    /\ UNCHANGED <<notCaller, stamp, queueVars, dropped, panic>>

(* RecordSync: the result of the append arrives.                           *)
Collect(c) ==
    /\ up
    /\ call[c] = "waiting"
    /\ result[c] # "none"
    /\ call' = [call EXCEPT ![c] = result[c]]
    /\ UNCHANGED <<notCaller, stamp, queueVars, dropped, panic>>

-----------------------------------------------------------------------------
(***************************************************************************)
(* The goroutine run.                                                      *)
(***************************************************************************)

(* Mutant: the channel is emptied and the first entry kept.                *)
ReceiveAll == queue # <<>> /\ item' = Head(queue) /\ queue' = <<>>
Receive == queue # <<>> /\ item' = Head(queue) /\ queue' = Tail(queue)

(* item.done <- err, for the callers that wait; the channel has room.      *)
(* Mutant: the error is lost.                                              *)
DeliverNil(c, r) == result' = IF c \in SyncCalls THEN [result EXCEPT ![c] = "ok"] ELSE result
Deliver(c, r) == result' = IF c \in SyncCalls THEN [result EXCEPT ![c] = r] ELSE result

(* Take the next entry; its append begins.                                 *)
Take ==
    /\ up
    /\ worker = "idle"
    /\ Receive
    /\ worker' = "appending"
    /\ UNCHANGED <<notRun, result, head, written, failures, published, storeVars>>

(* The INSERT is acknowledged: the head moves, the entry counts.           *)
AppendSucceeds ==
    /\ up
    /\ worker = "appending"
    /\ log' = log \cup {Sealed}
    /\ head' = Sealed.hash
    /\ nextSeq' = nextSeq + 1
    /\ written' = written + 1
    /\ worker' = "publishing"
    /\ UNCHANGED <<notRun, queue, item, result, failures, limbo, published>>

(* After a failed INSERT the head stays.  Mutant: it moves.                *)
HeadOfFailed == Sealed.hash
HeadAfterFailure == head

(* The payload cannot be canonicalised, or the INSERT ends in an error.    *)
(* When the error is the client's own timeout or a lost connection, the    *)
(* INSERT may still be running in the server.                              *)
AppendFails ==
    /\ up
    /\ worker = "appending"
    /\ head' = HeadAfterFailure
    /\ failures' = failures + 1
    /\ worker' = "idle"
    /\ item' = None
    /\ Deliver(item, "failed")
    /\ \/ UNCHANGED storeVars
       \/ /\ AmbiguousAppend
          /\ limbo' = limbo \cup {Sealed}
          /\ nextSeq' = nextSeq + 1
          /\ UNCHANGED log
    /\ UNCHANGED <<notRun, queue, written, published>>

(* The event reaches the publisher, or the error is only logged.  Mutant:  *)
(* an event whose answer was lost is published again.                      *)
AnnounceAgain == published' \in {Append(published, item), published \o <<item, item>>}
Announce == published' = Append(published, item) \/ published' = published

(* The stored entry is published.  Either way the append has succeeded.    *)
Publish ==
    /\ up
    /\ worker = "publishing"
    /\ Announce
    /\ worker' = "idle"
    /\ item' = None
    /\ Deliver(item, "ok")
    /\ UNCHANGED <<notRun, queue, head, written, failures, storeVars>>

(* The queue is closed and empty: the goroutine ends and closes done.      *)
(* Mutant: nothing ends the loop.                                          *)
StopForgotten == FALSE
Stop ==
    /\ up
    /\ worker = "idle"
    /\ closed
    /\ queue = <<>>
    /\ worker' = "stopped"
    /\ UNCHANGED <<notRun, queue, item, result, head, written, failures, published, storeVars>>

-----------------------------------------------------------------------------
(***************************************************************************)
(* Close.                                                                  *)
(***************************************************************************)

CloseCalled(k) ==
    /\ up
    /\ closing[k] = "none"
    /\ closing' = [closing EXCEPT ![k] = "locking"]
    /\ UNCHANGED <<notClose, closed>>

(* The write lock is granted once no reader holds it.  The first Close     *)
(* closes the channel, a later one finds it closed.                        *)
CloseQueue(k) ==
    /\ up
    /\ closing[k] = "locking"
    /\ ~ReadLocked
    /\ closing' = [closing EXCEPT ![k] = "draining"]
    /\ closed' = TRUE
    /\ UNCHANGED notClose

CloseReturns(k) ==
    /\ up
    /\ closing[k] = "draining"
    /\ \/ /\ worker = "stopped"
          /\ closing' = [closing EXCEPT ![k] = "drained"]
       \/ closing' = [closing EXCEPT ![k] = "timedout"]
    /\ UNCHANGED <<notClose, closed>>

-----------------------------------------------------------------------------
(***************************************************************************)
(* The server finishes an INSERT nobody waits for: it commits, with the    *)
(* seq it drew when it was sent or with one it draws now, or it rolls back.*)
(***************************************************************************)
ServerFinishes(r) ==
    /\ r \in limbo
    /\ limbo' = limbo \ {r}
    /\ \/ /\ log' = log \cup {r}
          /\ UNCHANGED nextSeq
       \/ /\ log' = log \cup {[r EXCEPT !.seq = nextSeq]}
          /\ nextSeq' = nextSeq + 1
       \/ UNCHANGED <<log, nextSeq>>
    /\ UNCHANGED <<notRun, queue, worker, item, result, head, written, failures, published>>

Caller(c) ==
    \/ Invoke(c) \/ Refuse(c) \/ Build(c)
    \/ Send(c) \/ Drop(c) \/ GiveUp(c) \/ Collect(c)

Worker == Take \/ AppendSucceeds \/ AppendFails \/ Publish \/ Stop

Closer(k) == CloseCalled(k) \/ CloseQueue(k) \/ CloseReturns(k)

Next ==
    \/ NewWriter \/ ProcessEnds \/ Tick
    \/ \E c \in Calls : Caller(c)
    \/ Worker
    \/ \E k \in Closers : Closer(k)
    \/ \E r \in limbo : ServerFinishes(r)

Spec == Init /\ [][Next]_vars

(***************************************************************************)
(* What the code lets one count on.  The goroutine run makes progress:     *)
(* each append is under a five second context.  A call that has entered    *)
(* the writer goes on: the read lock is granted when no writer waits, the  *)
(* select of Record never blocks, the contexts of RecordSync and of Close  *)
(* carry deadlines.  Nobody need call anything, no process need start, and *)
(* neither the clock nor the server need move.                             *)
(***************************************************************************)
Fairness ==
    /\ WF_vars(Worker)
    /\ \A c \in Calls :
         /\ WF_vars(Refuse(c) \/ Build(c))
         /\ WF_vars(Send(c) \/ Drop(c) \/ GiveUp(c) \/ Collect(c))
    /\ \A k \in Closers : WF_vars(CloseQueue(k) \/ CloseReturns(k))

FairSpec == Spec /\ Fairness

-----------------------------------------------------------------------------
(***************************************************************************)
(* Properties.                                                             *)
(***************************************************************************)

(* Every row of the log is linked to the row before it and carries the     *)
(* hash of its content, whatever failed and however often the process was  *)
(* replaced: the chain that append and NewWriter maintain is continuous.   *)
ChainIntact == Intact(log)

(* No row points at an entry that does not exist: the prev_hash append     *)
(* seals with is that of a row already in the store, or genesis.           *)
NoDanglingLink ==
    \A r \in log : \/ r.prev = GenesisHash
                   \/ \E q \in log : q.hash = r.prev /\ q.seq < r.seq

(* closeMu does its work: no Record or RecordSync sends on the channel     *)
(* after Close has closed it.                                              *)
NoPanic == ~panic

(* RecordSync answers truthfully when it answers: nil means the entry is   *)
(* stored, an append error or "writer is closed" means it is not.          *)
SyncAnswerTruthful ==
    \A c \in SyncCalls :
        /\ call[c] = "ok" => c \in StoredIds(log)
        /\ call[c] \in {"failed", "refused"} => c \notin StoredIds(log)

InQueue == {queue[i] : i \in 1..Len(queue)}
Sent == {sent[i] : i \in 1..Len(sent)}
InAppend == IF worker = "appending" THEN {item} ELSE {}
Pending == {c \in Calls : call[c] = "sending"} \cup InQueue \cup InAppend

(* The counters tell what became of every entry the queue took: written    *)
(* counts those in the store, failures those that are nowhere any more.    *)
Accounting ==
    LET stored == Sent \cap StoredIds(log)
    IN  /\ written = Cardinality(stored)
        /\ failures = Cardinality(Sent \ (stored \cup InQueue \cup InAppend))

SeqOf(c) == (CHOOSE r \in log : r.entry.id = c).seq

(* The live feed shows only durable entries, each at most once, in the     *)
(* order of the log: append publishes after the INSERT is acknowledged.    *)
PublishedFollowsLog ==
    /\ \A i \in 1..Len(published) : published[i] \in StoredIds(log)
    /\ \A i, j \in 1..Len(published) :
         i < j => SeqOf(published[i]) < SeqOf(published[j])

(* Every call of Record and RecordSync returns, Close or no Close.         *)
CallsReturn == \A c \in Calls : call[c] = "calling" ~> call[c] \in Returned

(* Once the queue is closed the goroutine run drains it and stops.         *)
ClosedQueueDrains == closed ~> (worker = "stopped" \/ ~up)

-----------------------------------------------------------------------------
(***************************************************************************)
(* The writer implements AuditLog when every INSERT is answered.  An entry *)
(* is built from the moment its caller stands at the select until it is    *)
(* stored or lost; it is acknowledged when RecordSync returns nil.         *)
(***************************************************************************)
Promise == INSTANCE AuditLog WITH
    built <- {EntryOf(c) : c \in Pending},
    acked <- {c \in Calls : call[c] = "ok"}

(* Whatever queue, lock, goroutine, failures and restarts do, the log and  *)
(* the answers of RecordSync are those AuditLog allows.                    *)
ImplementsAuditLog == Promise!Spec
=============================================================================
