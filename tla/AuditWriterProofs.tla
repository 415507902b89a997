------------------------- MODULE AuditWriterProofs --------------------------
(***************************************************************************)
(* Proofs about AuditWriter, for every set of calls, every queue capacity  *)
(* and every number of restarts.                                           *)
(***************************************************************************)
EXTENDS AuditWriter, FiniteSetTheorems, TLAPS

-----------------------------------------------------------------------------
(***************************************************************************)
(* The chain operators.                                                    *)
(***************************************************************************)

(* A set of rows has a last one, or none at all.  HeadHash chooses it.     *)
HasLast(rows) == rows = {} \/ \E r \in rows : \A q \in rows : q.seq <= r.seq

(* Sealing an entry yields a row whose hash is the hash of its content.    *)
LEMMA SealType ==
  ASSUME NEW e \in Entry, NEW prev \in Hash, NEW seq \in Nat
  PROVE  /\ Seal(e, prev, seq) \in Row
         /\ Seal(e, prev, seq).entry = e
         /\ Seal(e, prev, seq).prev = prev
         /\ Seal(e, prev, seq).seq = seq
         /\ Seal(e, prev, seq).hash = ComputeHash(prev, e)
  BY DEF Seal, Row, Hash, ComputeHash

(* The head of a set of rows is genesis or the hash of one of them.        *)
LEMMA HeadHashOfRow ==
  ASSUME NEW rows \in SUBSET Row, HasLast(rows)
  PROVE  /\ rows = {} => HeadHash(rows) = GenesisHash
         /\ rows # {} => \E r \in rows : HeadHash(rows) = r.hash
         /\ HeadHash(rows) \in Hash
  <1>1. CASE rows = {}
    BY <1>1 DEF HeadHash, GenesisHash, Hash
  <1>2. CASE rows # {}
    <2> DEFINE r == CHOOSE r \in rows : \A q \in rows : q.seq <= r.seq
    <2>1. r \in rows
      BY <1>2 DEF HasLast
    <2>2. HeadHash(rows) = r.hash
      BY <1>2 DEF HeadHash
    <2>3. r.hash \in Hash
      BY <2>1 DEF Row
    <2> QED
      BY Zenon, <1>2, <2>1, <2>2, <2>3
  <1> QED
    BY <1>1, <1>2

(* A row after all others is the new last row.                             *)
LEMMA HeadHashOfLonger ==
  ASSUME NEW rows \in SUBSET Row, NEW row \in Row, \A q \in rows : q.seq < row.seq
  PROVE  HasLast(rows \cup {row}) /\ HeadHash(rows \cup {row}) = row.hash
  <1> DEFINE S == rows \cup {row}
             last == CHOOSE r \in S : \A q \in S : q.seq <= r.seq
  <1>1. row \in S /\ \A q \in S : q.seq <= row.seq
    BY DEF Row
  <1>2. last \in S /\ \A q \in S : q.seq <= last.seq
    BY <1>1
  <1>3. last = row
    BY <1>1, <1>2 DEF Row
  <1>4. HeadHash(S) = last.hash
    BY <1>1 DEF HeadHash
  <1> QED
    BY <1>1, <1>3, <1>4 DEF HasLast

(* Any further row leaves a set of rows with a last one.                   *)
LEMMA HasLastOfLonger ==
  ASSUME NEW rows \in SUBSET Row, NEW row \in Row, HasLast(rows)
  PROVE  HasLast(rows \cup {row})
  <1>1. CASE rows = {}
    BY <1>1 DEF HasLast, Row
  <1>2. CASE rows # {}
    <2>1. PICK r \in rows : \A q \in rows : q.seq <= r.seq
      BY <1>2 DEF HasLast
    <2>2. CASE row.seq <= r.seq
      BY <2>1, <2>2 DEF HasLast
    <2>3. CASE ~(row.seq <= r.seq)
      <3>1. \A q \in rows \cup {row} : q.seq <= row.seq
        BY <2>1, <2>3 DEF Row
      <3> QED
        BY <3>1 DEF HasLast
    <2> QED
      BY <2>2, <2>3
  <1> QED
    BY <1>1, <1>2

(* An intact chain stays intact when a row sealed against its head is      *)
(* stored after all others.                                                *)
LEMMA IntactOfLonger ==
  ASSUME NEW rows \in SUBSET Row, Intact(rows),
         NEW e \in Entry, NEW seq \in Nat, \A q \in rows : q.seq < seq,
         HeadHash(rows) \in Hash
  PROVE  Intact(rows \cup {Seal(e, HeadHash(rows), seq)})
  <1> DEFINE row == Seal(e, HeadHash(rows), seq)
             S == rows \cup {row}
  <1>1. /\ row \in Row
        /\ row.seq = seq
        /\ row.entry = e
        /\ row.prev = HeadHash(rows)
        /\ row.hash = ComputeHash(row.prev, row.entry)
    BY SealType
  <1>2. Before(S, row) = rows
    BY <1>1 DEF Before, Row
  <1>3. \A r \in rows : Before(S, r) = Before(rows, r)
    BY <1>1 DEF Before, Row
  <1>4. ASSUME NEW r \in S
        PROVE  /\ r.prev = HeadHash(Before(S, r))
               /\ r.hash = ComputeHash(r.prev, r.entry)
    <2>1. CASE r \in rows
      BY <2>1, <1>3 DEF Intact
    <2>2. CASE r = row
      BY <2>2, <1>1, <1>2
    <2> QED
      BY <2>1, <2>2
  <1> QED
    BY <1>4 DEF Intact

-----------------------------------------------------------------------------
(***************************************************************************)
(* Type correctness.  The head a new process reads is a hash only because  *)
(* the log has a last row, so the two are proved together.                 *)
(***************************************************************************)
TypeInv == TypeOK /\ HasLast(log)

(* Every step, whatever it does to the callers, keeps the types.           *)
LEMMA TypeStep == TypeInv /\ [Next]_vars => TypeInv'
  <1> SUFFICES ASSUME TypeInv, [Next]_vars
               PROVE  TypeInv'
    OBVIOUS
  <1> USE DEF callVars, lockVars, queueVars, storeVars, runVars,
              notCaller, notRun, notClose, Receive, Enqueue, Announce, Resume,
              HeadAfterFailure, CallState, Returned, CloseState, WorkerState
  <1>0. TypeOK /\ HasLast(log)
    BY DEF TypeInv
  <1>a. \A c \in Calls : EntryOf(c) \in Entry
    BY <1>0, WriterAssumption DEF TypeOK, EntryOf, Entry
  <1>b. worker = "appending" => Sealed \in Row
    <2> SUFFICES ASSUME worker = "appending" PROVE Sealed \in Row
      OBVIOUS
    <2>1. item \in Calls /\ head \in Hash /\ nextSeq \in Nat
      BY <1>0 DEF TypeOK
    <2> QED
      BY <2>1, <1>a, SealType DEF Sealed
  <1>c. ASSUME FreshWriter
        PROVE  /\ result' \in [Calls -> {"none", "ok", "failed"}]
               /\ closing' \in [Closers -> CloseState]
               /\ closed' = FALSE
               /\ queue' \in Seq(Calls) /\ sent' \in Seq(Calls)
               /\ worker' = "idle" /\ item' = None
               /\ written' = 0 /\ dropped' = 0 /\ failures' = 0
    <2>1. <<>> \in Seq(Calls)
      OBVIOUS
    <2>2. result' \in [Calls -> {"none", "ok", "failed"}]
      BY <1>c DEF FreshWriter
    <2>3. closing' \in [Closers -> CloseState]
      BY <1>c DEF FreshWriter
    <2> QED
      BY <1>c, <2>1, <2>2, <2>3 DEF FreshWriter
  <1>1. CASE NewWriter
    <2>1. HeadHash(log) \in Hash
      BY <1>0, HeadHashOfRow DEF TypeOK
    <2> QED
      BY <1>0, <1>1, <1>c, <2>1 DEF NewWriter, TypeInv, TypeOK, HasLast
  <1>2. CASE ProcessEnds
    <2>1. log' \in SUBSET Row /\ limbo' \in SUBSET Row /\ nextSeq' \in Nat /\ HasLast(log')
      <3>1. CASE UNCHANGED storeVars
        BY <1>0, <3>1 DEF TypeOK, HasLast
      <3>2. CASE worker = "appending" /\ log' = log \cup {Sealed}
                   /\ nextSeq' = nextSeq + 1 /\ UNCHANGED limbo
        <4>1. HasLast(log \cup {Sealed})
          BY Zenon, <1>0, <1>b, <3>2, HasLastOfLonger DEF TypeOK
        <4> QED
          BY <1>0, <1>b, <3>2, <4>1 DEF TypeOK
      <3>3. CASE worker = "appending" /\ limbo' = limbo \cup {Sealed}
                   /\ nextSeq' = nextSeq + 1 /\ UNCHANGED log
        BY <1>0, <1>b, <3>3 DEF TypeOK, HasLast
      <3> QED
        BY <1>2, <3>1, <3>2, <3>3 DEF ProcessEnds
    <2>2. GenesisHash \in Hash
      BY DEF GenesisHash, Hash
    <2>3. call' \in [Calls -> CallState]
      BY <1>0, <1>2 DEF ProcessEnds, TypeOK
    <2>4. /\ FreshWriter
          /\ up' = FALSE
          /\ head' = GenesisHash
          /\ UNCHANGED <<stamp, panic, published, clock>>
      BY <1>2 DEF ProcessEnds
    <2>5. worker' = "idle" /\ item' = None /\ closed' = FALSE
      BY <1>c, <2>4
    <2>6. /\ result' \in [Calls -> {"none", "ok", "failed"}]
          /\ closing' \in [Closers -> CloseState]
          /\ queue' \in Seq(Calls) /\ sent' \in Seq(Calls)
          /\ written' \in Nat /\ dropped' \in Nat /\ failures' \in Nat
      BY <1>c, <2>4
    <2>7. TypeOK'
      BY <1>0, <2>1, <2>2, <2>3, <2>4, <2>5, <2>6 DEF TypeOK
    <2> QED
      BY <2>1, <2>7 DEF TypeInv
  <1>3. CASE Tick
    BY <1>0, <1>3 DEF Tick, TypeInv, TypeOK, HasLast
  <1>4. CASE \E c \in Calls : Caller(c)
    <2> PICK c \in Calls : Caller(c)
      BY <1>4
    <2>1. CASE Invoke(c)
      BY <1>0, <2>1 DEF Invoke, TypeInv, TypeOK, HasLast
    <2>2. CASE Refuse(c)
      <3>1. CASE call' = [call EXCEPT ![c] = "dropped"] /\ dropped' = dropped + 1
        BY <1>0, <2>2, <3>1 DEF Refuse, TypeInv, TypeOK, HasLast
      <3>2. CASE call' = [call EXCEPT ![c] = "refused"] /\ UNCHANGED dropped
        BY <1>0, <2>2, <3>2 DEF Refuse, TypeInv, TypeOK, HasLast
      <3> QED
        BY <2>2, <3>1, <3>2 DEF Refuse
    <2>3. CASE Build(c)
      BY <1>0, <2>3 DEF Build, TypeInv, TypeOK, HasLast
    <2>4. CASE Send(c)
      BY <1>0, <2>4 DEF Send, TypeInv, TypeOK, HasLast
    <2>5. CASE Drop(c)
      BY <1>0, <2>5 DEF Drop, TypeInv, TypeOK, HasLast
    <2>6. CASE GiveUp(c)
      BY <1>0, <2>6 DEF GiveUp, TypeInv, TypeOK, HasLast
    <2>7. CASE Collect(c)
      BY <1>0, <2>7 DEF Collect, TypeInv, TypeOK, HasLast
    <2> QED
      BY <2>1, <2>2, <2>3, <2>4, <2>5, <2>6, <2>7 DEF Caller
  <1>5. CASE Take
    <2>1. Head(queue) \in Calls /\ Tail(queue) \in Seq(Calls)
      BY <1>0, <1>5 DEF Take, TypeOK
    <2> QED
      BY <1>0, <1>5, <2>1 DEF Take, TypeInv, TypeOK, HasLast
  <1>6. CASE AppendSucceeds
    <2> DEFINE row == Sealed
    <2>1. row \in Row
      BY <1>6, <1>b DEF AppendSucceeds
    <2>2. log' = log \cup {row} /\ head' = row.hash
      BY <1>6 DEF AppendSucceeds
    <2>3. row.hash \in Hash
      BY <2>1 DEF Row
    <2>4. HasLast(log') /\ log' \in SUBSET Row
      BY <1>0, <2>1, <2>2, HasLastOfLonger DEF TypeOK
    <2> HIDE DEF row
    <2> QED
      BY <1>0, <1>6, <2>2, <2>3, <2>4 DEF AppendSucceeds, TypeInv, TypeOK
  <1>7. CASE AppendFails
    <2>1. result' \in [Calls -> {"none", "ok", "failed"}]
      BY <1>0, <1>7 DEF AppendFails, Deliver, TypeOK
    <2>2. log' = log /\ limbo' \in SUBSET Row /\ nextSeq' \in Nat
      BY <1>0, <1>7, <1>b DEF AppendFails, TypeOK
    <2> QED
      BY <1>0, <1>7, <2>1, <2>2, WriterAssumption DEF AppendFails, TypeInv, TypeOK, HasLast
  <1>8. CASE Publish
    <2>1. result' \in [Calls -> {"none", "ok", "failed"}]
      BY <1>0, <1>8 DEF Publish, Deliver, TypeOK
    <2>2. published' \in Seq(Calls)
      <3>1. published \in Seq(Calls) /\ item \in Calls
        BY <1>0, <1>8 DEF Publish, TypeOK
      <3>2. Append(published, item) \in Seq(Calls)
        BY <3>1
      <3> QED
        BY <1>8, <3>1, <3>2 DEF Publish
    <2> QED
      BY <1>0, <1>8, <2>1, <2>2, WriterAssumption DEF Publish, TypeInv, TypeOK, HasLast
  <1>9. CASE Stop
    BY <1>0, <1>9, WriterAssumption DEF Stop, TypeInv, TypeOK, HasLast
  <1>10. CASE \E k \in Closers : Closer(k)
    <2> PICK k \in Closers : Closer(k)
      BY <1>10
    <2>1. UNCHANGED notClose /\ closed' \in BOOLEAN
      BY Zenon, <1>0 DEF Closer, CloseCalled, CloseQueue, CloseReturns, TypeOK
    <2>2. closing' \in [Closers -> CloseState]
      BY Zenon, <1>0 DEF Closer, CloseCalled, CloseQueue, CloseReturns, TypeOK, CloseState
    <2> QED
      BY Zenon, <1>0, <2>1, <2>2 DEF TypeInv, TypeOK, HasLast
  <1>11. CASE \E r \in limbo : ServerFinishes(r)
    <2> PICK r \in limbo : ServerFinishes(r)
      BY <1>11
    <2>1. r \in Row /\ [r EXCEPT !.seq = nextSeq] \in Row
      BY Zenon, <1>0 DEF TypeOK, Row
    <2>2. log' \in SUBSET Row /\ HasLast(log') /\ limbo' \in SUBSET Row /\ nextSeq' \in Nat
      <3> DEFINE q == [r EXCEPT !.seq = nextSeq]
      <3>1. HasLast(log \cup {r}) /\ HasLast(log \cup {q})
        BY <1>0, <2>1, HasLastOfLonger DEF TypeOK
      <3>2. limbo' \in SUBSET Row
        BY <1>0 DEF ServerFinishes, TypeOK
      <3>3. \/ log' = log \cup {r} /\ nextSeq' = nextSeq
            \/ log' = log \cup {q} /\ nextSeq' = nextSeq + 1
            \/ log' = log /\ nextSeq' = nextSeq
        BY DEF ServerFinishes
      <3>4. log \in SUBSET Row /\ nextSeq \in Nat /\ HasLast(log)
        BY <1>0 DEF TypeOK
      <3>5. q \in Row
        BY <2>1
      <3> HIDE DEF q
      <3>6. CASE log' = log \cup {r} /\ nextSeq' = nextSeq
        BY <2>1, <3>1, <3>2, <3>4, <3>6
      <3>7. CASE log' = log \cup {q} /\ nextSeq' = nextSeq + 1
        BY <3>1, <3>2, <3>4, <3>5, <3>7
      <3>8. CASE log' = log /\ nextSeq' = nextSeq
        BY <3>2, <3>4, <3>8
      <3> QED
        BY <3>3, <3>6, <3>7, <3>8
    <2> QED
      BY <1>0, <2>2 DEF ServerFinishes, TypeInv, TypeOK
  <1>12. CASE UNCHANGED vars
    BY <1>0, <1>12 DEF vars, TypeInv, TypeOK, HasLast
  <1> QED
    BY <1>1, <1>2, <1>3, <1>4, <1>5, <1>6, <1>7, <1>8, <1>9, <1>10, <1>11, <1>12
       DEF Next, Worker

(* Types, and a last row, in every state.                                  *)
LEMMA TypeInvariant == Spec => []TypeInv
  <1>1. Init => TypeInv
    <2> SUFFICES ASSUME Init PROVE TypeInv
      OBVIOUS
    <2>1. head \in Hash /\ HasLast(log) /\ log \in SUBSET Row /\ limbo \in SUBSET Row
      BY DEF Init, GenesisHash, Hash, HasLast
    <2>2. queue \in Seq(Calls) /\ sent \in Seq(Calls) /\ published \in Seq(Calls)
      BY DEF Init
    <2> QED
      BY Zenon, <2>1, <2>2 DEF Init, TypeInv, TypeOK, CallState, CloseState, WorkerState
  <1> QED
    BY <1>1, TypeStep, PTL DEF Spec

(* Every variable of the writer keeps its type in every behaviour.         *)
THEOREM TypeCorrect == Spec => []TypeOK
  <1>1. TypeInv => TypeOK
    BY DEF TypeInv
  <1> QED
    BY <1>1, TypeInvariant, PTL

-----------------------------------------------------------------------------
(***************************************************************************)
(* The lock.  A caller at the select holds the read lock, and Close sets   *)
(* closed under the write lock: nobody is at the select of a closed queue. *)
(***************************************************************************)
LockInv == (ReadLocked => ~closed) /\ ~panic

(* closeMu keeps every send away from a closed channel.                    *)
THEOREM NeverPanics == Spec => []NoPanic
  <1>1. Init => LockInv
    BY DEF Init, LockInv, ReadLocked
  <1>2. TypeOK /\ LockInv /\ [Next]_vars => LockInv'
    <2> SUFFICES ASSUME TypeOK, LockInv, [Next]_vars
                 PROVE  LockInv'
      OBVIOUS
    <2> USE DEF callVars, lockVars, notCaller, notRun, notClose, LockInv, ReadLocked
    <2>1. CASE NewWriter
      BY <2>1 DEF NewWriter, FreshWriter
    <2>2. CASE ProcessEnds
      BY <2>2 DEF ProcessEnds, FreshWriter
    <2>3. CASE \E c \in Calls : Caller(c)
      <3> PICK c \in Calls : Caller(c)
        BY <2>3
      <3>1. CASE Invoke(c) \/ Refuse(c)
        BY <3>1 DEF Invoke, Refuse, TypeOK
      <3>2. CASE Build(c)
        BY <3>2 DEF Build
      <3>3. CASE Send(c)
        BY <3>3 DEF Send, TypeOK
      <3>4. CASE Drop(c) \/ GiveUp(c)
        BY <3>4 DEF Drop, GiveUp, TypeOK
      <3>5. CASE Collect(c)
        BY <3>5 DEF Collect, TypeOK
      <3> QED
        BY <3>1, <3>2, <3>3, <3>4, <3>5 DEF Caller
    <2>4. CASE Worker
      BY <2>4 DEF Worker, Take, AppendSucceeds, AppendFails, Publish, Stop
    <2>5. CASE \E k \in Closers : Closer(k)
      BY <2>5 DEF Closer, CloseCalled, CloseQueue, CloseReturns
    <2>6. CASE Tick \/ (\E r \in limbo : ServerFinishes(r)) \/ UNCHANGED vars
      BY <2>6 DEF Tick, ServerFinishes, vars
    <2> QED
      BY <2>1, <2>2, <2>3, <2>4, <2>5, <2>6 DEF Next
  <1>3. LockInv => NoPanic
    BY DEF LockInv, NoPanic
  <1> QED
    BY <1>1, <1>2, <1>3, TypeCorrect, PTL DEF Spec

-----------------------------------------------------------------------------
(***************************************************************************)
(* The chain.  Five kinds of step touch the store or the head.             *)
(***************************************************************************)
chainVars == <<up, head, log, limbo, nextSeq>>

(* All other steps leave store, head and process alone.                    *)
LEMMA ChainSteps ==
  [Next]_vars => \/ NewWriter
                 \/ ProcessEnds
                 \/ AppendSucceeds
                 \/ AppendFails
                 \/ \E r \in limbo : ServerFinishes(r)
                 \/ UNCHANGED chainVars
  BY Zenon DEF Next, vars, chainVars, storeVars, runVars, notCaller, notRun, notClose, Caller,
     Invoke, Refuse, Build, Send, Drop,
         GiveUp, Collect, Worker, Take, Publish, Stop,
         Closer, CloseCalled, CloseQueue, CloseReturns, Tick

(* What an append does to the chain, acknowledged or in the crash of the   *)
(* process: the new row is sealed against the head.                        *)
LEMMA SealedRow ==
  ASSUME TypeOK, worker = "appending"
  PROVE  /\ EntryOf(item) \in Entry
         /\ Sealed \in Row
         /\ Sealed = Seal(EntryOf(item), head, nextSeq)
         /\ Sealed.prev = head
         /\ Sealed.seq = nextSeq
  <1>1. EntryOf(item) \in Entry /\ head \in Hash /\ nextSeq \in Nat
    BY WriterAssumption DEF TypeOK, EntryOf, Entry
  <1> QED
    BY <1>1, SealType DEF Sealed

(***************************************************************************)
(* With every INSERT answered, nothing is in limbo, the rows are stored in *)
(* the order of seq, and the head of a running writer is the hash of the   *)
(* last row.  That last part is what makes the next row fit.               *)
(***************************************************************************)
ChainInv ==
    /\ limbo = {}
    /\ \A r \in log : r.seq < nextSeq
    /\ up => head = HeadHash(log)
    /\ Intact(log)

(* A stored row sealed against the head keeps the invariant.               *)
LEMMA StoredRow ==
  ASSUME TypeInv, ChainInv, up, worker = "appending"
  PROVE  LET rows == log \cup {Sealed}
         IN  /\ HeadHash(rows) = Sealed.hash
             /\ Intact(rows)
             /\ \A r \in rows : r.seq < nextSeq + 1
  <1>1. /\ log \in SUBSET Row /\ nextSeq \in Nat /\ HasLast(log)
        /\ \A r \in log : r.seq < nextSeq
        /\ head = HeadHash(log) /\ head \in Hash
    BY DEF TypeInv, TypeOK, ChainInv
  <1>2. /\ EntryOf(item) \in Entry
        /\ Sealed \in Row
        /\ Sealed = Seal(EntryOf(item), HeadHash(log), nextSeq)
        /\ Sealed.seq = nextSeq
    BY <1>1, SealedRow DEF TypeInv
  <1>3. HeadHash(log \cup {Sealed}) = Sealed.hash
    BY <1>1, <1>2, HeadHashOfLonger
  <1>4. Intact(log)
    BY DEF ChainInv
  <1>5. Intact(log \cup {Sealed})
    BY <1>1, <1>2, <1>4, IntactOfLonger
  <1>6. \A r \in log \cup {Sealed} : r.seq < nextSeq + 1
    BY <1>1, <1>2 DEF Row
  <1> QED
    BY <1>3, <1>5, <1>6

(* Every step keeps it.                                                    *)
LEMMA ChainInvariant ==
  ASSUME ~AmbiguousAppend
  PROVE  Spec => []ChainInv
  <1>1. Init => ChainInv
    BY DEF Init, ChainInv, HeadHash, Intact
  <1>2. TypeInv /\ ChainInv /\ [Next]_vars => ChainInv'
    <2> SUFFICES ASSUME TypeInv, ChainInv, [Next]_vars
                 PROVE  ChainInv'
      OBVIOUS
    <2> USE DEF storeVars, notRun, Resume, HeadAfterFailure
    <2>1. CASE NewWriter
      BY <2>1 DEF NewWriter, ChainInv
    <2>2. CASE ProcessEnds
      <3>1. CASE UNCHANGED storeVars
        BY <2>2, <3>1 DEF ProcessEnds, ChainInv
      <3>2. CASE /\ worker = "appending"
                 /\ log' = log \cup {Sealed}
                 /\ nextSeq' = nextSeq + 1
                 /\ UNCHANGED limbo
        <4>1. Intact(log') /\ \A r \in log' : r.seq < nextSeq'
          BY <2>2, <3>2, StoredRow DEF ProcessEnds
        <4> QED
          BY <2>2, <3>2, <4>1 DEF ProcessEnds, ChainInv
      <3> QED
        BY <2>2, <3>1, <3>2 DEF ProcessEnds
    <2>3. CASE AppendSucceeds
      <3>1. /\ worker = "appending" /\ up
            /\ log' = log \cup {Sealed}
            /\ head' = Sealed.hash
            /\ nextSeq' = nextSeq + 1
            /\ UNCHANGED limbo
        BY <2>3 DEF AppendSucceeds
      <3>2. /\ Intact(log') /\ \A r \in log' : r.seq < nextSeq'
            /\ head' = HeadHash(log')
        BY <3>1, StoredRow
      <3> QED
        BY <3>1, <3>2 DEF ChainInv
    <2>4. CASE AppendFails
      BY <2>4 DEF AppendFails, ChainInv
    <2>5. CASE \E r \in limbo : ServerFinishes(r)
      BY <2>5 DEF ChainInv
    <2>6. CASE UNCHANGED chainVars
      BY <2>6 DEF chainVars, ChainInv
    <2> QED
      BY <2>1, <2>2, <2>3, <2>4, <2>5, <2>6, ChainSteps
  <1> QED
    BY <1>1, <1>2, TypeInvariant, PTL DEF Spec

(* If every INSERT is answered, the stored log is an intact chain in every *)
(* state: append, failed append, crash and restart all keep it continuous. *)
THEOREM ChainStaysIntact ==
  ASSUME ~AmbiguousAppend
  PROVE  Spec => []ChainIntact
  <1>1. ChainInv => ChainIntact
    BY DEF ChainInv, ChainIntact
  <1> QED
    BY <1>1, ChainInvariant, PTL

-----------------------------------------------------------------------------
(***************************************************************************)
(* Links, with INSERTs that outlive their client.  The chain may fork, but *)
(* a hash the writer seals with, now or in an INSERT still running, is     *)
(* genesis or belongs to a row stored before.                              *)
(***************************************************************************)
Known(hash, seq) ==
    hash = GenesisHash \/ \E q \in log : q.hash = hash /\ q.seq < seq

LinkInv ==
    /\ \A r \in log \cup limbo : r.seq < nextSeq /\ Known(r.prev, r.seq)
    /\ up => Known(head, nextSeq)

(* Every step keeps it.                                                    *)
LEMMA LinkInvariant == Spec => []LinkInv
  <1>1. Init => LinkInv
    BY DEF Init, LinkInv, Known
  <1>2. TypeInv /\ LinkInv /\ [Next]_vars => LinkInv'
    <2> SUFFICES ASSUME TypeInv, LinkInv, [Next]_vars
                 PROVE  LinkInv'
      OBVIOUS
    <2> USE DEF storeVars, notRun, Resume, HeadAfterFailure
    <2>0. log \in SUBSET Row /\ limbo \in SUBSET Row /\ nextSeq \in Nat /\ HasLast(log)
      BY DEF TypeInv, TypeOK
    <2>1. CASE NewWriter
      <3>1. Known(HeadHash(log), nextSeq)
        BY <2>0, HeadHashOfRow DEF LinkInv, Known
      <3> QED
        BY <2>1, <3>1 DEF NewWriter, LinkInv, Known
    <2>2. CASE ProcessEnds
      <3>1. CASE UNCHANGED storeVars
        BY <2>2, <3>1 DEF ProcessEnds, LinkInv, Known
      <3>2. CASE /\ worker = "appending"
                 /\ log' \cup limbo' = log \cup limbo \cup {Sealed}
                 /\ log \subseteq log'
                 /\ nextSeq' = nextSeq + 1
        <4>1. Sealed \in Row /\ Sealed.seq = nextSeq /\ Known(Sealed.prev, nextSeq)
          BY <2>2, <3>2, SealedRow DEF TypeInv, LinkInv, ProcessEnds
        <4> QED
          BY <2>0, <2>2, <3>2, <4>1 DEF ProcessEnds, LinkInv, Known, Row
      <3> QED
        BY <2>2, <3>1, <3>2 DEF ProcessEnds
    <2>3. CASE AppendSucceeds
      <3>1. /\ worker = "appending" /\ up
            /\ log' = log \cup {Sealed}
            /\ head' = Sealed.hash
            /\ nextSeq' = nextSeq + 1
            /\ UNCHANGED limbo
        BY <2>3 DEF AppendSucceeds
      <3>2. Sealed \in Row /\ Sealed.seq = nextSeq /\ Known(Sealed.prev, nextSeq)
        BY <3>1, SealedRow DEF TypeInv, LinkInv
      <3> QED
        BY <2>0, <3>1, <3>2 DEF LinkInv, Known, Row
    <2>4. CASE AppendFails
      <3>1. CASE UNCHANGED storeVars
        BY <2>4, <3>1 DEF AppendFails, LinkInv, Known
      <3>2. CASE limbo' = limbo \cup {Sealed} /\ nextSeq' = nextSeq + 1 /\ UNCHANGED log
        <4>1. Sealed \in Row /\ Sealed.seq = nextSeq /\ Known(Sealed.prev, nextSeq)
          BY <2>4, SealedRow DEF TypeInv, LinkInv, AppendFails
        <4> QED
          BY <2>0, <2>4, <3>2, <4>1 DEF AppendFails, LinkInv, Known, Row
      <3> QED
        BY <2>4, <3>1, <3>2 DEF AppendFails
    <2>5. CASE \E r \in limbo : ServerFinishes(r)
      <3> PICK r \in limbo : ServerFinishes(r)
        BY <2>5
      <3>1. UNCHANGED <<up, head>> /\ limbo' \subseteq limbo
        BY DEF ServerFinishes
      <3>2. CASE log' = log \cup {r} /\ UNCHANGED nextSeq
        BY <3>1, <3>2 DEF LinkInv, Known
      <3>3. CASE log' = log \cup {[r EXCEPT !.seq = nextSeq]} /\ nextSeq' = nextSeq + 1
        BY <2>0, <3>1, <3>3 DEF LinkInv, Known, Row
      <3>4. CASE UNCHANGED <<log, nextSeq>>
        BY <3>1, <3>4 DEF LinkInv, Known
      <3> QED
        BY <3>2, <3>3, <3>4 DEF ServerFinishes
    <2>6. CASE UNCHANGED chainVars
      BY <2>6 DEF chainVars, LinkInv, Known
    <2> QED
      BY <2>1, <2>2, <2>3, <2>4, <2>5, <2>6, ChainSteps
  <1> QED
    BY <1>1, <1>2, TypeInvariant, PTL DEF Spec

(* However INSERTs and processes end, no stored row points at an entry     *)
(* that does not exist.                                                    *)
THEOREM NoLinkDangles == Spec => []NoDanglingLink
  <1>1. LinkInv => NoDanglingLink
    BY DEF LinkInv, Known, NoDanglingLink
  <1> QED
    BY <1>1, LinkInvariant, PTL

-----------------------------------------------------------------------------
(***************************************************************************)
(* Places.  An entry is in one place at a time: with its caller, in the    *)
(* queue, in the hands of the goroutine, in the store; and it never comes  *)
(* to a place a second time.                                               *)
(***************************************************************************)
Unsent == {"new", "calling", "sending", "dropped", "refused"}

(* The ids whose row is stored or may yet be.                              *)
Inserted == StoredIds(log \cup limbo)

PlaceInv ==
    /\ ~up => queue = <<>> /\ worker = "idle" /\ \A c \in Calls : call[c] # "sending"
    /\ \A i, j \in 1..Len(queue) : queue[i] = queue[j] => i = j
    /\ InQueue \cup InAppend \subseteq Sent
    /\ worker \in {"appending", "publishing"} => item \notin InQueue /\ result[item] = "none"
    /\ \A c \in InQueue \cup InAppend :
          c \notin Inserted /\ result[c] = "none" /\ call[c] \notin {"ok", "failed"}
    /\ \A c \in Calls : call[c] \in Unsent =>
          c \notin Sent /\ c \notin Inserted /\ result[c] = "none"
    /\ \A c \in Calls : result[c] = "ok" \/ call[c] = "ok" => c \in StoredIds(log)
    /\ worker = "publishing" => item \in StoredIds(log)
    /\ \A q, r \in log \cup limbo : q.entry.id = r.entry.id => q = r
    /\ log \cap limbo = {}

placeVars == <<up, call, result, queueVars, worker, item, log, limbo>>

(* What a sequence holds after an element is appended.                     *)
LEMMA Appended ==
  ASSUME NEW S, NEW s \in Seq(S), NEW x \in S
  PROVE  /\ {Append(s, x)[i] : i \in 1..Len(Append(s, x))} = {s[i] : i \in 1..Len(s)} \cup {x}
         /\ (\A i, j \in 1..Len(s) : s[i] = s[j] => i = j) /\ x \notin {s[i] : i \in 1..Len(s)}
              => \A i, j \in 1..Len(Append(s, x)) : Append(s, x)[i] = Append(s, x)[j] => i = j
  OBVIOUS

(* What it holds after its first element is taken.                         *)
LEMMA Shifted ==
  ASSUME NEW S, NEW s \in Seq(S), s # <<>>
  PROVE  /\ Head(s) \in S
         /\ {s[i] : i \in 1..Len(s)} = {Head(s)} \cup {Tail(s)[i] : i \in 1..Len(Tail(s))}
         /\ (\A i, j \in 1..Len(s) : s[i] = s[j] => i = j)
              => /\ Head(s) \notin {Tail(s)[i] : i \in 1..Len(Tail(s))}
                 /\ \A i, j \in 1..Len(Tail(s)) : Tail(s)[i] = Tail(s)[j] => i = j
  <1>1. Head(s) = s[1] /\ Head(s) \in S /\ Len(s) \in Nat \ {0}
    OBVIOUS
  <1>2. Len(Tail(s)) = Len(s) - 1 /\ \A i \in 1..(Len(s) - 1) : Tail(s)[i] = s[i + 1]
    OBVIOUS
  <1>3. \A i \in 2..Len(s) : i - 1 \in 1..(Len(s) - 1) /\ s[i] = Tail(s)[i - 1]
    BY <1>1, <1>2
  <1>4. {s[i] : i \in 1..Len(s)} = {Head(s)} \cup {Tail(s)[i] : i \in 1..Len(Tail(s))}
    <2>1. \A i \in 1..Len(s) : s[i] \in {Head(s)} \cup {Tail(s)[k] : k \in 1..Len(Tail(s))}
      BY <1>1, <1>2, <1>3
    <2>2. \A i \in 1..Len(Tail(s)) : Tail(s)[i] \in {s[k] : k \in 1..Len(s)}
      BY <1>1, <1>2
    <2>3. Head(s) \in {s[k] : k \in 1..Len(s)}
      BY <1>1
    <2> QED
      BY <2>1, <2>2, <2>3
  <1> QED
    BY <1>1, <1>2, <1>4

(* The ids of more rows.                                                   *)
LEMMA IdsOfMore ==
  ASSUME NEW rows, NEW row
  PROVE  StoredIds(rows \cup {row}) = StoredIds(rows) \cup {row.entry.id}
  BY DEF StoredIds

(* Steps that move no entry.                                               *)
LEMMA SamePlaces == ASSUME PlaceInv, UNCHANGED placeVars PROVE PlaceInv'
  <1>1. UNCHANGED <<InQueue, Sent, InAppend, Inserted, StoredIds(log)>>
    BY DEF placeVars, queueVars, InQueue, Sent, InAppend, Inserted, StoredIds
  <1> QED
    BY <1>1 DEF PlaceInv, placeVars, queueVars

(* A send puts an entry at the end of the queue, where it never was.       *)
LEMMA SendMoves ==
  ASSUME TypeOK, PlaceInv, NEW c \in Calls, Send(c)
  PROVE  /\ call[c] = "sending" /\ call'[c] \in {"accepted", "waiting"}
         /\ \A d \in Calls \ {c} : call'[d] = call[d]
         /\ c \notin Sent /\ c \notin Inserted /\ result[c] = "none"
         /\ c \notin InQueue \cup InAppend
         /\ InQueue' = InQueue \cup {c} /\ Sent' = Sent \cup {c}
         /\ \A i, j \in 1..Len(queue') : queue'[i] = queue'[j] => i = j
         /\ UNCHANGED <<up, result, worker, item, log, limbo, InAppend>>
  <1> USE DEF notCaller, runVars, storeVars
  <1>1. /\ call[c] = "sending" /\ call'[c] \in {"accepted", "waiting"}
        /\ \A d \in Calls \ {c} : call'[d] = call[d]
        /\ queue' = Append(queue, c) /\ sent' = Append(sent, c)
        /\ UNCHANGED <<up, result, worker, item, log, limbo, InAppend>>
    BY DEF Send, Enqueue, TypeOK, InAppend
  <1>2. c \notin Sent /\ c \notin Inserted /\ result[c] = "none" /\ c \notin InQueue \cup InAppend
    BY Zenon, <1>1 DEF PlaceInv, Unsent
  <1>3. queue \in Seq(Calls) /\ sent \in Seq(Calls)
    BY DEF TypeOK
  <1>4. InQueue' = InQueue \cup {c} /\ Sent' = Sent \cup {c}
    BY <1>1, <1>3, Appended DEF InQueue, Sent
  <1>5. \A i, j \in 1..Len(queue') : queue'[i] = queue'[j] => i = j
    <2>1. \A i, j \in 1..Len(queue) : queue[i] = queue[j] => i = j
      BY DEF PlaceInv
    <2>2. c \notin {queue[i] : i \in 1..Len(queue)}
      BY <1>2 DEF InQueue
    <2> QED
      BY <1>1, <1>3, <2>1, <2>2, Appended
  <1> QED
    BY <1>1, <1>2, <1>4, <1>5

(* The goroutine takes the first entry of the queue into its hands.        *)
LEMMA TakeMoves ==
  ASSUME TypeOK, PlaceInv, Take
  PROVE  /\ worker = "idle" /\ worker' = "appending" /\ InAppend = {} /\ InAppend' = {item'}
         /\ InQueue = {item'} \cup InQueue' /\ item' \notin InQueue'
         /\ \A i, j \in 1..Len(queue') : queue'[i] = queue'[j] => i = j
         /\ UNCHANGED <<up, call, stamp, result, sent, log, limbo>>
  <1>1. /\ queue # <<>> /\ item' = Head(queue) /\ queue' = Tail(queue)
        /\ worker = "idle" /\ worker' = "appending"
        /\ UNCHANGED <<up, call, stamp, result, sent, log, limbo>>
    BY DEF Take, Receive, notRun, storeVars, callVars
  <1>2. \A i, j \in 1..Len(queue) : queue[i] = queue[j] => i = j
    BY DEF PlaceInv
  <1>3. queue \in Seq(Calls)
    BY DEF TypeOK
  <1>4. /\ InQueue = {item'} \cup InQueue' /\ item' \notin InQueue'
        /\ \A i, j \in 1..Len(queue') : queue'[i] = queue'[j] => i = j
    <2>1. LET rest == {Tail(queue)[i] : i \in 1..Len(Tail(queue))}
          IN  /\ {queue[i] : i \in 1..Len(queue)} = {Head(queue)} \cup rest
              /\ Head(queue) \notin rest
              /\ \A i, j \in 1..Len(Tail(queue)) : Tail(queue)[i] = Tail(queue)[j] => i = j
      BY <1>1, <1>2, <1>3, Shifted
    <2> QED
      BY Zenon, <1>1, <2>1 DEF InQueue
  <1>5. InAppend = {} /\ InAppend' = {item'}
    BY <1>1 DEF InAppend
  <1> QED
    BY <1>1, <1>4, <1>5

(* A caller moves its own entry, and only into the queue.                  *)
LEMMA CallerPlace == ASSUME TypeOK, PlaceInv, NEW c \in Calls, Caller(c) PROVE PlaceInv'
  <1> USE DEF notCaller, runVars, storeVars, callVars, queueVars
  <1>1. /\ up /\ UNCHANGED <<up, result, worker, item, log, limbo>>
        /\ \A d \in Calls \ {c} : call'[d] = call[d]
    BY DEF Caller, Invoke, Refuse, Build, Send, Drop, GiveUp, Collect, TypeOK
  <1>2. InAppend' = InAppend /\ Inserted' = Inserted /\ StoredIds(log)' = StoredIds(log)
    BY <1>1 DEF InAppend, Inserted, StoredIds
  <1>3. InQueue \subseteq Calls /\ InAppend \subseteq Calls
    BY DEF TypeOK, InQueue, InAppend
  <1>4. CASE Send(c)
    <2>1. /\ call[c] = "sending" /\ call'[c] \in {"accepted", "waiting"}
          /\ c \notin Inserted /\ result[c] = "none" /\ c \notin InQueue \cup InAppend
          /\ InQueue' = InQueue \cup {c} /\ Sent' = Sent \cup {c}
          /\ \A i, j \in 1..Len(queue') : queue'[i] = queue'[j] => i = j
      BY Zenon, <1>4, SendMoves
    <2>2. \A d \in InQueue' \cup InAppend' :
             d \notin Inserted' /\ result'[d] = "none" /\ call'[d] \notin {"ok", "failed"}
      BY <1>1, <1>2, <1>3, <2>1 DEF PlaceInv
    <2>3. worker' \in {"appending", "publishing"} => item' \notin InQueue' /\ result'[item'] = "none"
      <3>1. SUFFICES ASSUME worker \in {"appending", "publishing"} PROVE item # c
        BY <1>1, <2>1, <3>1 DEF PlaceInv
      <3>2. CASE worker = "appending"
        BY <2>1, <3>2 DEF InAppend
      <3>3. CASE worker = "publishing"
        <4>1. item \in Inserted
          BY <3>3 DEF PlaceInv, Inserted, StoredIds
        <4> QED
          BY <2>1, <4>1
      <3> QED
        BY <3>1, <3>2, <3>3
    <2>4. \A d \in Calls : call'[d] \in Unsent => call[d] \in Unsent /\ d # c
      BY <1>1, <2>1 DEF Unsent
    <2> QED
      BY Zenon, <1>1, <1>2, <2>1, <2>2, <2>3, <2>4 DEF PlaceInv
  <1>5. CASE ~Send(c)
    <2>1. UNCHANGED queueVars
      BY <1>5 DEF Caller, Invoke, Refuse, Build, Drop, GiveUp, Collect
    <2>2. /\ call'[c] \in Unsent => call[c] \in Unsent
          /\ call'[c] \in {"ok", "failed"} => result[c] = call'[c]
      BY <1>5 DEF Caller, Invoke, Refuse, Build, Drop, GiveUp, Collect, TypeOK, Unsent
    <2>3. InQueue' = InQueue /\ Sent' = Sent
      BY <2>1 DEF InQueue, Sent
    <2>4. \A d \in InQueue \cup InAppend : call'[d] \notin {"ok", "failed"}
      BY Zenon, <1>1, <1>3, <2>2 DEF PlaceInv
    <2>5. \A d \in Calls : call'[d] \in Unsent => call[d] \in Unsent
      BY Zenon, <1>1, <2>2
    <2>6. \A d \in Calls : call'[d] = "ok" => call[d] = "ok" \/ result[d] = "ok"
      BY <1>1, <2>2
    <2>7. \A d \in Calls : call'[d] \in Unsent =>
             d \notin Sent' /\ d \notin Inserted' /\ result'[d] = "none"
      BY <1>1, <1>2, <2>3, <2>5 DEF PlaceInv
    <2>8. \A d \in Calls : result'[d] = "ok" \/ call'[d] = "ok" => d \in StoredIds(log)'
      BY <1>1, <1>2, <2>6 DEF PlaceInv
    <2>9. \A d \in InQueue' \cup InAppend' :
             d \notin Inserted' /\ result'[d] = "none" /\ call'[d] \notin {"ok", "failed"}
      BY <1>1, <1>2, <2>3, <2>4 DEF PlaceInv
    <2>10. queue' = queue
      BY <2>1
    <2>11. /\ \A i, j \in 1..Len(queue') : queue'[i] = queue'[j] => i = j
           /\ \A q, r \in log' \cup limbo' : q.entry.id = r.entry.id => q = r
           /\ log' \cap limbo' = {}
      BY <1>1, <2>10 DEF PlaceInv
    <2>12. up' /\ InQueue' \cup InAppend' \subseteq Sent'
      BY <1>1, <1>2, <2>3 DEF PlaceInv
    <2>13. /\ worker' \in {"appending", "publishing"} => item' \notin InQueue' /\ result'[item'] = "none"
           /\ worker' = "publishing" => item' \in StoredIds(log)'
      BY <1>1, <1>2, <2>3 DEF PlaceInv
    <2> QED
      BY Zenon, <2>7, <2>8, <2>9, <2>11, <2>12, <2>13 DEF PlaceInv
  <1> QED
    BY <1>4, <1>5

(* The row of the entry in the goroutine's hands is one more row, stored   *)
(* or in limbo, and no earlier row is for the same entry.                  *)
LEMMA OneMoreRow ==
  ASSUME TypeOK, PlaceInv, worker = "appending",
         \/ log' = log \cup {Sealed} /\ limbo' = limbo
         \/ log' = log /\ limbo' = limbo \cup {Sealed}
  PROVE  /\ Sealed.entry.id = item
         /\ Inserted' = Inserted \cup {item}
         /\ StoredIds(log) \subseteq StoredIds(log')
         /\ \A q, r \in log' \cup limbo' : q.entry.id = r.entry.id => q = r
         /\ log' \cap limbo' = {}
  <1>1. Sealed.entry.id = item
    BY DEF Sealed, Seal, EntryOf
  <1>2. item \notin Inserted
    BY DEF PlaceInv, InAppend
  <1>3. Inserted' = Inserted \cup {item}
    <2>1. log' \cup limbo' = (log \cup limbo) \cup {Sealed}
      OBVIOUS
    <2> QED
      BY <1>1, <2>1, IdsOfMore DEF Inserted
  <1>4. \A q \in log \cup limbo : q.entry.id # item
    BY <1>2 DEF Inserted, StoredIds
  <1>5. StoredIds(log) \subseteq StoredIds(log')
    BY DEF StoredIds
  <1>6. \A q, r \in log' \cup limbo' : q.entry.id = r.entry.id => q = r
    BY <1>1, <1>4 DEF PlaceInv
  <1>7. Sealed \notin log \cup limbo
    BY <1>1, <1>4
  <1>8. log' \cap limbo' = {}
    <2>1. log \cap limbo = {}
      BY DEF PlaceInv
    <2> QED
      BY <1>7, <2>1
  <1> QED
    BY <1>1, <1>3, <1>5, <1>6, <1>8

(* The goroutine moves one entry from the queue to the store, or loses it. *)
LEMMA WorkerPlace == ASSUME TypeOK, PlaceInv, Worker PROVE PlaceInv'
  <1> USE DEF notRun, storeVars, callVars
  <1>0. /\ up /\ UNCHANGED <<up, call, sent>>
        /\ queue \in Seq(Calls) /\ Sent' = Sent
    BY DEF Worker, Take, AppendSucceeds, AppendFails, Publish, Stop, TypeOK, Sent
  <1>1. CASE Take
    <2>1. /\ worker' = "appending" /\ UNCHANGED <<result, log, limbo>>
          /\ item' \notin InQueue' /\ item' \in InQueue
          /\ InQueue' \cup InAppend' = InQueue \cup InAppend
          /\ \A i, j \in 1..Len(queue') : queue'[i] = queue'[j] => i = j
      BY <1>1, TakeMoves
    <2>2. Inserted' = Inserted /\ StoredIds(log)' = StoredIds(log)
      BY <2>1 DEF Inserted, StoredIds
    <2> QED
      BY <1>0, <2>1, <2>2 DEF PlaceInv
  <1>2. CASE AppendSucceeds
    <2>1. /\ worker = "appending" /\ worker' = "publishing"
          /\ log' = log \cup {Sealed} /\ UNCHANGED <<queue, item, result, limbo>>
      BY <1>2 DEF AppendSucceeds
    <2>2. InQueue' = InQueue /\ InAppend = {item} /\ InAppend' = {}
      BY <2>1 DEF InQueue, InAppend
    <2>3. /\ Sealed.entry.id = item
          /\ Inserted' = Inserted \cup {item}
          /\ \A q, r \in log' \cup limbo' : q.entry.id = r.entry.id => q = r
          /\ log' \cap limbo' = {}
      BY <2>1, OneMoreRow
    <2>4. StoredIds(log') = StoredIds(log) \cup {item}
      BY Zenon, <2>1, <2>3, IdsOfMore
    <2>5. item \notin InQueue /\ item \in Sent
      BY <2>1, <2>2 DEF PlaceInv
    <2>6. \A c \in InQueue' \cup InAppend' :
             c \notin Inserted' /\ result'[c] = "none" /\ call'[c] \notin {"ok", "failed"}
      BY <1>0, <2>1, <2>2, <2>3, <2>5 DEF PlaceInv
    <2>7. \A c \in Calls : call'[c] \in Unsent =>
             c \notin Sent' /\ c \notin Inserted' /\ result'[c] = "none"
      BY <1>0, <2>1, <2>3, <2>5 DEF PlaceInv
    <2>8. \A c \in Calls : result'[c] = "ok" \/ call'[c] = "ok" => c \in StoredIds(log')
      BY Zenon, <1>0, <2>1, <2>4 DEF PlaceInv
    <2>9. item' \notin InQueue' /\ result'[item'] = "none" /\ item' \in StoredIds(log')
      BY Zenon, <2>1, <2>2, <2>4, <2>5 DEF PlaceInv
    <2>10. InQueue' \cup InAppend' \subseteq Sent'
      BY <1>0, <2>2 DEF PlaceInv
    <2>11. \A i, j \in 1..Len(queue') : queue'[i] = queue'[j] => i = j
      BY <2>1 DEF PlaceInv
    <2> QED
      BY <1>0, <2>1, <2>3, <2>6, <2>7, <2>8, <2>9, <2>10, <2>11 DEF PlaceInv
  <1>3. CASE AppendFails
    <2>1. /\ worker = "appending" /\ worker' = "idle" /\ log' = log /\ queue' = queue
          /\ \A c \in Calls : result'[c] # result[c] => c = item /\ result'[c] = "failed"
      BY <1>3 DEF AppendFails, Deliver, TypeOK
    <2>2. InQueue' = InQueue /\ InAppend = {item} /\ InAppend' = {} /\ StoredIds(log)' = StoredIds(log)
      BY <2>1 DEF InQueue, InAppend, StoredIds
    <2>3. /\ Inserted' \subseteq Inserted \cup {item}
          /\ \A q, r \in log' \cup limbo' : q.entry.id = r.entry.id => q = r
          /\ log' \cap limbo' = {}
      <3>1. CASE UNCHANGED storeVars
        BY <3>1 DEF Inserted, PlaceInv, StoredIds
      <3>2. CASE limbo' = limbo \cup {Sealed} /\ log' = log
        BY <2>1, <3>2, OneMoreRow
      <3> QED
        BY <1>3, <3>1, <3>2 DEF AppendFails
    <2>4. item \in Calls /\ item \notin InQueue /\ item \in Sent /\ InQueue \subseteq Calls
      BY <2>1, <2>2 DEF PlaceInv, TypeOK, InQueue
    <2>6. \A c \in InQueue' \cup InAppend' :
             c \notin Inserted' /\ result'[c] = "none" /\ call'[c] \notin {"ok", "failed"}
      BY Zenon, <1>0, <2>1, <2>2, <2>3, <2>4 DEF PlaceInv
    <2>7. \A c \in Calls : call'[c] \in Unsent =>
             c \notin Sent' /\ c \notin Inserted' /\ result'[c] = "none"
      BY Zenon, <1>0, <2>1, <2>3, <2>4 DEF PlaceInv
    <2>8. \A c \in Calls : result'[c] = "ok" => result[c] = "ok"
      BY <2>1
    <2>9. \A c \in Calls : result'[c] = "ok" \/ call'[c] = "ok" => c \in StoredIds(log)'
      BY <1>0, <2>2, <2>8 DEF PlaceInv
    <2>10. InQueue' \cup InAppend' \subseteq Sent'
      BY <1>0, <2>2 DEF PlaceInv
    <2>11. \A i, j \in 1..Len(queue') : queue'[i] = queue'[j] => i = j
      BY <2>1 DEF PlaceInv
    <2> QED
      BY <1>0, <2>1, <2>3, <2>6, <2>7, <2>9, <2>10, <2>11 DEF PlaceInv
  <1>4. CASE Publish
    <2>1. /\ worker = "publishing" /\ worker' = "idle" /\ UNCHANGED <<queue, log, limbo>>
          /\ \A c \in Calls : result'[c] # result[c] => c = item
      BY <1>4 DEF Publish, Deliver, TypeOK
    <2>2. /\ InQueue' = InQueue /\ InAppend = {} /\ InAppend' = {}
          /\ Inserted' = Inserted /\ StoredIds(log)' = StoredIds(log)
      BY <2>1 DEF InQueue, InAppend, Inserted, StoredIds
    <2>3. item \in StoredIds(log) /\ item \in Inserted /\ item \notin InQueue
      BY <2>1 DEF PlaceInv, Inserted, StoredIds
    <2>4. InQueue \subseteq Calls
      BY DEF TypeOK, InQueue
    <2>6. \A c \in InQueue' \cup InAppend' :
             c \notin Inserted' /\ result'[c] = "none" /\ call'[c] \notin {"ok", "failed"}
      BY <1>0, <2>1, <2>2, <2>3, <2>4 DEF PlaceInv
    <2>7. \A c \in Calls : call'[c] \in Unsent =>
             c \notin Sent' /\ c \notin Inserted' /\ result'[c] = "none"
      BY <1>0, <2>1, <2>2, <2>3 DEF PlaceInv
    <2>8. \A c \in Calls : result'[c] = "ok" => c \in StoredIds(log)
      BY <2>1, <2>3 DEF PlaceInv
    <2>9. \A c \in Calls : result'[c] = "ok" \/ call'[c] = "ok" => c \in StoredIds(log)'
      BY <1>0, <2>2, <2>8 DEF PlaceInv
    <2>10. /\ \A i, j \in 1..Len(queue') : queue'[i] = queue'[j] => i = j
           /\ \A q, r \in log' \cup limbo' : q.entry.id = r.entry.id => q = r
           /\ log' \cap limbo' = {}
      BY <2>1 DEF PlaceInv
    <2>11. InQueue' \cup InAppend' \subseteq Sent'
      BY <1>0, <2>2 DEF PlaceInv
    <2>12. up' /\ worker' \notin {"appending", "publishing"}
      BY <1>0, <2>1
    <2> QED
      BY Zenon, <2>6, <2>7, <2>9, <2>10, <2>11, <2>12 DEF PlaceInv
  <1>5. CASE Stop
    <2>1. worker = "idle" /\ worker' = "stopped" /\ UNCHANGED <<queue, item, result, log, limbo>>
      BY <1>5 DEF Stop
    <2>2. /\ InQueue' = InQueue /\ InAppend' = InAppend
          /\ Inserted' = Inserted /\ StoredIds(log)' = StoredIds(log)
      BY <2>1 DEF InQueue, InAppend, Inserted, StoredIds
    <2>3. /\ \A c \in InQueue' \cup InAppend' :
                c \notin Inserted' /\ result'[c] = "none" /\ call'[c] \notin {"ok", "failed"}
          /\ \A c \in Calls : call'[c] \in Unsent =>
                c \notin Sent' /\ c \notin Inserted' /\ result'[c] = "none"
      BY <1>0, <2>1, <2>2 DEF PlaceInv
    <2>4. \A c \in Calls : result'[c] = "ok" \/ call'[c] = "ok" => c \in StoredIds(log)'
      BY <1>0, <2>1, <2>2 DEF PlaceInv
    <2>5. /\ \A i, j \in 1..Len(queue') : queue'[i] = queue'[j] => i = j
          /\ \A q, r \in log' \cup limbo' : q.entry.id = r.entry.id => q = r
          /\ log' \cap limbo' = {}
      BY <2>1 DEF PlaceInv
    <2>6. InQueue' \cup InAppend' \subseteq Sent'
      BY <1>0, <2>2 DEF PlaceInv
    <2>7. up' /\ worker' \notin {"appending", "publishing"}
      BY <1>0, <2>1
    <2> QED
      BY Zenon, <2>3, <2>4, <2>5, <2>6, <2>7 DEF PlaceInv
  <1> QED
    BY <1>1, <1>2, <1>3, <1>4, <1>5 DEF Worker

(* A process that ends loses what it held; at most the entry in flight     *)
(* reaches the store.                                                      *)
LEMMA EndPlace == ASSUME TypeOK, PlaceInv, ProcessEnds PROVE PlaceInv'
  <1>1. /\ up' = FALSE /\ queue' = <<>> /\ sent' = <<>> /\ worker' = "idle"
        /\ \A c \in Calls : result'[c] = "none"
        /\ \A c \in Calls : call'[c] # "sending"
        /\ \A c \in Calls : call'[c] \in Unsent => call[c] \in Unsent
        /\ \A c \in Calls : call'[c] = "ok" => call[c] = "ok"
    BY DEF ProcessEnds, FreshWriter, TypeOK, Unsent
  <1>2. InQueue' = {} /\ Sent' = {} /\ InAppend' = {}
    BY <1>1 DEF InQueue, Sent, InAppend
  <1>3. /\ Inserted' \subseteq Inserted \cup Sent
        /\ StoredIds(log) \subseteq StoredIds(log')
        /\ \A q, r \in log' \cup limbo' : q.entry.id = r.entry.id => q = r
        /\ log' \cap limbo' = {}
    <2>1. CASE UNCHANGED storeVars
      BY <2>1 DEF Inserted, PlaceInv, StoredIds, storeVars
    <2>2. CASE /\ worker = "appending"
               /\ \/ log' = log \cup {Sealed} /\ limbo' = limbo
                  \/ log' = log /\ limbo' = limbo \cup {Sealed}
      <3>1. item \in Sent
        BY <2>2 DEF PlaceInv, InAppend
      <3> QED
        BY <2>2, <3>1, OneMoreRow
    <2> QED
      BY <2>1, <2>2 DEF ProcessEnds
  <1>4. \A c \in Calls : call'[c] \in Unsent =>
           c \notin Sent' /\ c \notin Inserted' /\ result'[c] = "none"
    BY <1>1, <1>2, <1>3 DEF PlaceInv
  <1>5. \A c \in Calls : call'[c] = "ok" => c \in StoredIds(log')
    BY <1>1, <1>3 DEF PlaceInv
  <1>6. \A i, j \in 1..Len(queue') : queue'[i] = queue'[j] => i = j
    BY <1>1
  <1> QED
    BY <1>1, <1>2, <1>3, <1>4, <1>5, <1>6 DEF PlaceInv

(* A new process finds the store as it is and holds nothing yet.           *)
LEMMA StartPlace == ASSUME TypeOK, PlaceInv, NewWriter PROVE PlaceInv'
  <1>1. /\ ~up /\ up' = TRUE /\ queue' = <<>> /\ sent' = <<>> /\ worker' = "idle"
        /\ \A c \in Calls : result'[c] = "none"
        /\ UNCHANGED <<call, log, limbo>>
    BY DEF NewWriter, FreshWriter, callVars, storeVars
  <1>2. /\ InQueue' = {} /\ Sent' = {} /\ InAppend' = {}
        /\ Inserted' = Inserted /\ StoredIds(log)' = StoredIds(log)
    BY <1>1 DEF InQueue, Sent, InAppend, Inserted, StoredIds
  <1>3. \A i, j \in 1..Len(queue') : queue'[i] = queue'[j] => i = j
    BY <1>1
  <1> QED
    BY <1>1, <1>2, <1>3 DEF PlaceInv

(* The server moves a row from limbo to the log, or discards it.           *)
LEMMA ServerPlace == ASSUME TypeOK, PlaceInv, NEW r \in limbo, ServerFinishes(r) PROVE PlaceInv'
  <1> DEFINE Moved == [r EXCEPT !.seq = nextSeq]
  <1>1. /\ UNCHANGED <<up, call, result, queue, sent, worker, item>>
        /\ limbo' = limbo \ {r}
        /\ log' = log \cup {r} \/ log' = log \cup {Moved} \/ log' = log
    BY DEF ServerFinishes, notRun, callVars
  <1>2. r \in Row /\ Moved.entry = r.entry
    BY DEF TypeOK, Row
  <1> HIDE DEF Moved
  <1>3. /\ \A p, q \in log \cup limbo : p.entry.id = q.entry.id => p = q
        /\ log \cap limbo = {}
    BY DEF PlaceInv
  <1>4. /\ \A p, q \in log' \cup limbo' : p.entry.id = q.entry.id => p = q
        /\ log' \cap limbo' = {}
    <2>1. \A p \in (log \cup limbo) \ {r} : p.entry.id # r.entry.id
      BY <1>3
    <2>2. r \notin log
      BY <1>3
    <2> QED
      BY <1>1, <1>2, <1>3, <2>1, <2>2
  <1>5. Inserted' \subseteq Inserted /\ StoredIds(log) \subseteq StoredIds(log')
    BY <1>1, <1>2 DEF Inserted, StoredIds
  <1>6. UNCHANGED <<InQueue, Sent, InAppend>>
    BY <1>1 DEF InQueue, Sent, InAppend
  <1>7. \A c \in Calls : call'[c] \in Unsent =>
           c \notin Sent' /\ c \notin Inserted' /\ result'[c] = "none"
    BY <1>1, <1>5, <1>6 DEF PlaceInv
  <1>8. \A c \in InQueue' \cup InAppend' :
           c \notin Inserted' /\ result'[c] = "none" /\ call'[c] \notin {"ok", "failed"}
    BY <1>1, <1>5, <1>6 DEF PlaceInv
  <1>9. \A c \in Calls : result'[c] = "ok" \/ call'[c] = "ok" => c \in StoredIds(log')
    BY <1>1, <1>5 DEF PlaceInv
  <1>10. /\ worker' \in {"appending", "publishing"} => item' \notin InQueue' /\ result'[item'] = "none"
         /\ worker' = "publishing" => item' \in StoredIds(log')
    BY <1>1, <1>5, <1>6 DEF PlaceInv
  <1>11. /\ ~up' => queue' = <<>> /\ worker' = "idle" /\ \A c \in Calls : call'[c] # "sending"
         /\ \A i, j \in 1..Len(queue') : queue'[i] = queue'[j] => i = j
         /\ InQueue' \cup InAppend' \subseteq Sent'
    <2>1. /\ ~up => queue = <<>> /\ worker = "idle" /\ \A c \in Calls : call[c] # "sending"
          /\ \A i, j \in 1..Len(queue) : queue[i] = queue[j] => i = j
          /\ InQueue \cup InAppend \subseteq Sent
      BY Zenon DEF PlaceInv
    <2> QED
      BY <1>1, <1>6, <2>1
  <1> QED
    BY <1>4, <1>7, <1>8, <1>9, <1>10, <1>11 DEF PlaceInv

(* Every step keeps every entry in its place.                              *)
LEMMA PlaceInvariant == Spec => []PlaceInv
  <1>1. Init => PlaceInv
    <2> SUFFICES ASSUME Init PROVE PlaceInv
      OBVIOUS
    <2>1. InQueue = {} /\ Sent = {} /\ InAppend = {}
      BY DEF Init, InQueue, Sent, InAppend
    <2>2. Inserted = {}
      BY DEF Init, Inserted, StoredIds
    <2> QED
      BY <2>1, <2>2 DEF Init, PlaceInv, Unsent
  <1>2. TypeOK /\ PlaceInv /\ [Next]_vars => PlaceInv'
    <2> SUFFICES ASSUME TypeOK, PlaceInv, [Next]_vars
                 PROVE  PlaceInv'
      OBVIOUS
    <2>1. CASE NewWriter
      BY <2>1, StartPlace
    <2>2. CASE ProcessEnds
      BY <2>2, EndPlace
    <2>3. CASE \E c \in Calls : Caller(c)
      BY <2>3, CallerPlace
    <2>4. CASE Worker
      BY <2>4, WorkerPlace
    <2>5. CASE Tick \/ (\E k \in Closers : Closer(k)) \/ UNCHANGED vars
      <3>1. UNCHANGED placeVars
        BY <2>5 DEF Tick, Closer, CloseCalled, CloseQueue, CloseReturns, vars, placeVars,
                    notClose, callVars, queueVars, runVars, storeVars
      <3> QED
        BY <3>1, SamePlaces
    <2>6. CASE \E r \in limbo : ServerFinishes(r)
      BY <2>6, ServerPlace
    <2> QED
      BY <2>1, <2>2, <2>3, <2>4, <2>5, <2>6 DEF Next
  <1> QED
    BY <1>1, <1>2, TypeCorrect, PTL DEF Spec

-----------------------------------------------------------------------------
(***************************************************************************)
(* The answers of RecordSync.  An error is delivered when the entry leaves *)
(* the goroutine's hands unstored, and it never comes back there.          *)
(***************************************************************************)
AnswerInv == \A c \in Calls : result[c] = "failed" \/ call[c] = "failed" => c \notin StoredIds(log)

(* What a step does to the ids of the log when every INSERT is answered.   *)
LEMMA LogGrowth ==
  ASSUME ~AmbiguousAppend, TypeOK, limbo = {}, [Next]_vars
  PROVE  \/ log' = log
         \/ worker = "appending" /\ StoredIds(log') = StoredIds(log) \cup {item}
  <1>1. \/ log' = log
        \/ worker = "appending" /\ log' = log \cup {Sealed}
    BY ChainSteps DEF NewWriter, ProcessEnds, AppendSucceeds, AppendFails, storeVars, chainVars
  <1>2. Sealed.entry.id = item
    BY DEF Sealed, Seal, EntryOf
  <1> QED
    BY Zenon, <1>1, <1>2, IdsOfMore

(* If every INSERT is answered, RecordSync returns nil only for a stored   *)
(* entry, and an append error or "writer is closed" only for one that is   *)
(* not stored then or later: no crash, restart or expiry in between makes  *)
(* the answer wrong.                                                       *)
THEOREM AnswersAreTrue ==
  ASSUME ~AmbiguousAppend
  PROVE  Spec => []SyncAnswerTruthful
  <1>1. Init => AnswerInv
    BY DEF Init, AnswerInv
  <1>2. TypeOK /\ ChainInv /\ PlaceInv /\ AnswerInv /\ [Next]_vars => AnswerInv'
    <2> SUFFICES ASSUME TypeOK, ChainInv, PlaceInv, AnswerInv, [Next]_vars,
                        NEW c \in Calls, result'[c] = "failed" \/ call'[c] = "failed"
                 PROVE  c \notin StoredIds(log')
      BY DEF AnswerInv
    <2>1. \/ result[c] = "failed" \/ call[c] = "failed"
          \/ AppendFails /\ c = item
      <3> USE DEF notCaller, notRun, notClose, runVars, storeVars, callVars, queueVars
      <3>1. CASE NewWriter \/ ProcessEnds
        BY <3>1 DEF NewWriter, ProcessEnds, FreshWriter, TypeOK
      <3>2. CASE \E d \in Calls : Caller(d)
        BY <3>2 DEF Caller, Invoke, Refuse, Build, Send, Drop, GiveUp, Collect, TypeOK
      <3>3. CASE Worker
        BY <3>3 DEF Worker, Take, AppendSucceeds, AppendFails, Publish, Stop, Deliver, TypeOK
      <3>4. CASE \/ Tick \/ (\E k \in Closers : Closer(k)) \/ UNCHANGED vars
                 \/ \E r \in limbo : ServerFinishes(r)
        BY <3>4 DEF Tick, Closer, CloseCalled, CloseQueue, CloseReturns, ServerFinishes, vars
      <3> QED
        BY <3>1, <3>2, <3>3, <3>4 DEF Next
    <2>2. \/ log' = log
          \/ worker = "appending" /\ StoredIds(log') = StoredIds(log) \cup {item}
      BY Zenon, LogGrowth DEF ChainInv
    <2>3. CASE AppendFails /\ c = item
      <3>1. c \notin Inserted /\ log' = log
        BY <2>3 DEF AppendFails, PlaceInv, InAppend, storeVars
      <3> QED
        BY <3>1 DEF Inserted, StoredIds
    <2>4. CASE result[c] = "failed" \/ call[c] = "failed"
      <3>1. c \notin StoredIds(log)
        BY <2>4 DEF AnswerInv
      <3>2. c \notin InAppend
        BY Zenon, <2>4 DEF PlaceInv
      <3> QED
        BY <2>2, <3>1, <3>2 DEF InAppend
    <2> QED
      BY <2>1, <2>3, <2>4
  <1>3. PlaceInv /\ AnswerInv => SyncAnswerTruthful
    <2> SUFFICES ASSUME PlaceInv, AnswerInv PROVE SyncAnswerTruthful
      OBVIOUS
    <2>1. StoredIds(log) \subseteq Inserted
      BY DEF Inserted, StoredIds
    <2> QED
      BY <2>1 DEF PlaceInv, AnswerInv, SyncAnswerTruthful, Calls, Unsent
  <1> QED
    BY <1>1, <1>2, <1>3, TypeCorrect, ChainInvariant, PlaceInvariant, PTL DEF Spec

-----------------------------------------------------------------------------
(***************************************************************************)
(* The live feed.  While an entry is being published it is the last of the *)
(* log among those published, even if INSERTs given up on are stored late. *)
(***************************************************************************)
SeqIn(rows, c) == (CHOOSE r \in rows : r.entry.id = c).seq

PublishInv ==
    /\ \A i \in 1..Len(published) : published[i] \in StoredIds(log)
    /\ \A i, j \in 1..Len(published) :
         i < j => SeqIn(log, published[i]) < SeqIn(log, published[j])
    /\ worker = "publishing" =>
         \A i \in 1..Len(published) : SeqIn(log, published[i]) < SeqIn(log, item)

(* With one row for each id, SeqIn is the seq of that row.                 *)
LEMMA SeqInRow ==
  ASSUME NEW rows, \A q, r \in rows : q.entry.id = r.entry.id => q = r,
         NEW row \in rows
  PROVE  SeqIn(rows, row.entry.id) = row.seq
  <1> DEFINE chosen == CHOOSE r \in rows : r.entry.id = row.entry.id
  <1>1. chosen \in rows /\ chosen.entry.id = row.entry.id
    OBVIOUS
  <1>2. chosen = row
    BY <1>1
  <1> QED
    BY <1>2 DEF SeqIn

(* Further rows leave the seq of a stored id as it is.                     *)
LEMMA SeqInMore ==
  ASSUME NEW rows, NEW more, rows \subseteq more,
         \A q, r \in more : q.entry.id = r.entry.id => q = r
  PROVE  \A c \in StoredIds(rows) : SeqIn(more, c) = SeqIn(rows, c)
  <1> SUFFICES ASSUME NEW c \in StoredIds(rows) PROVE SeqIn(more, c) = SeqIn(rows, c)
    OBVIOUS
  <1>1. PICK r \in rows : r.entry.id = c
    BY DEF StoredIds
  <1> QED
    BY <1>1, SeqInRow

(* The publisher is handed only stored entries, each at most once and in   *)
(* the order of the log, whatever fails, restarts or is stored late.       *)
THEOREM FeedFollowsLog == Spec => []PublishedFollowsLog
  <1>1. Init => PublishInv
    BY DEF Init, PublishInv
  <1>2. TypeOK /\ LinkInv /\ PlaceInv /\ PlaceInv' /\ PublishInv /\ [Next]_vars => PublishInv'
    <2> SUFFICES ASSUME TypeOK, LinkInv, PlaceInv, PlaceInv', PublishInv, [Next]_vars
                 PROVE  PublishInv'
      OBVIOUS
    <2>1. /\ log \subseteq log'
          /\ \A q, r \in log' : q.entry.id = r.entry.id => q = r
      <3>1. log \subseteq log'
        BY ChainSteps DEF NewWriter, ProcessEnds, AppendSucceeds, AppendFails, ServerFinishes,
                          storeVars, chainVars
      <3> QED
        BY <3>1 DEF PlaceInv
    <2>2. /\ StoredIds(log) \subseteq StoredIds(log')
          /\ \A c \in StoredIds(log) : SeqIn(log', c) = SeqIn(log, c)
      BY <2>1, SeqInMore DEF StoredIds
    <2>3. published \in Seq(Calls) /\ Len(published) \in Nat
      BY DEF TypeOK
    <2>4. CASE AppendSucceeds
      <3>1. /\ worker = "appending" /\ worker' = "publishing"
            /\ log' = log \cup {Sealed} /\ UNCHANGED <<item, published>>
        BY <2>4 DEF AppendSucceeds
      <3>2. Sealed.entry.id = item /\ Sealed.seq = nextSeq
        BY DEF Sealed, Seal, EntryOf
      <3>3. SeqIn(log', item) = nextSeq
        BY <2>1, <3>1, <3>2, SeqInRow
      <3>4. \A c \in StoredIds(log) : SeqIn(log, c) < nextSeq
        <4> SUFFICES ASSUME NEW c \in StoredIds(log) PROVE SeqIn(log, c) < nextSeq
          OBVIOUS
        <4>1. PICK r \in log : r.entry.id = c
          BY DEF StoredIds
        <4>2. SeqIn(log, c) = r.seq
          BY <2>1, <4>1, SeqInRow
        <4> QED
          BY <4>2 DEF LinkInv
      <3> QED
        BY Zenon, <2>2, <3>1, <3>3, <3>4 DEF PublishInv
    <2>5. CASE Publish
      <3>1. /\ worker = "publishing" /\ worker' = "idle" /\ log' = log
            /\ published' = Append(published, item) \/ published' = published
        BY <2>5 DEF Publish, Announce, storeVars
      <3>2. item \in Calls /\ item \in StoredIds(log)
        BY Zenon, <3>1 DEF TypeOK, PlaceInv
      <3>3. CASE published' = published
        BY <3>1, <3>3 DEF PublishInv
      <3>4. CASE published' = Append(published, item)
        <4>1. /\ Len(published') = Len(published) + 1
              /\ published'[Len(published) + 1] = item
              /\ \A i \in 1..Len(published) : published'[i] = published[i]
          BY <2>3, <3>2, <3>4
        <4> QED
          BY <2>3, <3>1, <3>2, <4>1 DEF PublishInv
      <3> QED
        BY <3>1, <3>3, <3>4
    <2>6. CASE ~AppendSucceeds /\ ~Publish
      <3>1. /\ published' = published
            /\ worker' = "publishing" => worker = "publishing" /\ item' = item
        BY Zenon, <2>6 DEF Next, NewWriter, ProcessEnds, FreshWriter, Tick, Caller, Invoke,
           Refuse, Build,
                    Send, Drop, GiveUp, Collect, Worker, Take, AppendFails, Stop, Closer, CloseCalled,
                    CloseQueue, CloseReturns, ServerFinishes, vars, runVars, notCaller, notRun, notClose
      <3>2. worker = "publishing" => item \in StoredIds(log)
        BY DEF PlaceInv
      <3> QED
        BY <2>2, <3>1, <3>2 DEF PublishInv
    <2> QED
      BY <2>4, <2>5, <2>6
  <1>3. PublishInv => PublishedFollowsLog
    BY DEF PublishInv, PublishedFollowsLog, SeqIn, SeqOf
  <1> QED
    BY <1>1, <1>2, <1>3, TypeCorrect, LinkInvariant, PlaceInvariant, PTL DEF Spec

-----------------------------------------------------------------------------
(***************************************************************************)
(* The counters.  Every entry the queue took is stored, lost, or still in  *)
(* the queue or the goroutine's hands, and moves once.                     *)
(***************************************************************************)
Stored == Sent \cap StoredIds(log)
Lost == Sent \ (Stored \cup InQueue \cup InAppend)

CountInv ==
    /\ IsFiniteSet(Sent)
    /\ written = Cardinality(Stored)
    /\ failures = Cardinality(Lost)

(* If every INSERT is answered, written is the number of entries this      *)
(* process put in the store and failures the number of those it lost       *)
(* after the queue took them, in every state.                              *)
THEOREM CountersAddUp ==
  ASSUME ~AmbiguousAppend
  PROVE  Spec => []Accounting
  <1>1. Init => CountInv
    <2> SUFFICES ASSUME Init PROVE CountInv
      OBVIOUS
    <2>1. Sent = {}
      BY DEF Init, Sent
    <2> QED
      BY <2>1, FS_EmptySet DEF Init, CountInv, Stored, Lost
  <1>2. TypeOK /\ ChainInv /\ PlaceInv /\ CountInv /\ [Next]_vars => CountInv'
    <2> SUFFICES ASSUME TypeOK, ChainInv, PlaceInv, CountInv, [Next]_vars
                 PROVE  CountInv'
      OBVIOUS
    <2>0. /\ IsFiniteSet(Stored) /\ IsFiniteSet(Lost)
          /\ StoredIds(log) \subseteq Inserted
      <3>1. Stored \in SUBSET Sent /\ Lost \in SUBSET Sent /\ IsFiniteSet(Sent)
        BY DEF Stored, Lost, CountInv
      <3> QED
        BY <3>1, FS_Subset DEF Inserted, StoredIds
    <2>1. CASE NewWriter \/ ProcessEnds
      <3>1. Sent' = {} /\ written' = 0 /\ failures' = 0
        BY <2>1 DEF NewWriter, ProcessEnds, FreshWriter, Sent
      <3>2. Stored' = {} /\ Lost' = {}
        BY <3>1 DEF Stored, Lost
      <3> QED
        BY <3>1, <3>2, FS_EmptySet DEF CountInv
    <2>2. CASE \E c \in Calls : Send(c)
      <3> PICK c \in Calls : Send(c)
        BY <2>2
      <3>1. /\ c \notin Sent /\ c \notin Inserted
            /\ InQueue' = InQueue \cup {c} /\ Sent' = Sent \cup {c}
            /\ UNCHANGED <<log, InAppend>>
        BY Zenon, SendMoves
      <3>2. StoredIds(log)' = StoredIds(log) /\ UNCHANGED <<written, failures>>
        BY Zenon, <3>1 DEF StoredIds, Send, notCaller, runVars
      <3>3. Stored' = Stored
        BY <2>0, <3>1, <3>2 DEF Stored
      <3>4. Lost' = Lost
        BY <3>1, <3>3 DEF Lost
      <3>5. IsFiniteSet(Sent')
        BY <3>1, FS_AddElement DEF CountInv
      <3> QED
        BY <3>2, <3>3, <3>4, <3>5 DEF CountInv
    <2>3. CASE Take
      <3>1. InQueue' \cup InAppend' = InQueue \cup InAppend /\ UNCHANGED <<log, sent>>
        BY <2>3, TakeMoves
      <3>2. UNCHANGED <<Sent, StoredIds(log), written, failures>>
        BY <2>3, <3>1 DEF Take, Sent, StoredIds
      <3>3. Stored' = Stored
        BY <3>2 DEF Stored
      <3>4. Lost' = Lost
        BY <3>1, <3>2, <3>3 DEF Lost
      <3> QED
        BY <3>2, <3>3, <3>4 DEF CountInv
    <2>4. CASE AppendSucceeds \/ AppendFails
      <3>1. /\ worker = "appending" /\ UNCHANGED <<queue, sent>>
            /\ worker' \in {"publishing", "idle"}
        BY <2>4 DEF AppendSucceeds, AppendFails, notRun
      <3>2. /\ UNCHANGED <<InQueue, Sent>> /\ InAppend = {item} /\ InAppend' = {}
        BY <3>1 DEF InQueue, Sent, InAppend
      <3>3. item \in Sent /\ item \notin StoredIds(log) /\ item \notin InQueue
        BY <2>0, <3>1, <3>2 DEF PlaceInv
      <3>4. CASE AppendSucceeds
        <4>1. /\ StoredIds(log') = StoredIds(log) \cup {item}
              /\ written' = written + 1 /\ failures' = failures
          BY Zenon, <3>4, IdsOfMore DEF AppendSucceeds, Sealed, Seal, EntryOf
        <4>2. Stored' = Stored \cup {item} /\ item \notin Stored
          BY <3>2, <3>3, <4>1 DEF Stored
        <4>3. Lost' = Lost
          BY <3>2, <4>2 DEF Lost
        <4> QED
          BY Zenon, <2>0, <3>2, <4>1, <4>2, <4>3, FS_AddElement DEF CountInv
      <3>5. CASE AppendFails
        <4>1. UNCHANGED <<StoredIds(log), written>> /\ failures' = failures + 1
          BY <3>5 DEF AppendFails, storeVars, StoredIds
        <4>2. Stored' = Stored
          BY <3>2, <4>1 DEF Stored
        <4>3. Lost' = Lost \cup {item} /\ item \notin Lost
          BY <3>2, <3>3, <4>2 DEF Lost, Stored
        <4> QED
          BY Zenon, <2>0, <3>2, <4>1, <4>2, <4>3, FS_AddElement DEF CountInv
      <3> QED
        BY <2>4, <3>4, <3>5
    <2>5. CASE ~(NewWriter \/ ProcessEnds \/ (\E c \in Calls : Send(c)) \/ Take
                   \/ AppendSucceeds \/ AppendFails)
      <3>1. /\ UNCHANGED <<queue, sent, log, written, failures>>
            /\ UNCHANGED <<worker, item>> \/ (worker # "appending" /\ worker' # "appending")
        BY Zenon, <2>5 DEF Next, Tick, Caller, Invoke, Refuse, Build, Drop, GiveUp, Collect,
           Worker, Publish,
                    Stop, Closer, CloseCalled, CloseQueue, CloseReturns, ChainInv, vars, queueVars,
                    runVars, storeVars, notCaller, notRun, notClose
      <3>2. UNCHANGED <<InQueue, Sent, InAppend, StoredIds(log)>>
        BY <3>1 DEF InQueue, Sent, InAppend, StoredIds
      <3> QED
        BY <3>1, <3>2 DEF CountInv, Stored, Lost
    <2> QED
      BY <2>1, <2>2, <2>3, <2>4, <2>5
  <1>3. CountInv => Accounting
    BY DEF CountInv, Accounting, Stored, Lost
  <1> QED
    BY <1>1, <1>2, <1>3, TypeCorrect, ChainInvariant, PlaceInvariant, PTL DEF Spec

-----------------------------------------------------------------------------
(***************************************************************************)
(* The refinement of AuditLog.  A step of the writer builds one entry,     *)
(* stores one, acknowledges one, or at most loses some.                    *)
(***************************************************************************)
Built == {EntryOf(c) : c \in Pending}
Acked == {c \in Calls : call[c] = "ok"}

AtSelect == {c \in Calls : call[c] = "sending"}

(* Entries leave the writer by every step but Build; the entry in flight   *)
(* leaves it when the append ends.                                         *)
LEMMA EntriesLeave ==
  ASSUME TypeOK, PlaceInv, limbo = {}, [Next]_vars, \A c \in Calls : ~Build(c)
  PROVE  /\ stamp' = stamp /\ Pending' \subseteq Pending
         /\ AppendSucceeds \/ ProcessEnds => (worker = "appending" => item \notin Pending')
  <1> USE DEF notCaller, notRun, notClose, runVars, storeVars, callVars, queueVars
  <1>0. /\ Pending = AtSelect \cup (InQueue \cup InAppend)
        /\ Pending' = AtSelect' \cup (InQueue' \cup InAppend')
    BY DEF Pending, AtSelect
  <1>1. CASE NewWriter \/ ProcessEnds
    <2>1. /\ queue' = <<>> /\ worker' = "idle" /\ stamp' = stamp
          /\ NewWriter => AtSelect' = AtSelect
          /\ ProcessEnds => AtSelect' = {}
      <3>1. CASE NewWriter
        BY <3>1 DEF NewWriter, ProcessEnds, FreshWriter, AtSelect
      <3>2. CASE ProcessEnds
        BY <3>2 DEF NewWriter, ProcessEnds, FreshWriter, AtSelect
      <3> QED
        BY <1>1, <3>1, <3>2
    <2>2. InQueue' = {} /\ InAppend' = {}
      BY <2>1 DEF InQueue, InAppend
    <2>3. ~NewWriter \/ ~ProcessEnds
      BY DEF NewWriter, ProcessEnds
    <2>4. NewWriter => ~AppendSucceeds
      BY DEF NewWriter, AppendSucceeds
    <2>5. CASE NewWriter
      BY <1>0, <2>1, <2>2, <2>3, <2>4, <2>5
    <2>6. CASE ProcessEnds
      BY <1>0, <2>1, <2>2, <2>6
    <2> QED
      BY <1>1, <2>5, <2>6
  <1>2. CASE \E c \in Calls : Caller(c)
    <2> PICK c \in Calls : Caller(c)
      BY <1>2
    <2>1. up' = up /\ worker' = worker /\ InAppend' = InAppend /\ stamp' = stamp
      BY Zenon DEF Caller, Invoke, Refuse, Send, Drop, GiveUp, Collect, InAppend
    <2>2. ~AppendSucceeds /\ ~ProcessEnds
      BY <2>1 DEF AppendSucceeds, ProcessEnds
    <2>3. AtSelect' \subseteq AtSelect
      BY Zenon DEF Caller, Invoke, Refuse, Send, Drop, GiveUp, Collect, TypeOK, AtSelect
    <2>4. CASE Send(c)
      <3>1. c \in AtSelect /\ InQueue' = InQueue \cup {c}
        BY Zenon, <2>4, SendMoves DEF AtSelect
      <3> QED
        BY <1>0, <2>1, <2>2, <2>3, <3>1
    <2>5. CASE ~Send(c)
      <3>1. InQueue' = InQueue
        BY Zenon, <2>5 DEF Caller, Invoke, Refuse, Drop, GiveUp, Collect, InQueue
      <3> QED
        BY <1>0, <2>1, <2>2, <2>3, <3>1
    <2> QED
      BY <2>4, <2>5
  <1>3. CASE Worker
    <2>1. AtSelect' = AtSelect /\ stamp' = stamp /\ up' = up
      BY <1>3 DEF Worker, Take, AppendSucceeds, AppendFails, Publish, Stop, AtSelect
    <2>2. ~ProcessEnds
      BY <1>3, <2>1 DEF ProcessEnds, Worker, Take, AppendSucceeds, AppendFails, Publish, Stop
    <2>3. InQueue' \cup InAppend' \subseteq InQueue \cup InAppend
      <3>1. CASE Take
        BY <3>1, TakeMoves
      <3>2. CASE ~Take
        BY <1>3, <3>2 DEF Worker, AppendSucceeds, AppendFails, Publish, Stop, InQueue, InAppend
      <3> QED
        BY <3>1, <3>2
    <2>4. AppendSucceeds => (worker = "appending" => item \notin Pending')
      <3> SUFFICES ASSUME AppendSucceeds, worker = "appending" PROVE item \notin Pending'
        OBVIOUS
      <3>1. InAppend = {item} /\ InAppend' = {} /\ InQueue' = InQueue
        BY DEF AppendSucceeds, InAppend, InQueue
      <3>2. item \notin InQueue /\ item \in Sent /\ item \in Calls
        BY <3>1 DEF PlaceInv, TypeOK
      <3>3. item \notin AtSelect
        BY Zenon, <3>2 DEF PlaceInv, Unsent, AtSelect
      <3> QED
        BY <1>0, <2>1, <3>1, <3>2, <3>3
    <2> QED
      BY <1>0, <2>1, <2>2, <2>3, <2>4
  <1>4. CASE Tick \/ (\E k \in Closers : Closer(k)) \/ UNCHANGED vars
    <2>1. UNCHANGED <<up, call, stamp, queue, worker, item>>
      BY <1>4 DEF Tick, Closer, CloseCalled, CloseQueue, CloseReturns, vars
    <2>2. ~AppendSucceeds /\ ~ProcessEnds
      BY <2>1 DEF AppendSucceeds, ProcessEnds
    <2> QED
      BY <2>1, <2>2 DEF Pending, InQueue, InAppend
  <1> QED
    BY <1>1, <1>2, <1>3, <1>4 DEF Next

(* The operators of the chain mean the same in AuditLog.                   *)
LEMMA SameChain ==
  /\ Promise!StoredIds(log) = StoredIds(log)
  /\ Promise!HeadHash(log) = HeadHash(log)
  /\ \A e, prev, seq : Promise!Seal(e, prev, seq) = Seal(e, prev, seq)
  BY Zenon DEF Promise!StoredIds, StoredIds, Promise!HeadHash, HeadHash, Promise!GenesisHash,
     GenesisHash,
         Promise!Seal, Seal, Promise!ComputeHash, ComputeHash

(* Entries that leave without a row are lost to AuditLog.                  *)
LEMMA LoseStep ==
  ASSUME Built' \subseteq Built, UNCHANGED <<Acked, log, nextSeq, clock>>
  PROVE  Promise!Next
  <1> DEFINE lost == Built \ Built'
  <1>1. lost \in SUBSET Built /\ Built' = Built \ lost
    OBVIOUS
  <1>2. Promise!Lose(lost)
    BY <1>1 DEF Promise!Lose, Built, Acked
  <1> HIDE DEF lost
  <1> QED
    BY <1>1, <1>2 DEF Promise!Next, Built

(* An entry whose row is sealed against the head is stored by AuditLog,    *)
(* and what leaves in the same step is lost.                               *)
LEMMA StoreStep ==
  ASSUME NEW e \in Built, e \notin Built', Built' \subseteq Built,
         log' = log \cup {Seal(e, HeadHash(log), nextSeq)}, nextSeq' = nextSeq + 1,
         UNCHANGED <<Acked, clock>>
  PROVE  Promise!Next
  <1> DEFINE lost == Built \ Built'
  <1>1. lost \in SUBSET Built /\ Built' = Built \ (lost \cup {e})
    OBVIOUS
  <1>2. Promise!Store(e, lost)
    BY Zenon, <1>1, SameChain DEF Promise!Store, Built, Acked
  <1> HIDE DEF lost
  <1> QED
    BY <1>1, <1>2 DEF Promise!Next, Built

(* The entry Build adds is new, and stamped with the clock.                *)
LEMMA BuildStep ==
  ASSUME TypeOK, PlaceInv, NEW c \in Calls, Build(c)
  PROVE  Promise!Next
  <1>1. /\ call[c] = "calling" /\ call' = [call EXCEPT ![c] = "sending"]
        /\ stamp' = [stamp EXCEPT ![c] = clock]
        /\ UNCHANGED <<queue, worker, item, log, nextSeq, clock>>
    BY DEF Build, notCaller, runVars, storeVars, queueVars
  <1>2. c \notin Inserted /\ c \notin InQueue \cup InAppend
    BY <1>1 DEF PlaceInv, Unsent
  <1>3. UNCHANGED <<InQueue, InAppend>>
    BY <1>1 DEF InQueue, InAppend
  <1>4. AtSelect' = AtSelect \cup {c} /\ c \notin AtSelect /\ Acked' = Acked
    BY <1>1 DEF AtSelect, Acked, TypeOK
  <1>5. Pending' = Pending \cup {c} /\ c \notin Pending
    BY <1>2, <1>3, <1>4 DEF Pending, AtSelect
  <1>6. Pending \subseteq Calls
    BY DEF Pending, InQueue, InAppend, TypeOK
  <1>7. stamp'[c] = clock /\ \A d \in Pending : stamp'[d] = stamp[d]
    BY <1>1, <1>5, <1>6 DEF TypeOK
  <1>8. Built' = Built \cup {[id |-> c, ts |-> clock]}
    BY Zenon, <1>5, <1>7 DEF Built, EntryOf
  <1>9. \A e \in Built : e.id # c
    <2> SUFFICES ASSUME NEW e \in Built PROVE e.id # c
      OBVIOUS
    <2>1. PICK d \in Pending : e = EntryOf(d)
      BY Zenon DEF Built
    <2>2. e.id = d
      BY <2>1 DEF EntryOf
    <2> QED
      BY Zenon, <1>5, <2>2
  <1>10. c \notin StoredIds(log)
    BY <1>2 DEF Inserted, StoredIds
  <1>11. Promise!Build(c)
    BY <1>1, <1>4, <1>8, <1>9, <1>10, SameChain DEF Promise!Build, Built, Acked
  <1>12. c \in Ids
    BY WriterAssumption
  <1> QED
    BY <1>11, <1>12 DEF Promise!Next

(* Every step of the writer is a step of AuditLog.                         *)
LEMMA PromiseStep ==
  ASSUME ~AmbiguousAppend, TypeInv, ChainInv, PlaceInv, [Next]_vars
  PROVE  [Promise!Next]_(Promise!vars)
  <1> USE DEF notCaller, notRun, notClose, runVars, storeVars, callVars, queueVars
  <1>0. TypeOK /\ limbo = {}
    BY DEF TypeInv, ChainInv
  <1>1. CASE \E c \in Calls : Build(c)
    BY <1>0, <1>1, BuildStep
  <1>2. CASE \A c \in Calls : ~Build(c)
    <2>1. /\ stamp' = stamp /\ Pending' \subseteq Pending
          /\ AppendSucceeds \/ ProcessEnds => (worker = "appending" => item \notin Pending')
      BY <1>0, <1>2, EntriesLeave
    <2>2. Built' \subseteq Built
      BY Zenon, <2>1 DEF Built, EntryOf
    <2>3. CASE Tick
      <3>1. UNCHANGED <<Pending, Acked>>
        BY <2>3 DEF Tick, Pending, InQueue, InAppend, Acked
      <3>2. Built' = Built
        BY <2>1, <3>1 DEF Built, EntryOf
      <3>3. Promise!Tick
        BY <2>3, <3>1, <3>2 DEF Tick, Promise!Tick, Built, Acked
      <3> QED
        BY <3>3 DEF Promise!Next
    <2>4. CASE \E c \in Calls : Caller(c)
      <3> PICK c \in Calls : Caller(c)
        BY <2>4
      <3>1. UNCHANGED <<log, nextSeq, clock, result>>
        BY Zenon DEF Caller, Invoke, Refuse, Build, Send, Drop, GiveUp, Collect
      <3>2. CASE Collect(c) /\ result[c] = "ok"
        <4>1. call[c] = "waiting" /\ call' = [call EXCEPT ![c] = "ok"] /\ UNCHANGED <<queue, worker, item>>
          BY <3>2 DEF Collect
        <4>2. Acked' = Acked \cup {c}
          BY <1>0, <4>1 DEF Acked, TypeOK
        <4>3. AtSelect' = AtSelect
          BY <1>0, <4>1 DEF AtSelect, TypeOK
        <4>4. Pending' = Pending
          BY <4>1, <4>3 DEF Pending, AtSelect, InQueue, InAppend
        <4>5. Built' = Built
          BY <2>1, <4>4 DEF Built, EntryOf
        <4>6. c \in StoredIds(log)
          BY Zenon, <3>2 DEF PlaceInv
        <4>7. Promise!Acknowledge(c)
          BY Zenon, <3>1, <4>2, <4>5, <4>6, SameChain DEF Promise!Acknowledge, Built, Acked
        <4>8. c \in Ids
          BY WriterAssumption
        <4> QED
          BY <4>7, <4>8 DEF Promise!Next
      <3>3. CASE ~(Collect(c) /\ result[c] = "ok")
        <4>1. Acked' = Acked
          BY Zenon, <1>0, <3>3 DEF Caller, Invoke, Refuse, Build, Send, Drop, GiveUp, Collect,
             Acked, TypeOK
        <4> QED
          BY <2>2, <3>1, <4>1, LoseStep
      <3> QED
        BY <3>2, <3>3
    <2>5. CASE Worker \/ NewWriter \/ ProcessEnds
      <3>1. UNCHANGED <<Acked, clock>>
        <4>1. CASE Worker \/ NewWriter
          BY Zenon, <4>1 DEF Worker, Take, AppendSucceeds, AppendFails, Publish, Stop,
             NewWriter, Acked
        <4>2. CASE ProcessEnds
          BY <4>2 DEF ProcessEnds, Acked
        <4> QED
          BY <2>5, <4>1, <4>2
      <3>2. CASE UNCHANGED <<log, nextSeq>>
        BY <2>2, <3>1, <3>2, LoseStep
      <3>3. CASE ~UNCHANGED <<log, nextSeq>>
        <4>1. /\ AppendSucceeds \/ ProcessEnds
              /\ up /\ worker = "appending" /\ log' = log \cup {Sealed} /\ nextSeq' = nextSeq + 1
          BY Zenon, <2>5, <3>3 DEF Worker, Take, AppendSucceeds, AppendFails, Publish, Stop,
             NewWriter, ProcessEnds
        <4>2. item \in Pending /\ item \notin Pending'
          BY <2>1, <4>1 DEF Pending, InAppend
        <4>3. EntryOf(item) \in Built
          BY <4>2 DEF Built
        <4>4. PICK e : e = EntryOf(item)
          OBVIOUS
        <4>5. e \in Built /\ e \notin Built'
          BY Zenon, <4>2, <4>3, <4>4 DEF Built, EntryOf
        <4>6. Sealed = Seal(e, HeadHash(log), nextSeq)
          BY <4>1, <4>4 DEF Sealed, ChainInv
        <4> QED
          BY <2>2, <3>1, <4>1, <4>5, <4>6, StoreStep
      <3> QED
        BY <3>2, <3>3
    <2>6. CASE (\E k \in Closers : Closer(k)) \/ UNCHANGED vars
      <3>1. UNCHANGED <<Acked, log, nextSeq, clock>>
        BY <2>6 DEF Closer, CloseCalled, CloseQueue, CloseReturns, vars, Acked
      <3> QED
        BY <2>2, <3>1, LoseStep
    <2> QED
      BY <1>0, <2>3, <2>4, <2>5, <2>6 DEF Next
  <1> QED
    BY <1>1, <1>2

(* If every INSERT is answered, the writer with its queue, lock, goroutine *)
(* and restarts does to the log, and answers to RecordSync, only what      *)
(* AuditLog allows.                                                        *)
THEOREM WriterKeepsPromise ==
  ASSUME ~AmbiguousAppend
  PROVE  Spec => ImplementsAuditLog
  <1>1. Init => Promise!Init
    <2> SUFFICES ASSUME Init PROVE Promise!Init
      OBVIOUS
    <2>1. Pending = {} /\ Acked = {}
      BY DEF Init, Pending, InQueue, InAppend, Acked
    <2> QED
      BY <2>1 DEF Init, Promise!Init, Acked
  <1>2. TypeInv /\ ChainInv /\ PlaceInv /\ [Next]_vars => [Promise!Next]_(Promise!vars)
    BY PromiseStep
  <1> QED
    BY <1>1, <1>2, TypeInvariant, ChainInvariant, PlaceInvariant, PTL
       DEF Spec, ImplementsAuditLog, Promise!Spec
=============================================================================
