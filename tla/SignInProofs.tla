---------------------------- MODULE SignInProofs ----------------------------
(***************************************************************************)
(* Proofs about SignIn: for any number of attempts, addresses and proxies, *)
(* whatever lists clients send along, an attempt is attributed to who made *)
(* it, and the cap is exceeded only by attempts that overlap.              *)
(***************************************************************************)
EXTENDS SignIn, FiniteSetTheorems, TLAPS

(* The shape of the state, as far as the arguments need it.                *)
Types ==
    /\ at \in [Attempts -> {"new", "compare", "malformed", "refused", "failed", "in", "cut"}]
    /\ client \in [Attempts -> Clients]
    /\ attempts \in [Addresses -> [count : Nat, first : Nat]]
    /\ clock \in Nat
    /\ peak \in [Addresses -> Nat]

(* Every attempt is attributed to its client.                              *)
Attributed == ip = client

IInv == Types /\ Attributed /\ ChargedToTheirAuthor /\ OvershootIsConcurrency

-----------------------------------------------------------------------------
(* The walk of clientIP finds the client: behind it are only proxies, and  *)
(* what it wrote itself is before it.                                      *)
LEMMA FindsClient ==
  ASSUME NEW c \in Clients, NEW path \in Paths, NEW written \in Written
  PROVE  ClientIP(Peer(c, path), Forwarded(c, path, written)) = c
  <1>1. /\ path \in Seq(Proxies) /\ written \in Seq(Addresses \cup {Empty, Malformed})
        /\ c \notin Proxies /\ c \notin {Empty, Malformed} /\ c \in Addresses
        /\ {Empty, Malformed} \cap Proxies = {}
    BY SignInAssumption DEF Addresses
  <1>2. CASE path = <<>>
    BY <1>1, <1>2 DEF ClientIP, Peer
  <1>3. CASE path # <<>>
    <2> DEFINE list == Forwarded(c, path, written)
               rest == SubSeq(path, 1, Len(path) - 1)
               others == {i \in DOMAIN list : list[i] \notin Proxies \cup {Empty}}
               n == Len(written) + 1
    <2>1. Peer(c, path) \in Proxies
      BY <1>1, <1>3 DEF Peer
    <2>2. rest \in Seq(Proxies)
      <3>1. Len(path) - 1 \in Nat /\ \A i \in 1..(Len(path) - 1) : path[i] \in Proxies
        BY <1>1, <1>3
      <3>2. rest = [i \in 1..(Len(path) - 1) |-> path[i]]
        BY <1>1, <3>1
      <3> HIDE DEF rest
      <3> QED
        BY <3>1, <3>2
    <2>3. list = written \o <<c>> \o rest
      BY <1>3 DEF Forwarded
    <2> HIDE DEF list, rest
    <2>4. /\ n \in DOMAIN list /\ list[n] = c /\ n \in Nat /\ DOMAIN list \subseteq Nat
          /\ \A i \in DOMAIN list : i > n => list[i] \in Proxies
      <3> DEFINE S == Addresses \cup {Empty, Malformed}
                 head == written \o <<c>>
      <3>1. head \in Seq(S) /\ Len(head) = n /\ head[n] = c /\ n \in Nat \ {0}
        BY <1>1
      <3>2. rest \in Seq(S)
        BY <2>2 DEF Addresses
      <3> HIDE DEF S, head, n
      <3>3. /\ list \in Seq(S) /\ Len(list) = n + Len(rest)
            /\ list[n] = head[n]
            /\ \A i \in 1..Len(rest) : list[n + i] = rest[i]
        BY <2>3, <3>1, <3>2 DEF head
      <3>4. \A i \in DOMAIN list : i > n => i - n \in 1..Len(rest) /\ list[i] = rest[i - n]
        BY <3>1, <3>2, <3>3
      <3> QED
        BY <2>2, <3>1, <3>2, <3>3, <3>4
    <2>5. n \in others /\ \A i \in others : i \in Nat /\ i <= n
      BY <1>1, <2>4
    <2> HIDE DEF n
    <2>6. Max(others) = n
      <3>1. \A x \in others : (\A y \in others : x >= y) => x = n
        BY <2>4, <2>5
      <3> HIDE DEF others
      <3> QED
        BY <2>4, <2>5, <3>1 DEF Max
    <2>7. ClientIP(Peer(c, path), list) =
            IF Peer(c, path) \notin Proxies \/ others = {} \/ list[Max(others)] = Malformed
            THEN Peer(c, path) ELSE list[Max(others)]
      BY DEF ClientIP
    <2> HIDE DEF others
    <2>8. ClientIP(Peer(c, path), list) = c
      BY <1>1, <2>1, <2>4, <2>5, <2>6, <2>7
    <2> QED
      BY <2>8 DEF list
  <1> QED
    BY <1>2, <1>3

(* Sets of attempts are finite.                                            *)
LEMMA Finite ==
  ASSUME NEW S, S \subseteq Attempts
  PROVE  /\ IsFiniteSet(S) /\ Cardinality(S) \in Nat
         /\ \A T \in SUBSET S : Cardinality(T) \in Nat /\ Cardinality(T) <= Cardinality(S)
  <1>1. IsFiniteSet(S)
    BY SignInAssumption, FS_Subset
  <1> QED
    BY <1>1, FS_Subset, FS_CardinalityType

(* The invariant holds before the first attempt.                           *)
LEMMA InitIInv == ASSUME Init PROVE IInv
  <1>1. Types /\ Attributed
    BY SignInAssumption DEF Init, Types, Attributed, NoRecord, Addresses
  <1>2. \A i \in Addresses : /\ attempts[i].count = 0 /\ peak[i] = 0 /\ Comparing(i) = {}
                             /\ Cardinality(Comparing(i)) = 0
    BY FS_EmptySet DEF Init, NoRecord, Comparing
  <1>3. \A i : Cardinality(FailuresOf(i)) \in Nat
    BY Finite DEF FailuresOf
  <1>4. ChargedToTheirAuthor
    BY <1>2, <1>3, FS_EmptySet DEF ChargedToTheirAuthor
  <1>5. OvershootIsConcurrency
    BY <1>2, SignInAssumption DEF OvershootIsConcurrency
  <1> QED
    BY <1>1, <1>4, <1>5 DEF IInv

-----------------------------------------------------------------------------
(* What a step may do to the record of an address without harm: the record *)
(* is no greater, no comparison begins, no failure is forgotten.           *)
LEMMA NoMore ==
  ASSUME IInv, Types', ip' = ip, client' = client,
         \A i \in Addresses : attempts'[i].count <= attempts[i].count,
         \A i \in Addresses : peak'[i] = peak[i],
         \A a \in Attempts : at'[a] = "compare" => at[a] = "compare",
         \A a \in Attempts : at[a] = "failed" => at'[a] = "failed"
  PROVE  IInv'
  <1>1. Attributed'
    BY DEF IInv, Attributed
  <1>2. \A i \in Addresses : attempts'[i].count \in Nat /\ attempts[i].count \in Nat /\ peak[i] \in Nat
    BY DEF IInv, Types
  <1>3. ASSUME NEW i \in Addresses
        PROVE  /\ Cardinality(Comparing(i)') \in Nat /\ Cardinality(Comparing(i)) \in Nat
               /\ Cardinality(Comparing(i)') <= Cardinality(Comparing(i))
               /\ Cardinality(FailuresOf(i)') \in Nat /\ Cardinality(FailuresOf(i)) \in Nat
               /\ Cardinality(FailuresOf(i)) <= Cardinality(FailuresOf(i)')
    <2>1. Comparing(i)' \subseteq Comparing(i) /\ Comparing(i) \subseteq Attempts
      BY DEF Comparing
    <2>2. FailuresOf(i) \subseteq FailuresOf(i)' /\ FailuresOf(i)' \subseteq Attempts
      BY DEF FailuresOf
    <2> QED
      BY <2>1, <2>2, Finite
  <1>4. ChargedToTheirAuthor'
    BY <1>2, <1>3, FS_EmptySet DEF IInv, ChargedToTheirAuthor
  <1>5. ASSUME NEW i \in Addresses
        PROVE  attempts'[i].count + Cardinality(Comparing(i)') <= Limit - 1 + peak'[i]
    <2>1. attempts[i].count + Cardinality(Comparing(i)) <= Limit - 1 + peak[i]
      BY DEF IInv, OvershootIsConcurrency
    <2>2. Limit \in Nat
      BY SignInAssumption
    <2> QED
      BY <1>2, <1>3, <2>1, <2>2
  <1>6. OvershootIsConcurrency'
    BY <1>5 DEF OvershootIsConcurrency
  <1> QED
    BY <1>1, <1>4, <1>6 DEF IInv

(* The process restarts, time passes, or an attempt is answered.           *)
LEMMA QuietStep ==
  ASSUME IInv, Restart \/ Tick \/ \E a \in Attempts : Reject(a) \/ Succeed(a)
  PROVE  IInv'
  <1>1. Types
    BY DEF IInv
  <1>2. NoRecord \in [count : Nat, first : Nat] /\ NoRecord.count = 0
    BY DEF NoRecord
  <1>3. CASE Restart
    <2>1. Types'
      BY <1>1, <1>2, <1>3 DEF Types, Restart
    <2> QED
      BY <1>1, <1>2, <1>3, <2>1, NoMore DEF Types, Restart
  <1>4. CASE Tick
    <2>1. Types'
      BY <1>1, <1>4 DEF Types, Tick
    <2> QED
      BY <1>1, <1>4, <2>1, NoMore DEF Types, Tick
  <1>5. ASSUME NEW a \in Attempts, Reject(a) PROVE IInv'
    <2>1. Types'
      BY <1>1, <1>5 DEF Types, Reject
    <2> QED
      BY <1>1, <1>5, <2>1, NoMore DEF Types, Reject
  <1>6. ASSUME NEW a \in Attempts, Succeed(a) PROVE IInv'
    <2>1. Types' /\ \A i \in Addresses : attempts'[i].count <= attempts[i].count
      <3>1. attempts' = [attempts EXCEPT ![ip[a]] = NoRecord]
        BY <1>6 DEF Succeed, Reset
      <3>2. attempts \in [Addresses -> [count : Nat, first : Nat]]
        BY <1>1 DEF Types
      <3>3. attempts' \in [Addresses -> [count : Nat, first : Nat]]
        BY <1>2, <3>1, <3>2
      <3>4. \A i \in Addresses : attempts'[i].count <= attempts[i].count
        BY <1>2, <3>1, <3>2
      <3>5. Types'
        BY <1>1, <1>6, <3>3 DEF Types, Succeed
      <3> QED
        BY <3>4, <3>5
    <2> QED
      BY <1>1, <1>6, <2>1, NoMore DEF Types, Succeed
  <1> QED
    BY <1>3, <1>4, <1>5, <1>6

(* A failure is counted, and its comparison is over.                       *)
LEMMA FailStep == ASSUME IInv, NEW a \in Attempts, Fail(a) PROVE IInv'
  <1>0. PICK j \in Clients : j = client[a]
    BY DEF IInv, Types
  <1> DEFINE old == attempts[j]
             new == Counted(old)
  <1>1. /\ Types /\ Attributed /\ ChargedToTheirAuthor /\ OvershootIsConcurrency
        /\ at[a] = "compare" /\ ip[a] = j /\ j \in Addresses
        /\ UNCHANGED <<client, ip, clock, peak>> /\ at' = [at EXCEPT ![a] = "failed"]
        /\ attempts' = [attempts EXCEPT ![j] = new]
    <2>1. Types /\ Attributed /\ ChargedToTheirAuthor /\ OvershootIsConcurrency /\ ip[a] = j
      BY <1>0 DEF IInv, Attributed
    <2>2. j \in Addresses
      BY DEF Addresses
    <2>3. /\ at[a] = "compare" /\ UNCHANGED <<client, ip, clock, peak>>
          /\ at' = [at EXCEPT ![a] = "failed"]
      BY DEF Fail
    <2>4. attempts' = [attempts EXCEPT ![j] = new]
      BY <2>1 DEF Fail
    <2> QED
      BY <2>1, <2>2, <2>3, <2>4
  <1>2. old \in [count : Nat, first : Nat] /\ clock \in Nat
    BY <1>1 DEF Types
  <1>3. new \in [count : Nat, first : Nat] /\ new.count <= old.count + 1
    <2>1. CASE new = [count |-> 1, first |-> clock]
      BY <1>2, <2>1
    <2>2. CASE new = [old EXCEPT !.count = old.count + 1]
      BY <1>2, <2>2
    <2> QED
      BY <2>1, <2>2 DEF Counted
  <1> HIDE DEF new
  <1>4. /\ Types' /\ Attributed' /\ attempts'[j] = new
        /\ \A i \in Addresses \ {j} : attempts'[i] = attempts[i]
    BY <1>1, <1>3 DEF Types, Attributed
  <1>5. \A i \in Addresses : attempts'[i].count \in Nat /\ attempts[i].count \in Nat /\ peak[i] \in Nat
    BY <1>1, <1>4 DEF Types
  <1>6. /\ a \in Comparing(j) /\ Comparing(j)' = Comparing(j) \ {a}
        /\ a \notin FailuresOf(j) /\ FailuresOf(j)' = FailuresOf(j) \cup {a}
        /\ \A i \in Addresses \ {j} : Comparing(i)' = Comparing(i) /\ FailuresOf(i)' = FailuresOf(i)
    BY <1>0, <1>1 DEF Types, Attributed, Comparing, FailuresOf
  <1>7. \A i : /\ IsFiniteSet(Comparing(i)) /\ Cardinality(Comparing(i)) \in Nat
               /\ IsFiniteSet(FailuresOf(i)) /\ Cardinality(FailuresOf(i)) \in Nat
    BY Finite DEF Comparing, FailuresOf
  <1>8. /\ Cardinality(Comparing(j)') = Cardinality(Comparing(j)) - 1
        /\ Cardinality(FailuresOf(j)') = Cardinality(FailuresOf(j)) + 1
    <2>1. Cardinality(Comparing(j) \ {a}) = Cardinality(Comparing(j)) - 1
      BY <1>6, <1>7, FS_RemoveElement
    <2>2. Cardinality(FailuresOf(j) \cup {a}) = Cardinality(FailuresOf(j)) + 1
      BY <1>6, <1>7, FS_AddElement
    <2> QED
      BY <1>6, <2>1, <2>2
  <1>9. ChargedToTheirAuthor'
    <2>1. old.count <= Cardinality(FailuresOf(j))
      BY <1>1 DEF ChargedToTheirAuthor
    <2>2. attempts'[j].count <= Cardinality(FailuresOf(j)')
      BY <1>2, <1>3, <1>4, <1>7, <1>8, <2>1
    <2> QED
      BY <1>1, <1>4, <1>6, <2>2 DEF ChargedToTheirAuthor
  <1>10. OvershootIsConcurrency'
    <2>1. old.count + Cardinality(Comparing(j)) <= Limit - 1 + peak[j] /\ Limit \in Nat
      BY <1>1, SignInAssumption DEF OvershootIsConcurrency
    <2>2. attempts'[j].count + Cardinality(Comparing(j)') <= Limit - 1 + peak[j]
      BY <1>1, <1>2, <1>3, <1>4, <1>5, <1>7, <1>8, <2>1
    <2> QED
      BY <1>1, <1>4, <1>6, <2>2 DEF OvershootIsConcurrency
  <1> QED
    BY <1>4, <1>9, <1>10 DEF IInv

-----------------------------------------------------------------------------
(* The larger of two numbers is at least as large as both.                 *)
LEMMA MaxOfTwo ==
  ASSUME NEW m \in Nat, NEW n \in Nat
  PROVE  Max({m, n}) \in Nat /\ Max({m, n}) >= m /\ Max({m, n}) >= n
  <1>1. \E x \in {m, n} : \A y \in {m, n} : x >= y
    <2>1. CASE m >= n
      BY <2>1
    <2>2. CASE n >= m
      BY <2>2
    <2> QED
      BY <2>1, <2>2
  <1>2. Max({m, n}) \in {m, n} /\ \A y \in {m, n} : Max({m, n}) >= y
    BY <1>1 DEF Max
  <1> QED
    BY <1>2

(* The limiter lets an attempt go on to its comparison, or refuses it.     *)
LEMMA AllowStep == ASSUME IInv, NEW a \in Attempts, Allow(a) PROVE IInv'
  <1>0. PICK j \in Clients : j = client[a]
    BY DEF IInv, Types
  <1> DEFINE n == Cardinality(Comparing(j)) + 1
  <1>1. /\ Types /\ Attributed /\ ChargedToTheirAuthor /\ OvershootIsConcurrency
        /\ at[a] = "new" /\ j \in Clients /\ j \in Addresses /\ UNCHANGED <<client, clock>>
    BY DEF IInv, Allow, Addresses
  <1>2. /\ ip' = [ip EXCEPT ![a] = j] /\ attempts' = Swept(j)
        /\ \/ /\ BelowMax(Swept(j)[j]) /\ at' = [at EXCEPT ![a] = "compare"]
              /\ peak' = [peak EXCEPT ![j] = Max({peak[j], n})]
           \/ at' = [at EXCEPT ![a] = "refused"] /\ UNCHANGED peak
    <2>1. PICK path \in Paths, written \in Written :
            LET i == ClientIP(Peer(j, path), Forwarded(j, path, written))
                k == Cardinality(Comparing(i)) + 1
            IN  /\ ip' = [ip EXCEPT ![a] = i]
                /\ attempts' = Swept(i)
                /\ \/ /\ BelowMax(Swept(i)[i])
                      /\ at' = [at EXCEPT ![a] = "compare"]
                      /\ peak' = [peak EXCEPT ![i] = Max({peak[i], k})]
                   \/ /\ ~BelowMax(Swept(i)[i])
                      /\ at' = [at EXCEPT ![a] = "refused"]
                      /\ UNCHANGED peak
      BY <1>0 DEF Allow
    <2>2. ClientIP(Peer(j, path), Forwarded(j, path, written)) = j
      BY FindsClient
    <2> QED
      BY <2>1, <2>2
  <1>3. ip' = ip
    BY <1>0, <1>1, <1>2 DEF Attributed, Types
  <1>4. /\ attempts' \in [Addresses -> [count : Nat, first : Nat]]
        /\ \A i \in Addresses : attempts'[i].count <= attempts[i].count
    <2>1. \A i \in Addresses : attempts[i] \in [count : Nat, first : Nat] /\ attempts'[i] \in {NoRecord, attempts[i]}
      BY <1>1, <1>2 DEF Types, Swept
    <2>2. NoRecord \in [count : Nat, first : Nat] /\ NoRecord.count = 0
      BY DEF NoRecord
    <2>3. DOMAIN attempts' = Addresses /\ attempts' = [i \in Addresses |-> attempts'[i]]
      BY <1>2 DEF Swept
    <2> QED
      BY <2>1, <2>2, <2>3
  <1>5. CASE at' = [at EXCEPT ![a] = "refused"] /\ UNCHANGED peak
    <2>1. Types'
      BY <1>1, <1>4, <1>5 DEF Types
    <2> QED
      BY <1>1, <1>3, <1>4, <1>5, <2>1, NoMore DEF Types
  <1>6. CASE /\ BelowMax(Swept(j)[j]) /\ at' = [at EXCEPT ![a] = "compare"]
             /\ peak' = [peak EXCEPT ![j] = Max({peak[j], n})]
    <2>1. \A i : /\ IsFiniteSet(Comparing(i)) /\ Cardinality(Comparing(i)) \in Nat
                 /\ Cardinality(FailuresOf(i)) \in Nat
      BY Finite DEF Comparing, FailuresOf
    <2>2. peak[j] \in Nat /\ n \in Nat
      BY <1>1, <2>1 DEF Types
    <2>3. Max({peak[j], n}) \in Nat /\ Max({peak[j], n}) >= n
      BY <2>2, MaxOfTwo
    <2>4. /\ Types' /\ Attributed' /\ peak'[j] >= n /\ peak'[j] \in Nat
          /\ \A i \in Addresses \ {j} : peak'[i] = peak[i]
      BY <1>1, <1>3, <1>4, <1>6, <2>3 DEF Types, Attributed
    <2>5. /\ Comparing(j)' = Comparing(j) \cup {a} /\ a \notin Comparing(j)
          /\ \A i \in Addresses \ {j} : Comparing(i)' = Comparing(i)
          /\ \A i : FailuresOf(i)' = FailuresOf(i)
      BY <1>0, <1>1, <1>3, <1>6 DEF Types, Attributed, Comparing, FailuresOf
    <2>6. Cardinality(Comparing(j)') = n
      BY <2>1, <2>5, FS_AddElement
    <2>7. \A i \in Addresses : attempts'[i].count \in Nat /\ attempts[i].count \in Nat /\ peak[i] \in Nat
      BY <1>1, <1>4 DEF Types
    <2>8. ChargedToTheirAuthor'
      BY <1>1, <1>4, <2>1, <2>5, <2>7, FS_EmptySet DEF ChargedToTheirAuthor
    <2>9. attempts'[j].count < Limit /\ Limit \in Nat
      BY <1>2, <1>6, SignInAssumption DEF BelowMax
    <2> HIDE DEF n
    <2>10. OvershootIsConcurrency'
      <3>1. attempts'[j].count + Cardinality(Comparing(j)') <= Limit - 1 + peak'[j]
        BY <1>1, <2>2, <2>4, <2>6, <2>7, <2>9
      <3>2. ASSUME NEW i \in Addresses \ {j}
            PROVE  attempts'[i].count + Cardinality(Comparing(i)') <= Limit - 1 + peak'[i]
        <4>1. attempts[i].count + Cardinality(Comparing(i)) <= Limit - 1 + peak[i]
          BY <1>1 DEF OvershootIsConcurrency
        <4> QED
          BY <1>4, <2>1, <2>4, <2>5, <2>7, <2>9, <4>1
      <3> QED
        BY <3>1, <3>2 DEF OvershootIsConcurrency
    <2> QED
      BY <2>4, <2>8, <2>10 DEF IInv
  <1> QED
    BY <1>2, <1>5, <1>6

-----------------------------------------------------------------------------
(* The invariant holds of every behaviour.                                 *)
THEOREM SignInInvariant == Spec => []IInv
  <1>1. IInv /\ [Next]_vars => IInv'
    <2>1. ASSUME IInv, UNCHANGED vars PROVE IInv'
      BY <2>1 DEF vars, IInv, Types, Attributed, ChargedToTheirAuthor, OvershootIsConcurrency,
         FailuresOf, Comparing
    <2> QED
      BY <2>1, QuietStep, FailStep, AllowStep DEF Next
  <1> QED
    BY <1>1, InitIInv, PTL DEF Spec

(* clientIP charges nobody with what another client did, for any trusted   *)
(* proxies, any path through them and any list the client sends along.     *)
THEOREM NobodyPaysForOthers == Spec => []ChargedToTheirAuthor
  BY SignInInvariant, PTL DEF IInv

(* Since allow and fail are two critical sections the cap can be passed,   *)
(* but by no more than the attempts of the address that overlapped.        *)
THEOREM CapPlusConcurrency == Spec => []OvershootIsConcurrency
  BY SignInInvariant, PTL DEF IInv

-----------------------------------------------------------------------------
(***************************************************************************)
(* Refusals.  A record counts no more than the failures of its client      *)
(* since the record began that no success has cleared.                     *)
(***************************************************************************)
Counts(i) == {b \in FailuresOf(i) \ cleared : ended[b] >= attempts[i].first}

CauseInv ==
    /\ ended \in [Attempts -> Nat]
    /\ \A b \in cleared : b \in Attempts /\ at[b] = "failed"
    /\ \A i \in Addresses : /\ attempts[i].first <= clock
                            /\ attempts[i].count <= Cardinality(Counts(i))

(* The failures behind a record are finitely many.                         *)
LEMMA CountsFinite == \A i : IsFiniteSet(Counts(i)) /\ Cardinality(Counts(i)) \in Nat
  BY Finite DEF Counts, FailuresOf

(* A record that is dropped, or keeps the failures behind it, has them.    *)
LEMMA KeptRecords ==
  ASSUME Types, CauseInv, clock' \in Nat, clock' >= clock, ended' = ended,
         \A b \in cleared' : b \in Attempts /\ at'[b] = "failed",
         \A i \in Addresses : \/ attempts'[i] = NoRecord
                              \/ attempts'[i] = attempts[i] /\ Counts(i) \subseteq Counts(i)'
  PROVE  CauseInv'
  <1> SUFFICES ASSUME NEW i \in Addresses
               PROVE  attempts'[i].first <= clock' /\ attempts'[i].count <= Cardinality(Counts(i)')
    BY DEF CauseInv
  <1>1. Cardinality(Counts(i)) \in Nat
    BY CountsFinite
  <1>2. Counts(i)' \subseteq Attempts
    BY DEF Counts, FailuresOf
  <1>3. Cardinality(Counts(i)') \in Nat
    BY <1>2, Finite
  <1>4. CASE attempts'[i] = NoRecord
    BY <1>3, <1>4 DEF NoRecord
  <1>5. CASE attempts'[i] = attempts[i] /\ Counts(i) \subseteq Counts(i)'
    <2>1. Cardinality(Counts(i)) <= Cardinality(Counts(i)')
      BY <1>2, <1>5, Finite
    <2>2. attempts[i].count \in Nat /\ attempts[i].first \in Nat /\ clock \in Nat
      BY DEF Types
    <2> QED
      BY <1>1, <1>3, <1>5, <2>1, <2>2 DEF CauseInv
  <1> QED
    BY <1>4, <1>5

(* Every step but a failure drops records or keeps what is behind them.    *)
LEMMA OtherCauses ==
  ASSUME IInv, CauseInv,
         \/ Restart \/ Tick \/ UNCHANGED vars
         \/ \E a \in Attempts : Allow(a) \/ Reject(a) \/ Succeed(a)
  PROVE  CauseInv'
  <1>0. /\ Types /\ ip = client /\ clock \in Nat
        /\ \A b \in cleared : b \in Attempts /\ at[b] = "failed"
    BY DEF IInv, Types, Attributed, CauseInv
  <1>1. ASSUME NEW a \in Attempts, Succeed(a) PROVE CauseInv'
    <2>1. /\ at[a] = "compare" /\ at' = [at EXCEPT ![a] = "in"]
          /\ attempts' = [attempts EXCEPT ![client[a]] = NoRecord]
          /\ cleared' = cleared \cup FailuresOf(client[a])
          /\ UNCHANGED <<client, clock, ended>>
      BY <1>0, <1>1 DEF Succeed, Reset, FailuresOf
    <2>2. \A b \in cleared' : b \in Attempts /\ at'[b] = "failed"
      BY <1>0, <2>1 DEF Types, FailuresOf
    <2>3. \A i : FailuresOf(i)' = FailuresOf(i)
      BY <1>0, <2>1 DEF Types, FailuresOf
    <2>4. \A i \in Addresses \ {client[a]} : attempts'[i] = attempts[i] /\ Counts(i) \subseteq Counts(i)'
      <3>1. \A i \in Addresses \ {client[a]} : attempts'[i] = attempts[i]
        BY <1>0, <2>1 DEF Types
      <3>2. \A i \in Addresses \ {client[a]} : FailuresOf(i) \cap FailuresOf(client[a]) = {}
        BY DEF FailuresOf
      <3> QED
        BY <2>1, <2>3, <3>1, <3>2 DEF Counts
    <2>5. client[a] \in Addresses => attempts'[client[a]] = NoRecord
      BY <1>0, <2>1 DEF Types
    <2> QED
      BY <1>0, <2>1, <2>2, <2>4, <2>5, KeptRecords
  <1>2. CASE \/ Restart \/ Tick \/ UNCHANGED vars
             \/ \E a \in Attempts : Allow(a) \/ Reject(a)
    <2>1. /\ UNCHANGED <<client, ended, cleared>> /\ clock' \in Nat /\ clock' >= clock
          /\ \A b \in Attempts : at'[b] = "failed" <=> at[b] = "failed"
      <3>1. CASE Restart \/ Tick \/ UNCHANGED vars
        BY <1>0, <3>1 DEF Restart, Tick, vars, Types
      <3>2. CASE \E a \in Attempts : Allow(a)
        <4>1. PICK a \in Attempts : Allow(a)
          BY <3>2
        <4>2. /\ at[a] = "new" /\ UNCHANGED <<client, ended, cleared, clock>>
              /\ at' = [at EXCEPT ![a] = "compare"] \/ at' = [at EXCEPT ![a] = "refused"]
          BY <4>1 DEF Allow
        <4> QED
          BY <1>0, <4>2 DEF Types
      <3>3. CASE \E a \in Attempts : Reject(a)
        BY <1>0, <3>3 DEF Reject, Types
      <3> QED
        BY <1>2, <3>1, <3>2, <3>3
    <2>2. \A i \in Addresses : attempts'[i] \in {NoRecord, attempts[i]}
      <3>1. CASE \E a \in Attempts : Allow(a)
        <4>1. PICK i : attempts' = Swept(i)
          BY <3>1 DEF Allow
        <4> QED
          BY <4>1 DEF Swept
      <3>2. CASE Restart \/ Tick \/ UNCHANGED vars \/ \E a \in Attempts : Reject(a)
        BY <3>2 DEF Restart, Tick, vars, Reject
      <3> QED
        BY <1>2, <3>1, <3>2
    <2>3. \A i : FailuresOf(i)' = FailuresOf(i)
      BY <2>1 DEF FailuresOf
    <2>4. \A i \in Addresses : attempts'[i] = attempts[i] => Counts(i) \subseteq Counts(i)'
      BY <2>1, <2>3 DEF Counts
    <2>5. \A b \in cleared' : b \in Attempts /\ at'[b] = "failed"
      BY <1>0, <2>1
    <2> QED
      BY <1>0, <2>1, <2>2, <2>4, <2>5, KeptRecords
  <1> QED
    BY <1>1, <1>2

(* A failure joins those behind its record, or begins a new one.           *)
LEMMA FailCauses == ASSUME IInv, CauseInv, NEW a \in Attempts, Fail(a) PROVE CauseInv'
  <1>0. PICK j \in Addresses : j = client[a] /\ j = ip[a]
    BY DEF IInv, Types, Attributed, Addresses
  <1> DEFINE old == attempts[j]
             new == Counted(old)
  <1>1. /\ at[a] = "compare" /\ at' = [at EXCEPT ![a] = "failed"]
        /\ ended' = [ended EXCEPT ![a] = clock]
        /\ attempts' = [attempts EXCEPT ![j] = new]
        /\ UNCHANGED <<client, clock, cleared>>
    BY <1>0 DEF Fail
  <1>2. Types /\ clock \in Nat /\ old \in [count : Nat, first : Nat] /\ old.first <= clock
    BY DEF IInv, Types, CauseInv
  <1>3. \/ new = [count |-> 1, first |-> clock]
        \/ new = [old EXCEPT !.count = old.count + 1]
    BY DEF Counted
  <1>4. /\ new.count \in Nat /\ new.first <= clock
        /\ new.count = 1 \/ (new.count = old.count + 1 /\ new.first = old.first)
    BY <1>2, <1>3
  <1> HIDE DEF new
  <1>5. /\ attempts'[j] = new /\ \A i \in Addresses \ {j} : attempts'[i] = attempts[i]
        /\ ended' \in [Attempts -> Nat] /\ ended'[a] = clock
        /\ \A b \in Attempts \ {a} : ended'[b] = ended[b]
    BY <1>1, <1>2 DEF Types, CauseInv
  <1>6. a \notin cleared /\ \A b \in cleared' : b \in Attempts /\ at'[b] = "failed"
    BY <1>1, <1>2 DEF CauseInv, Types
  <1>7. /\ FailuresOf(j)' = FailuresOf(j) \cup {a} /\ a \notin FailuresOf(j)
        /\ \A i \in Addresses \ {j} : FailuresOf(i)' = FailuresOf(i) /\ a \notin FailuresOf(i)
        /\ \A i : FailuresOf(i) \subseteq Attempts
    BY <1>0, <1>1, <1>2 DEF FailuresOf, Types
  <1>8. \A i \in Addresses \ {j} : Counts(i)' = Counts(i)
    BY <1>1, <1>5, <1>7 DEF Counts
  <1>9. a \in Counts(j)'
    BY <1>1, <1>2, <1>4, <1>5, <1>6, <1>7 DEF Counts
  <1>10. new.first = old.first => Counts(j)' = Counts(j) \cup {a}
    BY <1>1, <1>5, <1>7, <1>9 DEF Counts
  <1>11. a \notin Counts(j)
    BY <1>7 DEF Counts
  <1>12. Counts(j)' \subseteq Attempts
    BY <1>1 DEF Counts, FailuresOf
  <1>13. new.count <= Cardinality(Counts(j)')
    <2>1. CASE new.count = 1
      <3>1. IsFiniteSet(Counts(j)') /\ Cardinality(Counts(j)') \in Nat
        BY <1>12, Finite
      <3>2. Cardinality(Counts(j)') # 0
        BY <1>9, <3>1, FS_EmptySet
      <3> QED
        BY <2>1, <3>1, <3>2
    <2>2. CASE new.count = old.count + 1 /\ new.first = old.first
      <3>1. IsFiniteSet(Counts(j)) /\ Cardinality(Counts(j)) \in Nat
        BY CountsFinite
      <3>2. Cardinality(Counts(j) \cup {a}) = Cardinality(Counts(j)) + 1
        BY <1>11, <3>1, FS_AddElement
      <3>3. old.count <= Cardinality(Counts(j)) /\ old.count \in Nat
        BY <1>2 DEF CauseInv
      <3>4. Counts(j)' = Counts(j) \cup {a} /\ new.count = old.count + 1
        BY <1>10, <2>2
      <3> HIDE DEF old
      <3>5. old.count + 1 <= Cardinality(Counts(j)) + 1
        BY <3>1, <3>3
      <3> QED
        BY <3>2, <3>4, <3>5
    <2> QED
      BY <1>4, <2>1, <2>2
  <1> QED
    BY <1>1, <1>4, <1>5, <1>6, <1>8, <1>13 DEF CauseInv

(* A sign-in is refused only to a client with Limit failures of its own    *)
(* within the window and no success since, whatever lists were sent along, *)
(* however attempts overlap and however often the dashboard restarts.      *)
THEOREM RefusedForCause == Spec => RefusalHasCause
  <1>1. Init => CauseInv
    <2> SUFFICES ASSUME Init PROVE CauseInv
      OBVIOUS
    <2>1. \A i \in Addresses : attempts[i].count = 0 /\ attempts[i].first = 0
      BY DEF Init, NoRecord
    <2> QED
      BY <2>1, CountsFinite DEF Init, CauseInv
  <1>2. IInv /\ CauseInv /\ [Next]_vars => CauseInv'
    BY OtherCauses, FailCauses DEF Next
  <1>3. ASSUME IInv, CauseInv, [Next]_vars,
               NEW a \in Attempts, at[a] = "new", at'[a] = "refused"
        PROVE  Cardinality(Causes(client[a])) >= Limit
    <2>0. PICK j \in Clients : j = client[a]
      BY <1>3 DEF IInv, Types
    <2>1. Types /\ j \in Addresses /\ clock \in Nat /\ Limit \in Nat \ {0} /\ Window \in Nat
      BY <1>3, SignInAssumption DEF IInv, Types, Addresses
    <2>2. Allow(a)
      <3>1. CASE UNCHANGED vars
        BY <1>3, <3>1 DEF vars
      <3>2. CASE Restart \/ Tick
        BY <1>3, <2>1, <3>2 DEF Restart, Tick
      <3>3. CASE \E b \in Attempts : Reject(b) \/ Fail(b) \/ Succeed(b)
        BY <1>3, <2>1, <3>3 DEF Reject, Fail, Succeed, Types
      <3>4. CASE \E b \in Attempts : Allow(b)
        <4>1. PICK b \in Attempts : Allow(b)
          BY <3>4
        <4>2. \/ at' = [at EXCEPT ![b] = "compare"] \/ at' = [at EXCEPT ![b] = "refused"]
          BY <4>1 DEF Allow
        <4> QED
          BY <1>3, <2>1, <4>1, <4>2 DEF Types
      <3> QED
        BY <1>3, <3>1, <3>2, <3>3, <3>4 DEF Next
    <2>3. ~BelowMax(Swept(j)[j])
      <3>1. PICK path \in Paths, written \in Written :
              LET i == ClientIP(Peer(j, path), Forwarded(j, path, written))
              IN  \/ at' = [at EXCEPT ![a] = "compare"]
                  \/ ~BelowMax(Swept(i)[i])
        BY <2>0, <2>2 DEF Allow
      <3>2. ClientIP(Peer(j, path), Forwarded(j, path, written)) = j
        BY FindsClient
      <3>3. at' # [at EXCEPT ![a] = "compare"]
        BY <1>3, <2>1 DEF Types
      <3> QED
        BY <3>1, <3>2, <3>3
    <2>4. attempts[j].count \in Nat /\ attempts[j].first \in Nat
      BY <2>1 DEF Types
    <2>5. attempts[j].count >= Limit /\ ~Expired(attempts[j])
      <3>1. Swept(j)[j] = IF Expired(attempts[j]) THEN NoRecord ELSE attempts[j]
        BY <2>1 DEF Swept
      <3>2. ~BelowMax(NoRecord) => FALSE
        BY <2>1 DEF BelowMax, NoRecord
      <3> QED
        BY <2>1, <2>3, <2>4, <3>1, <3>2 DEF BelowMax
    <2>6. clock - attempts[j].first <= Window
      BY <2>1, <2>4, <2>5 DEF Expired
    <2>7. \A b \in Attempts : ended[b] \in Nat
      BY <1>3 DEF CauseInv
    <2>8. Counts(j) \subseteq Causes(j) /\ Causes(j) \subseteq Attempts
      BY <2>1, <2>4, <2>6, <2>7 DEF Counts, Causes, FailuresOf
    <2>9. /\ Cardinality(Counts(j)) \in Nat /\ Cardinality(Causes(j)) \in Nat
          /\ Cardinality(Counts(j)) <= Cardinality(Causes(j))
      BY <2>8, Finite
    <2>10. attempts[j].count <= Cardinality(Counts(j))
      BY <1>3, <2>1 DEF CauseInv
    <2> QED
      BY <2>0, <2>1, <2>4, <2>5, <2>9, <2>10
  <1>4. IInv /\ CauseInv /\ [Next]_vars =>
          [\A a \in Attempts :
             at[a] = "new" /\ at'[a] = "refused" => Cardinality(Causes(client[a])) >= Limit]_vars
    BY <1>3
  <1> QED
    BY <1>1, <1>2, <1>4, SignInInvariant, PTL DEF Spec, RefusalHasCause
=============================================================================
