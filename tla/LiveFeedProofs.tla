--------------------------- MODULE LiveFeedProofs ---------------------------
(***************************************************************************)
(* Proofs about LiveFeed: for any number of connections and entries and    *)
(* buffers of any size, done is closed once, and what the view shows is in *)
(* the order of the log.                                                   *)
(***************************************************************************)
EXTENDS LiveFeed, TLAPS

(* The shape of the state, as far as the arguments need it.                *)
Types ==
    /\ published \in Nat
    /\ stream \in Seq(Nat)
    /\ clients \subseteq Conns
    /\ queue \in [Conns -> Seq(Nat)]
    /\ closes \in [Conns -> Nat]
    /\ handler \in [Conns -> {"none", "accepted", "run"}]
    /\ reader \in [Conns -> {"none", "run"}]
    /\ net \in [Conns -> {"free", "dialing", "open", "closed"}]
    /\ wire \in [Conns -> Seq(Nat)]
    /\ socket \in Conns \cup {None}
    /\ state \in {"connecting", "open", "closed", "unmounted"}
    /\ events \in Seq(Nat)

(* A client that is in the hub, or will be, has not been closed; one that  *)
(* is not yet there has no handler.                                        *)
Life == \A c \in Conns :
    /\ closes[c] <= 1
    /\ c \in clients => closes[c] = 0
    /\ handler[c] = "accepted" => closes[c] = 0 /\ c \notin clients
    /\ net[c] \in {"free", "dialing"} => handler[c] = "none" /\ c \notin clients

Ordered(s) == \A i, j \in DOMAIN s : i < j => s[i] < s[j]
Before(s, t) == \A i \in DOMAIN s, j \in DOMAIN t : s[i] < t[j]
Known(s, n) == \A i \in DOMAIN s : s[i] <= n

(* Every stage of the feed is in the order of the log, and behind the one  *)
(* that feeds it.                                                          *)
Stages ==
    /\ Ordered(stream) /\ Known(stream, published)
    /\ \A c \in Conns :
          /\ Ordered(queue[c]) /\ Before(queue[c], stream) /\ Known(queue[c], published)
          /\ Ordered(wire[c]) /\ Before(wire[c], queue[c]) /\ Before(wire[c], stream)
          /\ Known(wire[c], published)
          /\ net[c] \in {"free", "dialing"} => wire[c] = <<>>

(* So is the view, with regard to the connection it has: what a connection *)
(* it no longer has, or not yet, still holds may be older.                 *)
View ==
    /\ NewestFirst /\ Before(events, stream) /\ Known(events, published)
    /\ state \in {"connecting", "open"} => socket # None
    /\ socket # None =>
          /\ Before(events, wire[socket])
          /\ net[socket] = "open" => Before(events, queue[socket])

IInv == Types /\ Life /\ Stages /\ View

-----------------------------------------------------------------------------
(* Sequences that are in order, one before the other, stay so.             *)
LEMMA OrderAppend ==
  ASSUME NEW s \in Seq(Nat), NEW e \in Nat, Ordered(s), \A i \in DOMAIN s : s[i] < e
  PROVE  Ordered(Append(s, e)) /\ Append(s, e) \in Seq(Nat)
  BY DEF Ordered

(* What is left of a sequence without its head.                            *)
LEMMA TailIn ==
  ASSUME NEW s \in Seq(Nat), s # <<>>
  PROVE  /\ Tail(s) \in Seq(Nat) /\ Head(s) \in Nat /\ 1 \in DOMAIN s /\ Head(s) = s[1]
         /\ \A i \in DOMAIN Tail(s) : i + 1 \in DOMAIN s /\ i \in Nat /\ Tail(s)[i] = s[i + 1]
  OBVIOUS

(* An increasing sequence without its head is increasing, and after it.    *)
LEMMA OrderTail ==
  ASSUME NEW s \in Seq(Nat), s # <<>>, Ordered(s)
  PROVE  Ordered(Tail(s)) /\ \A i \in DOMAIN Tail(s) : Head(s) < Tail(s)[i]
  <1>1. \A i, j \in DOMAIN s : i < j => s[i] < s[j]
    BY DEF Ordered
  <1>2. ASSUME NEW i \in DOMAIN Tail(s) PROVE Head(s) < Tail(s)[i]
    <2>1. i \in 1..Len(Tail(s))
      BY TailIn
    <2> QED
      BY <1>1, <2>1, TailIn
  <1>3. ASSUME NEW i \in DOMAIN Tail(s), NEW j \in DOMAIN Tail(s), i < j
        PROVE  Tail(s)[i] < Tail(s)[j]
    <2>1. i + 1 < j + 1
      BY <1>3, TailIn
    <2> QED
      BY <1>1, <2>1, TailIn
  <1> QED
    BY <1>2, <1>3 DEF Ordered

(* Sequences of published entries, longer and shorter.                     *)
LEMMA KnownParts ==
  ASSUME NEW s \in Seq(Nat), NEW n \in Nat, Known(s, n)
  PROVE  /\ \A e \in Nat : e <= n => Known(Append(s, e), n)
         /\ s # <<>> => Known(Tail(s), n) /\ Head(s) <= n
         /\ Known(s, n + 1)
  BY TailIn DEF Known

(* Sequences one of which is before the other, longer and shorter.         *)
LEMMA BeforeParts ==
  ASSUME NEW s \in Seq(Nat), NEW t \in Seq(Nat), Before(s, t)
  PROVE  /\ \A e \in Nat : (\A i \in DOMAIN s : s[i] < e) => Before(s, Append(t, e))
         /\ \A e \in Nat : (\A i \in DOMAIN t : e < t[i]) => Before(Append(s, e), t)
         /\ s # <<>> => Before(Tail(s), t) /\ \A i \in DOMAIN t : Head(s) < t[i]
         /\ t # <<>> => Before(s, Tail(t)) /\ \A i \in DOMAIN s : s[i] < Head(t)
         /\ Before(s, <<>>) /\ Before(<<>>, t)
  <1>1. \A e \in Nat : (\A i \in DOMAIN s : s[i] < e) => Before(s, Append(t, e))
    BY DEF Before
  <1>2. \A e \in Nat : (\A i \in DOMAIN t : e < t[i]) => Before(Append(s, e), t)
    BY DEF Before
  <1>3. s # <<>> => Before(Tail(s), t) /\ \A i \in DOMAIN t : Head(s) < t[i]
    BY TailIn DEF Before
  <1>4. t # <<>> => Before(s, Tail(t)) /\ \A i \in DOMAIN s : s[i] < Head(t)
    BY TailIn DEF Before
  <1>5. Before(s, <<>>) /\ Before(<<>>, t)
    BY DEF Before
  <1> QED
    BY <1>1, <1>2, <1>3, <1>4, <1>5

(* An entry that is after those shown comes in front of them.              *)
LEMMA Shown ==
  ASSUME Types, NewestFirst, NEW e \in Nat, \A i \in DOMAIN events : events[i] < e
  PROVE  /\ Newest(e) \in Seq(Nat)
         /\ \A i, j \in DOMAIN Newest(e) : i < j => Newest(e)[i] > Newest(e)[j]
         /\ \A i \in DOMAIN Newest(e) :
               Newest(e)[i] = e \/ \E j \in DOMAIN events : Newest(e)[i] = events[j]
  <1> DEFINE rest == IF Len(events) < MaxEvents THEN events ELSE SubSeq(events, 1, MaxEvents - 1)
  <1>1. /\ rest \in Seq(Nat) /\ Len(rest) <= Len(events)
        /\ \A i \in 1..Len(rest) : rest[i] = events[i]
    <2>1. MaxEvents \in Nat \ {0} /\ events \in Seq(Nat)
      BY FeedAssumption DEF Types
    <2>2. CASE Len(events) < MaxEvents
      BY <2>1, <2>2
    <2>3. CASE ~(Len(events) < MaxEvents)
      <3>1. rest = SubSeq(events, 1, MaxEvents - 1) /\ 1..(MaxEvents - 1) \subseteq DOMAIN events
        BY <2>1, <2>3
      <3> HIDE DEF rest
      <3>2. \A i \in 1..(MaxEvents - 1) : events[i] \in Nat
        BY <2>1, <3>1
      <3>3. SubSeq(events, 1, MaxEvents - 1) = [i \in 1..(MaxEvents - 1) |-> events[i]]
        BY <2>1, <3>1
      <3> QED
        BY <2>1, <2>3, <3>1, <3>2, <3>3
    <2> QED
      BY <2>2, <2>3
  <1>2. Newest(e) = <<e>> \o rest
    BY DEF Newest
  <1> HIDE DEF rest
  <1>3. /\ Newest(e) \in Seq(Nat) /\ Len(Newest(e)) = Len(rest) + 1
        /\ Newest(e)[1] = e
        /\ \A i \in 2..Len(Newest(e)) : Newest(e)[i] = events[i - 1] /\ i - 1 \in DOMAIN events
    <2>1. /\ Newest(e) \in Seq(Nat) /\ Len(Newest(e)) = Len(rest) + 1 /\ Newest(e)[1] = e
          /\ \A i \in 2..Len(Newest(e)) : Newest(e)[i] = rest[i - 1]
      BY <1>1, <1>2
    <2>2. \A i \in 2..Len(Newest(e)) : i - 1 \in 1..Len(rest)
      BY <1>1, <2>1
    <2>3. events \in Seq(Nat) /\ \A i \in 1..Len(rest) : i \in DOMAIN events
      BY <1>1 DEF Types
    <2> QED
      BY Zenon, <1>1, <2>1, <2>2, <2>3
  <1>4. \A i \in DOMAIN events : events[i] \in Nat
    BY DEF Types
  <1>5. ASSUME NEW i \in DOMAIN Newest(e), NEW j \in DOMAIN Newest(e), i < j
        PROVE  Newest(e)[i] > Newest(e)[j]
    <2>1. i \in Nat \ {0} /\ j \in 2..Len(Newest(e))
      BY <1>3, <1>5
    <2>2. CASE i = 1
      BY <1>3, <1>4, <2>1, <2>2
    <2>3. CASE i # 1
      <3>1. i - 1 \in DOMAIN events /\ j - 1 \in DOMAIN events /\ i - 1 < j - 1
            /\ Newest(e)[i] = events[i - 1] /\ Newest(e)[j] = events[j - 1]
        <4>1. i \in 2..Len(Newest(e))
          BY <1>3, <2>1, <2>3
        <4>2. i - 1 < j - 1
          BY <1>5, <2>1
        <4> QED
          BY Zenon, <1>3, <2>1, <4>1, <4>2
      <3>2. events[i - 1] > events[j - 1]
        BY <3>1 DEF NewestFirst
      <3> QED
        BY <3>1, <3>2
    <2> QED
      BY <2>2, <2>3
  <1>6. \A i \in DOMAIN Newest(e) :
               Newest(e)[i] = e \/ \E j \in DOMAIN events : Newest(e)[i] = events[j]
    BY <1>3
  <1> QED
    BY <1>3, <1>5, <1>6

(* The invariant holds before anybody connects.                            *)
LEMMA InitIInv == ASSUME Init PROVE IInv
  BY FeedAssumption DEF Init, IInv, Types, Life, Stages, View, Ordered, Before, Known, NewestFirst

-----------------------------------------------------------------------------
(* An entry is published: it is after all others.                          *)
LEMMA PublishStep == ASSUME IInv, Publish PROVE IInv'
  <1>1. /\ Types /\ Life /\ Stages /\ View /\ published \in Nat /\ published' = published + 1
        /\ UNCHANGED <<process, clients, queue, closes, handler, reader, net, wire, socket, state, events>>
    BY DEF IInv, Types, Publish, netVars, browserVars
  <1>2. \A s \in Seq(Nat) : Known(s, published) =>
           Known(s, published') /\ \A i \in DOMAIN s : s[i] < published'
    BY <1>1 DEF Known
  <1>3. /\ stream' \in Seq(Nat) /\ Ordered(stream') /\ Known(stream', published')
        /\ \A s \in Seq(Nat) : Before(s, stream) /\ Known(s, published) => Before(s, stream')
    <2>1. CASE UNCHANGED stream
      BY <1>1, <1>2, <2>1 DEF Types, Stages
    <2>2. CASE stream' = Append(stream, published')
      <3>1. stream \in Seq(Nat) /\ Ordered(stream) /\ Known(stream, published) /\ published' \in Nat
        BY <1>1 DEF Types, Stages
      <3>2. stream' \in Seq(Nat) /\ Ordered(stream') /\ Known(stream', published')
        BY <1>1, <1>2, <2>2, <3>1, OrderAppend, KnownParts
      <3>3. \A s \in Seq(Nat) : Before(s, stream) /\ Known(s, published) => Before(s, stream')
        BY <1>2, <2>2, <3>1, BeforeParts
      <3> QED
        BY <3>2, <3>3
    <2> QED
      BY <2>1, <2>2 DEF Publish
  <1>4. Types' /\ Life'
    BY <1>1, <1>3 DEF Types, Life
  <1>5. Stages' /\ View'
    BY <1>1, <1>2, <1>3 DEF Types, Stages, View, NewestFirst
  <1> QED
    BY <1>4, <1>5 DEF IInv

(* The hub copies an entry to its clients, or skips those that are full.   *)
LEMMA BroadcastStep == ASSUME IInv, Broadcast PROVE IInv'
  <1> DEFINE e == Head(stream)
  <1>1. /\ Types /\ Life /\ Stages /\ View /\ stream # <<>> /\ stream' = Tail(stream)
        /\ UNCHANGED <<published, process, clients, closes, handler, reader, net, wire, socket, state, events>>
    BY DEF IInv, Broadcast, netVars, browserVars
  <1>2. /\ stream \in Seq(Nat) /\ stream' \in Seq(Nat) /\ e \in Nat /\ e <= published
        /\ Ordered(stream') /\ Known(stream', published) /\ published \in Nat
        /\ \A i \in DOMAIN stream' : e < stream'[i]
        /\ \A s \in Seq(Nat) : Before(s, stream) =>
              Before(s, stream') /\ \A i \in DOMAIN s : s[i] < e
    BY <1>1, TailIn, OrderTail, KnownParts, BeforeParts DEF Types, Stages
  <1> HIDE DEF e
  <1>3. ASSUME NEW c \in Conns
        PROVE  /\ queue'[c] \in Seq(Nat) /\ Ordered(queue'[c]) /\ Known(queue'[c], published)
               /\ Before(queue'[c], stream')
               /\ \A s \in Seq(Nat) : Before(s, queue[c]) /\ Before(s, stream) => Before(s, queue'[c])
    <2>1. /\ queue[c] \in Seq(Nat) /\ Ordered(queue[c]) /\ Known(queue[c], published)
          /\ Before(queue[c], stream)
      BY <1>1 DEF Types, Stages
    <2>2. queue'[c] \in {queue[c], Append(queue[c], e)}
      BY DEF Broadcast, Offer, e
    <2>3. CASE queue'[c] = queue[c]
      BY <1>2, <2>1, <2>3
    <2>4. CASE queue'[c] = Append(queue[c], e)
      <3>1. Before(queue[c], stream') /\ \A i \in DOMAIN queue[c] : queue[c][i] < e
        BY <1>2, <2>1
      <3>2. queue'[c] \in Seq(Nat) /\ Ordered(queue'[c]) /\ Known(queue'[c], published)
        BY <1>2, <2>1, <2>4, <3>1, OrderAppend, KnownParts
      <3>3. Before(queue'[c], stream')
        BY <1>2, <2>1, <2>4, <3>1, BeforeParts
      <3>4. \A s \in Seq(Nat) : Before(s, queue[c]) /\ Before(s, stream) => Before(s, queue'[c])
        BY <1>2, <2>1, <2>4, BeforeParts
      <3> QED
        BY <3>2, <3>3, <3>4
    <2> QED
      BY <2>2, <2>3, <2>4
  <1>4. Types' /\ Life'
    <2>1. queue' \in [Conns -> Seq(Nat)]
      BY <1>3 DEF Broadcast
    <2> QED
      BY <1>1, <1>2, <2>1 DEF Types, Life
  <1>5. Stages'
    BY <1>1, <1>2, <1>3 DEF Types, Stages
  <1>6. View'
    BY <1>1, <1>2, <1>3 DEF Types, View, NewestFirst
  <1> QED
    BY <1>4, <1>5, <1>6 DEF IInv

-----------------------------------------------------------------------------
(* The handler of a connection, and its reader.                            *)
LEMMA AcceptStep == ASSUME IInv, NEW c \in Conns, Accept(c) PROVE IInv'
  <1>1. /\ Types /\ Life /\ Stages /\ View /\ net[c] = "dialing" /\ wire[c] = <<>> /\ c \notin clients
        /\ UNCHANGED <<published, stream, process, clients, reader, wire, socket, state, events>>
    BY DEF IInv, Accept, Stages, Life, browserVars
  <1>2. Types' /\ Life'
    BY <1>1 DEF Types, Life, Accept
  <1>3. queue' = [queue EXCEPT ![c] = <<>>] /\ net' = [net EXCEPT ![c] = "open"]
    BY DEF Accept
  <1>4. Ordered(<<>>) /\ (\A n : Known(<<>>, n)) /\ \A s : Before(s, <<>>) /\ Before(<<>>, s)
    BY DEF Ordered, Known, Before
  <1>5. Stages' /\ View'
    BY <1>1, <1>3, <1>4 DEF Types, Stages, View, NewestFirst
  <1> QED
    BY <1>2, <1>5 DEF IInv

(* The handler registers its connection or ends, or its reader does.       *)
LEMMA HandlerStep ==
  ASSUME IInv, NEW c \in Conns, Add(c) \/ HandlerEnds(c) \/ ReaderEnds(c)
  PROVE  IInv'
  <1>1. /\ Types /\ Life /\ Stages /\ View
        /\ UNCHANGED <<published, stream, queue, wire, socket, state, events>>
    BY DEF IInv, Add, HandlerEnds, ReaderEnds, netVars, browserVars
  <1>2. Types'
    <2>1. CASE Add(c)
      BY <1>1, <2>1 DEF Types, Add, netVars
    <2>2. CASE HandlerEnds(c)
      BY <1>1, <2>2 DEF Types, HandlerEnds, Remove
    <2>3. CASE ReaderEnds(c)
      BY <1>1, <2>3 DEF Types, ReaderEnds, Remove, netVars
    <2> QED
      BY <2>1, <2>2, <2>3
  <1>3. Life'
    <2>1. CASE Add(c)
      BY <1>1, <2>1 DEF Types, Life, Add, netVars
    <2>2. CASE HandlerEnds(c)
      BY <1>1, <2>2 DEF Types, Life, HandlerEnds, Remove
    <2>3. CASE ReaderEnds(c)
      BY <1>1, <2>3 DEF Types, Life, ReaderEnds, Remove, netVars
    <2> QED
      BY <2>1, <2>2, <2>3
  <1>4. net' = net \/ net' = [net EXCEPT ![c] = "closed"]
    BY DEF Add, HandlerEnds, ReaderEnds, netVars
  <1>5. Stages' /\ View'
    BY <1>1, <1>4 DEF Types, Stages, View, NewestFirst
  <1> QED
    BY <1>2, <1>3, <1>5 DEF IInv

(* An entry moves from the queue of a connection to its wire.              *)
LEMMA WriteStep == ASSUME IInv, NEW c \in Conns, Write(c) PROVE IInv'
  <1> DEFINE e == Head(queue[c])
  <1>1. /\ Types /\ Life /\ Stages /\ View /\ net[c] = "open" /\ queue[c] # <<>>
        /\ queue' = [queue EXCEPT ![c] = Tail(queue[c])]
        /\ wire' = [wire EXCEPT ![c] = Append(wire[c], e)]
        /\ UNCHANGED <<published, stream, clients, closes, handler, reader, net, socket, state, events>>
    BY DEF IInv, Write, browserVars
  <1>2. /\ queue[c] \in Seq(Nat) /\ wire[c] \in Seq(Nat) /\ stream \in Seq(Nat) /\ published \in Nat
        /\ Ordered(queue[c]) /\ Ordered(wire[c]) /\ Before(wire[c], queue[c])
        /\ Before(queue[c], stream) /\ Before(wire[c], stream)
        /\ Known(queue[c], published) /\ Known(wire[c], published)
    BY <1>1 DEF Types, Stages
  <1>3. /\ Tail(queue[c]) \in Seq(Nat) /\ e \in Nat /\ e <= published
        /\ Ordered(Tail(queue[c])) /\ Known(Tail(queue[c]), published)
        /\ Before(Tail(queue[c]), stream) /\ Before(wire[c], Tail(queue[c]))
        /\ \A i \in DOMAIN Tail(queue[c]) : e < Tail(queue[c])[i]
        /\ \A i \in DOMAIN stream : e < stream[i]
        /\ \A i \in DOMAIN wire[c] : wire[c][i] < e
    BY <1>1, <1>2, TailIn, OrderTail, KnownParts, BeforeParts
  <1>4. events \in Seq(Nat) /\ (socket = c => Before(events, wire[c]) /\ Before(events, queue[c]))
    BY <1>1, FeedAssumption DEF Types, View
  <1>5. socket = c => Before(events, Tail(queue[c])) /\ \A i \in DOMAIN events : events[i] < e
    BY <1>1, <1>2, <1>4, BeforeParts
  <1> HIDE DEF e
  <1>6. /\ Append(wire[c], e) \in Seq(Nat) /\ Ordered(Append(wire[c], e))
        /\ Known(Append(wire[c], e), published)
        /\ Before(Append(wire[c], e), Tail(queue[c])) /\ Before(Append(wire[c], e), stream)
        /\ socket = c => Before(events, Append(wire[c], e))
    BY <1>2, <1>3, <1>4, <1>5, OrderAppend, KnownParts, BeforeParts
  <1>7. Types' /\ Life'
    BY <1>1, <1>3, <1>6 DEF Types, Life
  <1>8. Stages'
    BY <1>1, <1>3, <1>6 DEF Types, Stages
  <1>9. View'
    BY <1>1, <1>5, <1>6 DEF Types, View, NewestFirst
  <1> QED
    BY <1>7, <1>8, <1>9 DEF IInv

(* The process ends and starts.                                            *)
LEMMA ProcessStep == ASSUME IInv, CloseAll \/ Exit \/ Restart PROVE IInv'
  <1>1. /\ Types /\ Life /\ Stages /\ View
        /\ UNCHANGED <<published, queue, wire, socket, state, events>>
    BY DEF IInv, CloseAll, Exit, Restart, netVars, browserVars
  <1>2. stream' \in {stream, <<>>}
    BY DEF CloseAll, Exit, Restart
  <1>3. /\ DOMAIN net' = Conns
        /\ \A c \in Conns : net'[c] = net[c] \/ net'[c] = "closed"
    BY <1>1 DEF Types, CloseAll, Exit, Restart, netVars
  <1>4. Types' /\ Life'
    <2>1. CASE CloseAll
      BY <1>1, <2>1 DEF Types, Life, CloseAll, netVars
    <2>2. CASE Exit
      BY <1>1, <2>2 DEF Types, Life, Exit
    <2>3. CASE Restart
      BY <1>1, <2>3 DEF Types, Life, Restart, netVars
    <2> QED
      BY <2>1, <2>2, <2>3
  <1>5. Ordered(<<>>) /\ (\A n : Known(<<>>, n)) /\ \A s : Before(s, <<>>)
    BY DEF Ordered, Known, Before
  <1>6. Stages' /\ View'
    BY <1>1, <1>2, <1>3, <1>5 DEF Types, Stages, View, NewestFirst
  <1> QED
    BY <1>4, <1>6 DEF IInv

(* The network.                                                            *)
LEMMA NetworkStep == ASSUME IInv, NEW c \in Conns, Network(c) PROVE IInv'
  <1>1. /\ Types /\ Life /\ Stages /\ View
        /\ UNCHANGED <<published, stream, clients, queue, closes, handler, reader, socket, state, events>>
    BY DEF IInv, Network, Break, RefuseConnection, Forget, hubVars, browserVars
  <1>2. /\ wire' = wire \/ wire' = [wire EXCEPT ![c] = <<>>]
        /\ \/ net' = [net EXCEPT ![c] = "closed"]
           \/ /\ net' = [net EXCEPT ![c] = "free"] /\ wire' = [wire EXCEPT ![c] = <<>>]
              /\ handler[c] = "none" /\ c \notin clients
    BY DEF Network, Break, RefuseConnection, Forget
  <1>3. /\ wire' \in [Conns -> Seq(Nat)] /\ net' \in [Conns -> {"free", "dialing", "open", "closed"}]
        /\ wire'[c] \in {wire[c], <<>>} /\ net'[c] \in {"closed", "free"}
        /\ net'[c] = "free" => wire'[c] = <<>> /\ handler[c] = "none" /\ c \notin clients
        /\ \A d \in Conns \ {c} : wire'[d] = wire[d] /\ net'[d] = net[d]
    <2>1. wire \in [Conns -> Seq(Nat)] /\ net \in [Conns -> {"free", "dialing", "open", "closed"}]
      BY <1>1 DEF Types
    <2>2. <<>> \in Seq(Nat)
      OBVIOUS
    <2> QED
      BY <1>2, <2>1, <2>2
  <1>4. Types' /\ Life'
    BY <1>1, <1>3 DEF Types, Life
  <1>5. Ordered(<<>>) /\ (\A n : Known(<<>>, n)) /\ \A s : Before(s, <<>>) /\ Before(<<>>, s)
    BY DEF Ordered, Known, Before
  <1>6. Stages'
    BY <1>1, <1>3, <1>5 DEF Stages
  <1>7. View'
    BY <1>1, <1>3, <1>5 DEF Types, View, NewestFirst
  <1> QED
    BY <1>4, <1>6, <1>7 DEF IInv

-----------------------------------------------------------------------------
(* The browser: a new connection has nothing on its way.                   *)
LEMMA ConnectStep == ASSUME IInv, Connect PROVE IInv'
  <1>1. PICK c \in Conns :
          net[c] = "free" /\ socket' = c /\ net' = [net EXCEPT ![c] = "dialing"]
    BY DEF Connect
  <1>2. /\ Types /\ Life /\ Stages /\ View /\ wire[c] = <<>> /\ state' = "connecting"
        /\ UNCHANGED <<published, stream, clients, queue, closes, handler, reader, wire, events>>
    BY <1>1 DEF IInv, Stages, Connect, hubVars
  <1>3. \A s : Before(s, <<>>)
    BY DEF Before
  <1>4. Types' /\ Life' /\ Stages'
    BY <1>1, <1>2 DEF Types, Life, Stages
  <1>5. View'
    BY <1>1, <1>2, <1>3, FeedAssumption DEF Types, View, NewestFirst
  <1> QED
    BY <1>4, <1>5 DEF IInv

(* The socket of the view opens or closes, or the view is left.            *)
LEMMA SocketStep == ASSUME IInv, OnOpen \/ OnClose \/ Unmount PROVE IInv'
  <1>1. /\ Types /\ Life /\ Stages /\ View
        /\ UNCHANGED <<published, stream, clients, queue, closes, handler, reader, wire>>
        /\ events' \in {events, <<>>} /\ socket' \in {socket, None}
        /\ state' \in {"open", "closed", "unmounted"}
        /\ state' = "open" => state = "connecting" /\ socket' = socket
    BY DEF IInv, OnOpen, OnClose, ScheduleReconnect, Unmount, hubVars, netVars
  <1>2. /\ net' \in [Conns -> {"free", "dialing", "open", "closed"}]
        /\ \A c \in Conns : net'[c] = net[c] \/ net'[c] = "closed"
    BY <1>1 DEF Types, OnOpen, OnClose, Unmount, netVars
  <1>3. Types' /\ Life' /\ Stages'
    <2>1. <<>> \in Seq(Nat)
      OBVIOUS
    <2>2. Types'
      BY <1>1, <1>2, <2>1 DEF Types
    <2>3. Life' /\ Stages'
      BY <1>1, <1>2 DEF Life, Stages
    <2> QED
      BY <2>2, <2>3
  <1>4. (\A n : Known(<<>>, n)) /\ \A s : Before(<<>>, s)
    BY DEF Known, Before
  <1>5. View'
    BY <1>1, <1>2, <1>4 DEF Types, View, NewestFirst
  <1> QED
    BY <1>3, <1>5 DEF IInv

(* A frame arrives, which is after all that is shown.                      *)
LEMMA MessageStep == ASSUME IInv, OnMessage PROVE IInv'
  <1> DEFINE e == Head(wire[socket])
  <1>1. /\ Types /\ Life /\ Stages /\ View /\ socket \in Conns /\ wire[socket] # <<>>
        /\ events' = Newest(e) /\ wire' = [wire EXCEPT ![socket] = Tail(wire[socket])]
        /\ UNCHANGED <<published, stream, clients, queue, closes, handler, reader, net, socket, state>>
    BY DEF IInv, Types, View, OnMessage, hubVars
  <1>2. /\ wire[socket] \in Seq(Nat) /\ queue[socket] \in Seq(Nat) /\ stream \in Seq(Nat)
        /\ Ordered(wire[socket]) /\ Before(wire[socket], queue[socket]) /\ Before(wire[socket], stream)
        /\ Known(wire[socket], published) /\ published \in Nat
        /\ events \in Seq(Nat) /\ NewestFirst /\ Known(events, published)
        /\ Before(events, wire[socket]) /\ Before(events, stream)
        /\ net[socket] = "open" => Before(events, queue[socket])
    BY <1>1, FeedAssumption DEF Types, Stages, View
  <1>3. /\ e \in Nat /\ e <= published /\ Tail(wire[socket]) \in Seq(Nat)
        /\ Ordered(Tail(wire[socket])) /\ Known(Tail(wire[socket]), published)
        /\ Before(Tail(wire[socket]), queue[socket]) /\ Before(Tail(wire[socket]), stream)
        /\ \A i \in DOMAIN Tail(wire[socket]) : e < Tail(wire[socket])[i]
        /\ \A i \in DOMAIN queue[socket] : e < queue[socket][i]
        /\ \A i \in DOMAIN stream : e < stream[i]
        /\ Before(events, Tail(wire[socket])) /\ \A i \in DOMAIN events : events[i] < e
    BY <1>1, <1>2, TailIn, OrderTail, KnownParts, BeforeParts
  <1> HIDE DEF e
  <1>4. /\ events' \in Seq(Nat)
        /\ \A i, j \in DOMAIN events' : i < j => events'[i] > events'[j]
        /\ \A i \in DOMAIN events' : events'[i] = e \/ \E j \in DOMAIN events : events'[i] = events[j]
    BY <1>1, <1>2, <1>3, Shown
  <1>5. \A s : Before(events, s) /\ (\A i \in DOMAIN s : e < s[i]) => Before(events', s)
    BY <1>4 DEF Before
  <1>6. Known(events', published)
    BY <1>2, <1>3, <1>4 DEF Known
  <1>7. Types' /\ Life'
    BY <1>1, <1>3, <1>4 DEF Types, Life
  <1>8. Stages'
    <2>1. net[socket] \notin {"free", "dialing"}
      BY <1>1 DEF Stages
    <2> QED
      BY <1>1, <1>3, <2>1 DEF Types, Stages
  <1>9. View'
    BY <1>1, <1>2, <1>3, <1>4, <1>5, <1>6 DEF Types, View, NewestFirst
  <1> QED
    BY <1>7, <1>8, <1>9 DEF IInv

-----------------------------------------------------------------------------
(* The invariant holds of every behaviour.                                 *)
THEOREM FeedInvariant == Spec => []IInv
  <1>1. IInv /\ [Next]_vars => IInv'
    <2>1. ASSUME IInv, UNCHANGED vars PROVE IInv'
      BY <2>1 DEF vars, hubVars, netVars, browserVars, IInv, Types, Life, Stages, View, NewestFirst
    <2> QED
      BY <2>1, PublishStep, BroadcastStep, AcceptStep, HandlerStep, WriteStep, ProcessStep, NetworkStep,
         ConnectStep, SocketStep, MessageStep DEF Next, Browser, Server
  <1> QED
    BY <1>1, InitIInv, PTL DEF Spec

(* Hub.remove, closeAll and the two goroutines of a connection close its   *)
(* done channel at most once, however many connections there are and in    *)
(* whatever order they, the network and the process end.                   *)
THEOREM DoneIsClosedOnce == Spec => []ClosedOnce
  <1>1. IInv => ClosedOnce
    BY DEF IInv, Life, ClosedOnce
  <1> QED
    BY <1>1, FeedInvariant, PTL

(* useLiveEvents shows entries in the order of the log, newest first and   *)
(* none twice, for buffers of any size and any number of reconnections.    *)
THEOREM ViewIsInOrder == Spec => []NewestFirst
  <1>1. IInv => NewestFirst
    BY DEF IInv, View
  <1> QED
    BY <1>1, FeedInvariant, PTL
=============================================================================
