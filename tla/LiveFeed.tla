------------------------------ MODULE LiveFeed ------------------------------
(***************************************************************************)
(* The live view: entries arrive over Redis Pub/Sub at the dashboard, whose*)
(* hub copies them to the WebSocket connections, where a browser shows     *)
(* them newest first and reconnects when its connection drops.             *)
(*                                                                         *)
(* Every connection has a handler and a reader goroutine; both, and the    *)
(* hub, may remove the client.  Each buffer drops what does not fit.  The  *)
(* two ends of a connection notice its end at different times.             *)
(***************************************************************************)
EXTENDS Integers, Sequences

CONSTANTS
    Conns,        \* Connections; one that both ends have forgotten is used again.
    None,         \* No connection.
    LastEntry,    \* Bound on the entries the engine publishes.
    StreamBuffer, \* The buffer of Subscribe.
    ClientBuffer, \* clientBuffer
    MaxEvents,    \* MAX_EVENTS
    MaxBreaks     \* Bound on the connections the network drops.

ASSUME FeedAssumption ==
    /\ None \notin Conns
    /\ {LastEntry, StreamBuffer, ClientBuffer, MaxEvents} \subseteq Nat \ {0}
    /\ MaxBreaks \in Nat

VARIABLES
    published,  \* The entries published so far: entry n is the n-th.
    stream,     \* The channel from Subscribe to the hub.
    process,    \* The dashboard: "up", "stopping" (Hub.Run is over) or "down".
    clients,    \* Hub.clients
    queue,      \* client.events
    closes,     \* How often client.done has been closed.
    handler,    \* The goroutine of Handler, for each connection.
    reader,     \* Its reader goroutine.
    net,        \* The connection itself.
    wire,       \* The frames on their way to the browser.
    breaks,     \* The connections dropped by the network so far.
    socket,     \* The browser's connection.
    state,      \* What useLiveEvents reports.
    events      \* What it shows, newest first.

hubVars == <<stream, process, clients, queue, closes, handler, reader>>
netVars == <<net, wire, breaks>>
browserVars == <<socket, state, events>>
vars == <<published, hubVars, netVars, browserVars>>

Entries == 1..LastEntry

TypeOK ==
    /\ published \in 0..LastEntry
    /\ stream \in Seq(Entries) /\ Len(stream) <= StreamBuffer
    /\ process \in {"up", "stopping", "down"}
    /\ clients \subseteq Conns
    /\ \A c \in Conns :
          /\ queue[c] \in Seq(Entries) /\ Len(queue[c]) <= ClientBuffer
          /\ closes[c] \in Nat
          /\ handler[c] \in {"none", "accepted", "run"}
          /\ reader[c] \in {"none", "run"}
          /\ net[c] \in {"free", "dialing", "open", "closed"}
          /\ wire[c] \in Seq(Entries)
    /\ breaks \in 0..MaxBreaks
    /\ socket \in Conns \cup {None}
    /\ state \in {"connecting", "open", "closed", "unmounted"}
    /\ events \in Seq(Entries) /\ Len(events) <= MaxEvents

Init ==
    /\ published = 0
    /\ stream = <<>>
    /\ process = "up"
    /\ clients = {}
    /\ queue = [c \in Conns |-> <<>>]
    /\ closes = [c \in Conns |-> 0]
    /\ handler = [c \in Conns |-> "none"]
    /\ reader = [c \in Conns |-> "none"]
    /\ net = [c \in Conns |-> "free"]
    /\ wire = [c \in Conns |-> <<>>]
    /\ breaks = 0
    /\ socket = None
    /\ state = "unmounted"
    /\ events = <<>>

-----------------------------------------------------------------------------
(***************************************************************************)
(* Redis and Subscribe: an entry is put on the channel, or lost because    *)
(* nobody was subscribed, it was malformed, or the channel was full.       *)
(***************************************************************************)
Publish ==
    /\ published < LastEntry
    /\ published' = published + 1
    /\ \/ /\ process = "up" /\ Len(stream) < StreamBuffer
          /\ stream' = Append(stream, published')
       \/ UNCHANGED stream
    /\ UNCHANGED <<process, clients, queue, closes, handler, reader, netVars, browserVars>>

(***************************************************************************)
(* The hub.                                                                *)
(***************************************************************************)

(* broadcast: a client whose buffer is full is skipped.                    *)
Offer(q, entry) == IF Len(q) < ClientBuffer THEN Append(q, entry) ELSE q

Broadcast ==
    /\ process = "up" /\ stream # <<>>
    /\ stream' = Tail(stream)
    /\ queue' = [c \in Conns |->
                   IF c \in clients THEN Offer(queue[c], Head(stream)) ELSE queue[c]]
    /\ UNCHANGED <<published, process, clients, closes, handler, reader, netVars, browserVars>>

(* Handler: the upgrade, then add and the start of the reader.             *)
Accept(c) ==
    /\ process = "up" /\ net[c] = "dialing" /\ handler[c] = "none"
    /\ net' = [net EXCEPT ![c] = "open"]
    /\ handler' = [handler EXCEPT ![c] = "accepted"]
    /\ queue' = [queue EXCEPT ![c] = <<>>]
    /\ closes' = [closes EXCEPT ![c] = 0]
    /\ UNCHANGED <<published, stream, process, clients, reader, wire, breaks, browserVars>>

Add(c) ==
    /\ handler[c] = "accepted"
    /\ clients' = clients \cup {c}
    /\ handler' = [handler EXCEPT ![c] = "run"]
    /\ reader' = [reader EXCEPT ![c] = "run"]
    /\ UNCHANGED <<published, stream, process, queue, closes, netVars, browserVars>>

(* remove closes done once, however many goroutines call it.  Mutants: it  *)
(* does not look whether the client is still there; it is not called.      *)
RemoveUnchecked(c) ==
    /\ clients' = clients \ {c}
    /\ closes' = [closes EXCEPT ![c] = @ + 1]
RemoveForgotten(c) == UNCHANGED <<clients, closes>>
Remove(c) ==
    /\ clients' = clients \ {c}
    /\ closes' = [closes EXCEPT ![c] = IF c \in clients THEN @ + 1 ELSE @]

(* The loop of Handler writes an entry to the connection,                  *)
Write(c) ==
    /\ handler[c] = "run" /\ queue[c] # <<>> /\ net[c] = "open"
    /\ queue' = [queue EXCEPT ![c] = Tail(@)]
    /\ wire' = [wire EXCEPT ![c] = Append(@, Head(queue[c]))]
    /\ UNCHANGED <<published, stream, process, clients, closes, handler, reader,
                   net, breaks, browserVars>>

(* or ends: done is closed, or a write or a ping has failed.  The deferred *)
(* calls remove the client and close the connection.                       *)
HandlerEnds(c) ==
    /\ handler[c] = "run"
    /\ closes[c] > 0 \/ net[c] = "closed"
    /\ handler' = [handler EXCEPT ![c] = "none"]
    /\ Remove(c)
    /\ net' = [net EXCEPT ![c] = "closed"]
    /\ UNCHANGED <<published, stream, process, queue, reader, wire, breaks, browserVars>>

(* The reader sees the connection end.                                     *)
ReaderEnds(c) ==
    /\ reader[c] = "run" /\ net[c] = "closed"
    /\ reader' = [reader EXCEPT ![c] = "none"]
    /\ Remove(c)
    /\ UNCHANGED <<published, stream, process, queue, handler, netVars, browserVars>>

(* The context is done: Run closes all clients.  Handlers that are still   *)
(* to add theirs are not waited for, and end with the process.             *)
CloseAll ==
    /\ process = "up"
    /\ process' = "stopping"
    /\ stream' = <<>>
    /\ clients' = {}
    /\ closes' = [c \in Conns |-> IF c \in clients THEN closes[c] + 1 ELSE closes[c]]
    /\ UNCHANGED <<published, queue, handler, reader, netVars, browserVars>>

Exit ==
    /\ process = "stopping"
    /\ process' = "down"
    /\ clients' = {}
    /\ handler' = [c \in Conns |-> "none"]
    /\ reader' = [c \in Conns |-> "none"]
    /\ net' = [c \in Conns |-> IF net[c] = "free" THEN "free" ELSE "closed"]
    /\ UNCHANGED <<published, stream, queue, closes, wire, breaks, browserVars>>

Restart ==
    /\ process = "down"
    /\ process' = "up"
    /\ UNCHANGED <<published, stream, clients, queue, closes, handler, reader,
                   netVars, browserVars>>

(* The network drops a connection, frames on their way included, or refuses*)
(* one.                                                                    *)
Break(c) ==
    /\ breaks < MaxBreaks
    /\ net[c] \in {"dialing", "open"}
    /\ net' = [net EXCEPT ![c] = "closed"]
    /\ wire' = [wire EXCEPT ![c] = <<>>]
    /\ breaks' = breaks + 1
    /\ UNCHANGED <<published, hubVars, browserVars>>

(* A process that is not up accepts no connection.                         *)
RefuseConnection(c) ==
    /\ process # "up" /\ net[c] = "dialing"
    /\ net' = [net EXCEPT ![c] = "closed"]
    /\ UNCHANGED <<published, hubVars, wire, breaks, browserVars>>

(* Both ends have forgotten the connection.                                *)
Forget(c) ==
    /\ net[c] = "closed" /\ socket # c
    /\ handler[c] = "none" /\ reader[c] = "none" /\ c \notin clients
    /\ net' = [net EXCEPT ![c] = "free"]
    /\ wire' = [wire EXCEPT ![c] = <<>>]
    /\ UNCHANGED <<published, hubVars, breaks, browserVars>>

-----------------------------------------------------------------------------
(***************************************************************************)
(* The browser: useLiveEvents.                                             *)
(***************************************************************************)

(* connect, when the view is mounted and when the retry timer fires.       *)
Connect ==
    /\ state \in {"unmounted", "closed"} /\ socket = None
    /\ \E c \in Conns :
          /\ net[c] = "free"
          /\ socket' = c
          /\ net' = [net EXCEPT ![c] = "dialing"]
    /\ state' = "connecting"
    /\ UNCHANGED <<published, hubVars, wire, breaks, events>>

OnOpen ==
    /\ state = "connecting" /\ net[socket] = "open"
    /\ state' = "open"
    /\ UNCHANGED <<published, hubVars, netVars, socket, events>>

(* setEvents: the entry in front, cut to MAX_EVENTS.  Mutant: the entry is *)
(* sorted in behind the newest.                                            *)
BehindNewest(entry) == IF events = <<>> THEN <<entry>> ELSE <<Head(events), entry>>
Newest(entry) ==
    <<entry>> \o (IF Len(events) < MaxEvents THEN events ELSE SubSeq(events, 1, MaxEvents - 1))

OnMessage ==
    /\ state = "open" /\ wire[socket] # <<>>
    /\ events' = Newest(Head(wire[socket]))
    /\ wire' = [wire EXCEPT ![socket] = Tail(@)]
    /\ UNCHANGED <<published, hubVars, net, breaks, socket, state>>

(* onclose, after the frames that arrived.  Mutant: the sketch's version,  *)
(* which does not reconnect and so keeps its dead socket.                  *)
NoReconnect == UNCHANGED socket
ScheduleReconnect == socket' = None

OnClose ==
    /\ state \in {"connecting", "open"}
    /\ net[socket] = "closed"
    /\ state = "open" => wire[socket] = <<>>
    /\ state' = "closed"
    /\ ScheduleReconnect
    /\ UNCHANGED <<published, hubVars, netVars, events>>

(* The effect's cleanup: no timer, no handler of the old socket matters.   *)
Unmount ==
    /\ state # "unmounted"
    /\ state' = "unmounted"
    /\ socket' = None
    /\ events' = <<>>
    /\ net' = [c \in Conns |-> IF c = socket THEN "closed" ELSE net[c]]
    /\ UNCHANGED <<published, hubVars, wire, breaks>>

Server(c) == Accept(c) \/ Add(c) \/ Write(c) \/ HandlerEnds(c) \/ ReaderEnds(c)
Network(c) == Break(c) \/ RefuseConnection(c) \/ Forget(c)
Browser == Connect \/ OnOpen \/ OnMessage \/ OnClose \/ Unmount

Next ==
    \/ Publish \/ Broadcast \/ CloseAll \/ Exit \/ Restart \/ Browser
    \/ \E c \in Conns : Server(c) \/ Network(c)

Spec == Init /\ [][Next]_vars

(***************************************************************************)
(* Goroutines and the browser's event loop run; a ping or a read notices a *)
(* dead connection.                                                        *)
(***************************************************************************)
Fairness ==
    /\ WF_vars(Broadcast)
    /\ WF_vars(Connect) /\ WF_vars(OnOpen) /\ WF_vars(OnMessage) /\ WF_vars(OnClose)
    /\ \A c \in Conns :
          /\ WF_vars(Accept(c)) /\ WF_vars(Add(c)) /\ WF_vars(Write(c))
          /\ WF_vars(HandlerEnds(c)) /\ WF_vars(ReaderEnds(c))
          /\ WF_vars(RefuseConnection(c)) /\ WF_vars(Forget(c))

FairSpec == Spec /\ Fairness

-----------------------------------------------------------------------------
(***************************************************************************)
(* done is closed at most once, although the hub, the handler and the      *)
(* reader all remove the client: a second close panics.                    *)
(***************************************************************************)
ClosedOnce == \A c \in Conns : closes[c] <= 1

(***************************************************************************)
(* What is shown is in the order of the log, newest first, without an      *)
(* entry shown twice, across drops, buffers that fill and reconnections.   *)
(***************************************************************************)
NewestFirst == \A i, j \in DOMAIN events : i < j => events[i] > events[j]

(***************************************************************************)
(* A connection whose browser has gone does not stay in the hub.           *)
(***************************************************************************)
NoGhostClients == \A c \in Conns : net[c] = "closed" ~> c \notin clients

(***************************************************************************)
(* The feed comes back: when the dashboard stays up and the view mounted,  *)
(* the browser ends up connected, and in the hub.                          *)
(***************************************************************************)
FeedRecovers ==
    <>[](process = "up" /\ state # "unmounted") => <>[](state = "open" /\ socket \in clients)
=============================================================================
