---------------------------- MODULE EpollServer ----------------------------
(***************************************************************************)
(* The connection loop of the HTTP server (runtime/runtime.c,              *)
(* tinox_HttpServer_listen, tinox_handle_connections and the epoll_slot_*  *)
(* helpers).  Every worker thread has its own listening socket, its own    *)
(* epoll instance and its own table of connection slots; the table of open *)
(* descriptors belongs to the process, so a number one worker closes may   *)
(* be handed to another one.  A slot is found by fd % EPOLL_MAX_CONNS and  *)
(* remembers when its connection was last active.                          *)
(*                                                                         *)
(* A worker waits for events, reads the clock once, handles the events one *)
(* by one (a request may take any time, or never end: the receive timeout  *)
(* starts anew with every recv and send has none) and closes what has been *)
(* idle for too long.  The difference of two time stamps is an unsigned 64-bit one. *)
(***************************************************************************)
EXTENDS Integers, FiniteSets

CONSTANTS
    Workers, NoWorker,
    Fds,          \* the descriptors connections may get
    Listener,     \* the worker's listening socket, as an event
    MaxConns,     \* EPOLL_MAX_CONNS
    MaxEvents,    \* the length of the events array
    KeepAlive,    \* EPOLL_KEEP_ALIVE_MS
    Width,        \* 2^64
    MaxTime,      \* bound: how far the clock runs
    MaxBacklog    \* bound: connections waiting to be accepted

NoFd == -1

ASSUME EpollAssumption ==
    /\ NoWorker \notin Workers
    /\ Fds \subseteq Nat
    /\ Listener \notin Fds
    /\ MaxConns \in Nat \ {0}
    /\ MaxEvents \in Nat \ {0}
    /\ KeepAlive \in Nat \ {0}
    /\ MaxTime \in Nat
    /\ Width \in Nat /\ Width > MaxTime + KeepAlive
    /\ MaxBacklog \in Nat

VARIABLES
    clock,             \* CLOCK_MONOTONIC_COARSE
    owner,             \* the worker that accepted a descriptor, while it is open
    input,             \* descriptors with something to read, or hung up
    backlog,           \* per worker: connections waiting in its socket
    watched,           \* per worker: the interest list of its epoll instance
    slotFd, slotMs,    \* per worker: g_epoll_slots
    nconns,            \* per worker: g_epoll_nconns
    pc, now, events,   \* per worker: loop position, now_ms, events to handle
    serving,           \* per worker: the connection tinox_handle_one is busy with
    seen               \* history: when a connection was accepted or last served

process == <<owner, input, seen>>
slots == <<slotFd, slotMs, nconns>>
vars == <<clock, owner, input, backlog, watched, slotFd, slotMs, nconns, pc, now,
          events, serving, seen>>

Idx(f) == f % MaxConns
Slots == 0 .. MaxConns - 1
Open(w) == {f \in Fds : owner[f] = w}
Used(w) == {i \in Slots : slotFd[w][i] # NoFd}

(* a - b in unsigned arithmetic. *)
Minus(a, b) == IF a >= b THEN a - b ELSE a - b + Width

Init ==
    /\ clock = 0
    /\ owner = [f \in Fds |-> NoWorker]
    /\ input = {}
    /\ backlog = [w \in Workers |-> 0]
    /\ watched = [w \in Workers |-> {}]
    /\ slotFd = [w \in Workers |-> [i \in Slots |-> NoFd]]
    /\ slotMs = [w \in Workers |-> [i \in Slots |-> 0]]
    /\ nconns = [w \in Workers |-> 0]
    /\ pc = [w \in Workers |-> "wait"]
    /\ now = [w \in Workers |-> 0]
    /\ events = [w \in Workers |-> {}]
    /\ serving = [w \in Workers |-> NoFd]
    /\ seen = [f \in Fds |-> 0]

-----------------------------------------------------------------------------
(* The world: time passes, clients connect, send requests and hang up.     *)
Tick ==
    /\ clock < MaxTime
    /\ clock' = clock + 1
    /\ UNCHANGED <<process, backlog, watched, slots, pc, now, events, serving>>

Connect(w) ==
    /\ backlog[w] < MaxBacklog
    /\ backlog' = [backlog EXCEPT ![w] = @ + 1]
    /\ UNCHANGED <<clock, process, watched, slots, pc, now, events, serving>>

Send(f) ==
    /\ owner[f] # NoWorker /\ f \notin input
    /\ input' = input \cup {f}
    /\ UNCHANGED <<clock, owner, backlog, watched, slots, pc, now, events, serving, seen>>

-----------------------------------------------------------------------------
(* epoll_wait: what is ready, or as many of it as the array holds; nothing *)
(* after the timeout.  now_ms is read once.                                *)
Ready(w) == (input \cap watched[w]) \cup (IF backlog[w] > 0 THEN {Listener} ELSE {})

Wake(w) ==
    /\ pc[w] = "wait"
    /\ \E e \in SUBSET Ready(w) :
        /\ Cardinality(e) <= MaxEvents
        /\ e = Ready(w) \/ Cardinality(e) = MaxEvents
        /\ events' = [events EXCEPT ![w] = e]
    /\ now' = [now EXCEPT ![w] = clock]
    /\ pc' = [pc EXCEPT ![w] = "events"]
    /\ UNCHANGED <<clock, process, backlog, watched, slots, serving>>

(* epoll_slot_add: its time stamp is read now, not at the wake-up. *)
SlotAdd(w, f) ==
    /\ nconns' = [nconns EXCEPT ![w] = IF slotFd[w][Idx(f)] = NoFd THEN @ + 1 ELSE @]
    /\ slotFd' = [slotFd EXCEPT ![w][Idx(f)] = f]
    /\ slotMs' = [slotMs EXCEPT ![w][Idx(f)] = clock]

(* Mutant: the count is not kept when a slot is given up. *)
SlotRemoveNoCount(w, f) ==
    /\ slotFd' = [slotFd EXCEPT ![w][Idx(f)] = NoFd]
    /\ UNCHANGED <<nconns, slotMs>>

(* Mutant: the count is kept without looking whether the slot is used. *)
SlotRemoveUnguarded(w, f) ==
    /\ nconns' = [nconns EXCEPT ![w] = @ - 1]
    /\ slotFd' = [slotFd EXCEPT ![w][Idx(f)] = NoFd]
    /\ UNCHANGED slotMs

(* epoll_slot_remove. *)
SlotRemove(w, f) ==
    /\ nconns' = [nconns EXCEPT ![w] = IF slotFd[w][Idx(f)] # NoFd THEN @ - 1 ELSE @]
    /\ slotFd' = [slotFd EXCEPT ![w][Idx(f)] = NoFd]
    /\ UNCHANGED slotMs

(* An event of the listening socket.  accept fails when the process has no *)
(* descriptor left; the connection then stays in the backlog.              *)
Accept(w) ==
    /\ pc[w] = "events" /\ serving[w] = NoFd /\ Listener \in events[w]
    /\ events' = [events EXCEPT ![w] = @ \ {Listener}]
    /\ \/ /\ \A f \in Fds : owner[f] # NoWorker
          /\ UNCHANGED <<process, backlog, watched, slots>>
       \/ \E f \in Fds :
          /\ owner[f] = NoWorker
          /\ owner' = [owner EXCEPT ![f] = w]
          /\ seen' = [seen EXCEPT ![f] = clock]
          /\ backlog' = [backlog EXCEPT ![w] = @ - 1]
          /\ watched' = [watched EXCEPT ![w] = @ \cup {f}]
          /\ SlotAdd(w, f)
          /\ UNCHANGED input
    /\ UNCHANGED <<clock, pc, now, serving>>

(* Closing a connection: EPOLL_CTL_DEL and close. *)
Drop(w, fs) ==
    /\ watched' = [watched EXCEPT ![w] = @ \ fs]
    /\ owner' = [f \in Fds |-> IF f \in fs THEN NoWorker ELSE owner[f]]
    /\ seen' = [f \in Fds |-> IF f \in fs THEN 0 ELSE seen[f]]

(* An event of a connection: tinox_handle_one is called.                   *)
Handle(w, f) ==
    /\ pc[w] = "events" /\ serving[w] = NoFd /\ f \in events[w]
    /\ events' = [events EXCEPT ![w] = @ \ {f}]
    /\ serving' = [serving EXCEPT ![w] = f]
    /\ UNCHANGED <<clock, process, backlog, watched, slots, pc, now>>

(* Mutant: a connection that is not kept alive keeps its slot. *)
ServeKeepsSlot(w, f, keep) ==
    /\ serving[w] = f /\ f # NoFd
    /\ serving' = [serving EXCEPT ![w] = NoFd]
    /\ input' = input \ {f}
    /\ IF keep
       THEN /\ slotMs' = [slotMs EXCEPT ![w][Idx(f)] = now[w]]
            /\ seen' = [seen EXCEPT ![f] = clock]
            /\ UNCHANGED <<owner, watched, slotFd, nconns>>
       ELSE Drop(w, {f}) /\ UNCHANGED slots
    /\ UNCHANGED <<clock, backlog, pc, now, events>>

(* Mutant: a connection that is kept alive is not read. *)
ServeNoRead(w, f, keep) ==
    /\ serving[w] = f /\ f # NoFd
    /\ serving' = [serving EXCEPT ![w] = NoFd]
    /\ slotMs' = [slotMs EXCEPT ![w][Idx(f)] = now[w]]
    /\ seen' = [seen EXCEPT ![f] = clock]
    /\ UNCHANGED <<owner, input, watched, slotFd, nconns, clock, backlog, pc, now, events>>

(* tinox_handle_one returns: it has read what was there, and says whether  *)
(* the connection is kept alive.                                           *)
Serve(w, f, keep) ==
    /\ serving[w] = f /\ f # NoFd
    /\ serving' = [serving EXCEPT ![w] = NoFd]
    /\ input' = input \ {f}
    /\ IF keep
       THEN /\ slotMs' = [slotMs EXCEPT ![w][Idx(f)] = now[w]]
            /\ seen' = [seen EXCEPT ![f] = clock]
            /\ UNCHANGED <<owner, watched, slotFd, nconns>>
       ELSE Drop(w, {f}) /\ SlotRemove(w, f)
    /\ UNCHANGED <<clock, backlog, pc, now, events>>

(* Mutant: a connection is given up only after its time. *)
StaleLate(w) == {i \in Used(w) : Minus(now[w], slotMs[w][i]) > KeepAlive}

Stale(w) == {i \in Used(w) : Minus(now[w], slotMs[w][i]) >= KeepAlive}

(* The scan for stale connections at the end of the loop, if there are any *)
(* connections.                                                            *)
Scan(w) ==
    /\ pc[w] = "events" /\ serving[w] = NoFd /\ events[w] = {}
    /\ pc' = [pc EXCEPT ![w] = "wait"]
    /\ IF nconns[w] > 0
       THEN LET gone == {slotFd[w][i] : i \in Stale(w)} IN
            /\ Drop(w, gone)
            /\ input' = input \ gone
            /\ slotFd' = [slotFd EXCEPT ![w] =
                             [i \in Slots |-> IF i \in Stale(w) THEN NoFd ELSE @[i]]]
            /\ nconns' = [nconns EXCEPT ![w] = @ - Cardinality(Stale(w))]
       ELSE UNCHANGED <<process, watched, slotFd, nconns>>
    /\ UNCHANGED <<clock, backlog, slotMs, now, events, serving>>

(* What a worker does by itself, whatever its clients do. *)
Loop(w) ==
    \/ Wake(w) \/ Accept(w) \/ Scan(w)
    \/ \E f \in Fds : Handle(w, f)

Next ==
    \/ Tick
    \/ \E f \in Fds : Send(f)
    \/ \E w \in Workers :
        \/ Connect(w) \/ Loop(w)
        \/ \E f \in Fds, keep \in BOOLEAN : Serve(w, f, keep)

Spec == Init /\ [][Next]_vars

(* A worker's loop goes on while it is not inside tinox_handle_one; that a *)
(* request ends is not assumed, a client decides it.  A ready descriptor   *)
(* is not passed over forever: epoll_wait goes round the ready ones when   *)
(* there are more than the array holds.                                    *)
FairSpec ==
    /\ Spec
    /\ \A w \in Workers :
        /\ WF_vars(Loop(w))
        /\ \A f \in Fds : SF_vars(Wake(w) /\ f \in events'[w])

-----------------------------------------------------------------------------
(* Counts, slots, time stamps and loop positions stay in the ranges of     *)
(* their C types; the connection count never drops below zero.             *)
TypeOK ==
    /\ clock \in 0 .. MaxTime
    /\ owner \in [Fds -> Workers \cup {NoWorker}]
    /\ input \subseteq Fds
    /\ backlog \in [Workers -> Nat]
    /\ watched \in [Workers -> SUBSET Fds]
    /\ slotFd \in [Workers -> [Slots -> Fds \cup {NoFd}]]
    /\ slotMs \in [Workers -> [Slots -> 0 .. MaxTime]]
    /\ nconns \in [Workers -> Nat]
    /\ pc \in [Workers -> {"wait", "events"}]
    /\ now \in [Workers -> 0 .. MaxTime]
    /\ events \in [Workers -> SUBSET (Fds \cup {Listener})]
    /\ serving \in [Workers -> Fds \cup {NoFd}]
    /\ seen \in [Fds -> 0 .. MaxTime]

(* A worker only ever reads from and closes its own connections: what its  *)
(* epoll instance, its pending events, its slots and the request it is     *)
(* busy with name is open and was accepted by it, although numbers are     *)
(* shared by all workers and reused.                                       *)
OwnsWhatItTouches ==
    \A w \in Workers :
        /\ watched[w] = Open(w)
        /\ events[w] \ {Listener} \subseteq Open(w)
        /\ serving[w] \in Open(w) \cup {NoFd}
        /\ \A i \in Used(w) : slotFd[w][i] \in Open(w) /\ Idx(slotFd[w][i]) = i

(* g_epoll_nconns is the number of used slots: the scan is not skipped     *)
(* while there is a connection in the table.                               *)
CountExact == \A w \in Workers : nconns[w] = Cardinality(Used(w))

(* No two descriptors share a slot: the process has less than              *)
(* EPOLL_MAX_CONNS of them.                                                *)
NoCollision == \A f, g \in Fds : Idx(f) = Idx(g) => f = g

(* Without collisions every open connection has its slot and is given up   *)
(* in time: at the end of the scan none has been idle for the keep-alive   *)
(* time at the moment the loop woke up.                                    *)
ReapsInTime ==
    NoCollision =>
        \A w \in Workers : \A f \in Open(w) :
            /\ slotFd[w][Idx(f)] = f
            /\ pc[w] = "wait" => now[w] < seen[f] + KeepAlive

(* A worker that no client holds inside tinox_handle_one for ever reads    *)
(* whatever is sent to its connections, or closes them: no request is      *)
(* forgotten behind other connections, nor behind a worker that is held.   *)
Answered ==
    \A w \in Workers :
        []<>(serving[w] = NoFd) =>
            \A f \in Fds : f \in input /\ owner[f] = w ~> f \notin input

(* The scan closes idle connections only: a connection that is closed      *)
(* without an event of its own has been idle for the keep-alive time.      *)
(* The code does not keep this promise (it compares with an older clock).  *)
ClosesIdleOnly ==
    [][\A w \in Workers : \A f \in Open(w) \ (events[w] \cup {serving[w]}) :
            owner'[f] = NoWorker => clock >= seen[f] + KeepAlive]_vars
=============================================================================
