---------------------------- MODULE EpollProofs ----------------------------
(***************************************************************************)
(* Proofs about EpollServer, for any number of workers, descriptors,       *)
(* slots and events and any keep-alive time.  The inductive invariant adds *)
(* to the properties what they rest on: a worker that has an event of its  *)
(* listening socket to handle has a connection waiting there, its now_ms   *)
(* is not later than the clock, the connection it is busy with is not      *)
(* among the events still to be handled, and the time stamp of a slot is   *)
(* not later than the last activity of its connection.                     *)
(***************************************************************************)
EXTENDS EpollServer, FiniteSetTheorems, TLAPS

(* What a worker knows when it handles its events. *)
Pending ==
    \A w \in Workers :
        /\ Listener \in events[w] => backlog[w] > 0
        /\ now[w] <= clock
        /\ serving[w] # NoFd => pc[w] = "events" /\ serving[w] \notin events[w]

(* Without collisions every open connection has its slot, stamped no later *)
(* than its last activity.                                                 *)
Stamped ==
    NoCollision =>
        \A w \in Workers : \A f \in Open(w) :
            slotFd[w][Idx(f)] = f /\ slotMs[w][Idx(f)] <= seen[f]

Inv ==
    /\ TypeOK
    /\ OwnsWhatItTouches
    /\ CountExact
    /\ Pending
    /\ Stamped
    /\ ReapsInTime

(* A descriptor has a slot. *)
LEMMA IdxInSlots == \A f \in Fds : Idx(f) \in Slots
  BY EpollAssumption DEF Idx, Slots

(* NoFd marks a free slot: it is no descriptor. *)
LEMMA NoFdNotFd == NoFd \notin Fds
  BY EpollAssumption DEF NoFd

(* The used slots of a worker are finitely many. *)
LEMMA UsedFinite ==
  ASSUME NEW w \in Workers
  PROVE  /\ IsFiniteSet(Used(w))
         /\ Cardinality(Used(w)) \in Nat
  <1>1. IsFiniteSet(Slots)
    BY EpollAssumption, FS_Interval DEF Slots
  <1>2. Used(w) \subseteq Slots
    BY DEF Used
  <1> QED
    BY <1>1, <1>2, FS_Subset, FS_CardinalityType

(* A worker with a used slot counts at least one connection. *)
LEMMA CountsUsed ==
  ASSUME NEW w \in Workers, NEW i \in Used(w), CountExact
  PROVE  nconns[w] \in Nat /\ nconns[w] > 0
  <1>1. Cardinality(Used(w)) # 0
    BY UsedFinite, FS_EmptySet
  <1> QED
    BY <1>1, UsedFinite DEF CountExact

(* The initial state. *)
LEMMA InitInv == Init => Inv
  <1> SUFFICES ASSUME Init PROVE Inv
    OBVIOUS
  <1> USE EpollAssumption
  <1>1. TypeOK
    BY DEF Init, TypeOK, NoFd
  <1>2. \A w \in Workers : Open(w) = {} /\ Used(w) = {}
    BY DEF Init, Open, Used
  <1>3. OwnsWhatItTouches
    BY <1>2 DEF Init, OwnsWhatItTouches
  <1>4. CountExact
    BY <1>2, FS_EmptySet DEF Init, CountExact
  <1>5. Pending
    BY DEF Init, Pending
  <1>6. Stamped /\ ReapsInTime
    BY <1>2 DEF Stamped, ReapsInTime
  <1> QED
    BY <1>1, <1>3, <1>4, <1>5, <1>6 DEF Inv

(* Steps that leave descriptors, slots and time stamps alone keep all but  *)
(* the type and the pending events.                                        *)
LEMMA Untouched ==
  ASSUME Inv, UNCHANGED <<owner, watched, slotFd, slotMs, nconns, seen>>,
         \A w \in Workers : events'[w] \ {Listener} \subseteq Open(w),
         \A w \in Workers : serving'[w] \in Open(w) \cup {NoFd},
         \A w \in Workers : pc'[w] = "wait" => pc[w] = "wait" /\ now'[w] = now[w]
  PROVE  OwnsWhatItTouches' /\ CountExact' /\ Stamped' /\ ReapsInTime'
  <1>1. \A w \in Workers : Open(w)' = Open(w) /\ Used(w)' = Used(w)
    BY DEF Open, Used
  <1>2. OwnsWhatItTouches'
    BY <1>1 DEF Inv, OwnsWhatItTouches
  <1>3. CountExact'
    BY <1>1 DEF Inv, CountExact
  <1>4. Stamped'
    BY <1>1 DEF Inv, Stamped
  <1>5. ReapsInTime'
    BY <1>1 DEF Inv, ReapsInTime
  <1> QED
    BY <1>2, <1>3, <1>4, <1>5

(* Time passes. *)
LEMMA TickStep == ASSUME Inv, Tick PROVE Inv'
  <1>1. TypeOK' /\ Pending'
    BY EpollAssumption DEF Inv, TypeOK, Pending, Tick, process, slots
  <1>2. OwnsWhatItTouches' /\ CountExact' /\ Stamped' /\ ReapsInTime'
    <2>1. \A w \in Workers : /\ events'[w] \ {Listener} \subseteq Open(w)
                            /\ serving'[w] \in Open(w) \cup {NoFd}
      BY DEF Inv, OwnsWhatItTouches, Tick
    <2> QED
      BY <2>1, Untouched DEF Tick, process, slots
  <1> QED
    BY <1>1, <1>2 DEF Inv

(* A client connects to a listening socket. *)
LEMMA ConnectStep == ASSUME Inv, NEW w \in Workers, Connect(w) PROVE Inv'
  <1>1. TypeOK' /\ Pending'
    BY EpollAssumption DEF Inv, TypeOK, Pending, Connect, process, slots
  <1>2. OwnsWhatItTouches' /\ CountExact' /\ Stamped' /\ ReapsInTime'
    <2>1. \A v \in Workers : /\ events'[v] \ {Listener} \subseteq Open(v)
                            /\ serving'[v] \in Open(v) \cup {NoFd}
      BY DEF Inv, OwnsWhatItTouches, Connect
    <2> QED
      BY <2>1, Untouched DEF Connect, process, slots
  <1> QED
    BY <1>1, <1>2 DEF Inv

(* A client sends on an open connection. *)
LEMMA SendStep == ASSUME Inv, NEW f \in Fds, Send(f) PROVE Inv'
  <1>1. TypeOK' /\ Pending'
    BY EpollAssumption DEF Inv, TypeOK, Pending, Send, slots
  <1>2. OwnsWhatItTouches' /\ CountExact' /\ Stamped' /\ ReapsInTime'
    <2>1. \A v \in Workers : /\ events'[v] \ {Listener} \subseteq Open(v)
                            /\ serving'[v] \in Open(v) \cup {NoFd}
      BY DEF Inv, OwnsWhatItTouches, Send
    <2> QED
      BY <2>1, Untouched DEF Send, slots
  <1> QED
    BY <1>1, <1>2 DEF Inv

(* epoll_wait returns some of the ready descriptors. *)
LEMMA WakeStep == ASSUME Inv, NEW w \in Workers, Wake(w) PROVE Inv'
  <1>1. PICK e \in SUBSET Ready(w) : events' = [events EXCEPT ![w] = e]
    BY DEF Wake
  <1>2. Ready(w) \subseteq watched[w] \cup {Listener}
    BY DEF Ready
  <1>3. Listener \in Ready(w) => backlog[w] > 0
    BY EpollAssumption DEF Ready, Inv, TypeOK
  <1>4. TypeOK'
    BY <1>1, <1>2 DEF Inv, TypeOK, Wake, process, slots
  <1>5. Pending'
    BY <1>1, <1>3 DEF Inv, TypeOK, Pending, Wake
  <1>6. \A v \in Workers : /\ events'[v] \ {Listener} \subseteq Open(v)
                          /\ serving'[v] \in Open(v) \cup {NoFd}
    BY <1>1, <1>2 DEF Inv, TypeOK, OwnsWhatItTouches, Wake
  <1>7. OwnsWhatItTouches' /\ CountExact' /\ Stamped' /\ ReapsInTime'
    <2>1. \A v \in Workers : pc'[v] = "wait" => pc[v] = "wait" /\ now'[v] = now[v]
      BY DEF Wake, Inv, TypeOK
    <2> QED
      BY <1>6, <2>1, Untouched DEF Wake, process, slots
  <1> QED
    BY <1>4, <1>5, <1>7 DEF Inv

(* accept: the descriptor was free, so no worker watched it or had it in a *)
(* slot; a slot taken over from a connection with the same index is not    *)
(* counted twice.                                                          *)
LEMMA AcceptStep == ASSUME Inv, NEW w \in Workers, Accept(w) PROVE Inv'
  <1> USE EpollAssumption
  <1>e. /\ events' = [events EXCEPT ![w] = @ \ {Listener}]
        /\ Listener \in events[w] /\ pc[w] = "events"
        /\ clock' = clock /\ pc' = pc /\ now' = now /\ serving' = serving
    BY DEF Accept
  <1>ev. \A v \in Workers : /\ events'[v] \ {Listener} \subseteq Open(v)
                           /\ serving'[v] \in Open(v) \cup {NoFd}
    BY <1>e DEF Inv, TypeOK, OwnsWhatItTouches
  <1>1. CASE UNCHANGED <<process, backlog, watched, slots>>
    <2>1. TypeOK' /\ Pending'
      BY <1>e, <1>1 DEF Inv, TypeOK, Pending, process, slots
    <2>2. OwnsWhatItTouches' /\ CountExact' /\ Stamped' /\ ReapsInTime'
      BY <1>e, <1>ev, <1>1, Untouched DEF process, slots
    <2> QED
      BY <2>1, <2>2 DEF Inv
  <1>2. ASSUME NEW f \in Fds, owner[f] = NoWorker,
               owner' = [owner EXCEPT ![f] = w],
               seen' = [seen EXCEPT ![f] = clock],
               backlog' = [backlog EXCEPT ![w] = @ - 1],
               watched' = [watched EXCEPT ![w] = @ \cup {f}],
               SlotAdd(w, f), UNCHANGED input
        PROVE  Inv'
    <2>i. Idx(f) \in Slots
      BY IdxInSlots
    <2>s. /\ slotFd' = [slotFd EXCEPT ![w][Idx(f)] = f]
          /\ slotMs' = [slotMs EXCEPT ![w][Idx(f)] = clock]
          /\ nconns' = [nconns EXCEPT ![w] = IF slotFd[w][Idx(f)] = NoFd THEN @ + 1 ELSE @]
      BY <1>2 DEF SlotAdd
    <2>1. TypeOK'
      BY <1>e, <1>2, <2>i, <2>s DEF Inv, TypeOK, Pending
    <2>2. Pending'
      BY <1>e, <1>2 DEF Inv, TypeOK, Pending
    <2>o. \A v \in Workers : Open(v)' = IF v = w THEN Open(v) \cup {f} ELSE Open(v)
      BY <1>2 DEF Inv, TypeOK, Open
    <2>u. \A v \in Workers : Used(v)' = IF v = w THEN Used(v) \cup {Idx(f)} ELSE Used(v)
      BY <2>i, <2>s, NoFdNotFd DEF Inv, TypeOK, Used
    <2>3. OwnsWhatItTouches'
      <3> SUFFICES ASSUME NEW v \in Workers
                   PROVE  /\ watched'[v] = Open(v)'
                          /\ events'[v] \ {Listener} \subseteq Open(v)'
                          /\ serving'[v] \in Open(v)' \cup {NoFd}
                          /\ \A i \in Used(v)' : slotFd'[v][i] \in Open(v)' /\ Idx(slotFd'[v][i]) = i
        BY DEF OwnsWhatItTouches
      <3>1. watched'[v] = Open(v)'
        BY <1>2, <2>o DEF Inv, TypeOK, OwnsWhatItTouches
      <3>2. events'[v] \ {Listener} \subseteq Open(v)' /\ serving'[v] \in Open(v)' \cup {NoFd}
        BY <1>ev, <2>o
      <3>3. ASSUME NEW i \in Used(v)'
            PROVE  slotFd'[v][i] \in Open(v)' /\ Idx(slotFd'[v][i]) = i
        <4>1. CASE v = w /\ i = Idx(f)
          BY <4>1, <2>i, <2>s, <2>o DEF Inv, TypeOK
        <4>2. CASE ~(v = w /\ i = Idx(f))
          <5>1. i \in Used(v) /\ i \in Slots
            BY <4>2, <3>3, <2>u DEF Used
          <5>2. slotFd'[v][i] = slotFd[v][i]
            BY <4>2, <5>1, <2>s DEF Inv, TypeOK
          <5> QED
            BY <5>1, <5>2, <2>o DEF Inv, OwnsWhatItTouches
        <4> QED
          BY <4>1, <4>2
      <3> QED
        BY <3>1, <3>2, <3>3
    <2>4. CountExact'
      <3>1. Cardinality(Used(w) \cup {Idx(f)}) =
               IF Idx(f) \in Used(w) THEN Cardinality(Used(w)) ELSE Cardinality(Used(w)) + 1
        BY UsedFinite, FS_AddElement
      <3>2. Idx(f) \in Used(w) <=> slotFd[w][Idx(f)] # NoFd
        BY <2>i DEF Used
      <3> QED
        BY <3>1, <3>2, <2>s, <2>u DEF Inv, TypeOK, CountExact
    <2>5. Stamped'
      <3> SUFFICES ASSUME NoCollision, NEW v \in Workers, NEW g \in Open(v)'
                   PROVE  slotFd'[v][Idx(g)] = g /\ slotMs'[v][Idx(g)] <= seen'[g]
        BY DEF Stamped
      <3>g. g \in Fds /\ Idx(g) \in Slots
        BY IdxInSlots DEF Open
      <3>1. CASE g = f
        BY <3>1, <3>g, <1>2, <2>i, <2>s, <2>o DEF Inv, TypeOK, Open
      <3>2. CASE g # f
        <4>1. g \in Open(v) /\ Idx(g) # Idx(f)
          BY <3>2, <3>g, <2>o DEF NoCollision
        <4>2. slotFd[v][Idx(g)] = g /\ slotMs[v][Idx(g)] <= seen[g]
          BY <4>1 DEF Inv, Stamped
        <4>3. slotFd'[v][Idx(g)] = slotFd[v][Idx(g)] /\ slotMs'[v][Idx(g)] = slotMs[v][Idx(g)]
          BY <4>1, <3>g, <2>s DEF Inv, TypeOK
        <4>4. seen'[g] = seen[g]
          BY <3>2, <3>g, <1>2 DEF Inv, TypeOK
        <4> QED
          BY <4>2, <4>3, <4>4
      <3> QED
        BY <3>1, <3>2
    <2>6. ReapsInTime'
      <3> SUFFICES ASSUME NoCollision, NEW v \in Workers, NEW g \in Open(v)', pc'[v] = "wait"
                   PROVE  now'[v] < seen'[g] + KeepAlive
        BY <2>5 DEF ReapsInTime, Stamped
      <3>1. v # w
        BY <1>e
      <3>2. g \in Open(v) /\ g # f
        BY <3>1, <2>o, <1>2 DEF Open
      <3> QED
        BY <3>2, <1>2, <1>e DEF Inv, TypeOK, ReapsInTime, Open
    <2> QED
      BY <2>1, <2>2, <2>3, <2>4, <2>5, <2>6 DEF Inv
  <1> QED
    BY <1>1, <1>2 DEF Accept

(* The worker calls tinox_handle_one for one of its events. *)
LEMMA HandleStep == ASSUME Inv, NEW w \in Workers, NEW f \in Fds, Handle(w, f) PROVE Inv'
  <1>e. /\ pc[w] = "events" /\ f \in events[w]
        /\ events' = [events EXCEPT ![w] = @ \ {f}]
        /\ serving' = [serving EXCEPT ![w] = f]
    BY DEF Handle
  <1>1. TypeOK' /\ Pending'
    BY <1>e, EpollAssumption DEF Inv, TypeOK, Pending, Handle, process, slots
  <1>2. f \in Open(w)
    BY <1>e, EpollAssumption DEF Inv, OwnsWhatItTouches
  <1>3. \A v \in Workers : /\ events'[v] \ {Listener} \subseteq Open(v)
                          /\ serving'[v] \in Open(v) \cup {NoFd}
    BY <1>e, <1>2 DEF Inv, TypeOK, OwnsWhatItTouches
  <1>4. OwnsWhatItTouches' /\ CountExact' /\ Stamped' /\ ReapsInTime'
    BY <1>3, Untouched DEF Handle, process, slots
  <1> QED
    BY <1>1, <1>4 DEF Inv

(* A request that keeps its connection stamps the slot with now_ms, which  *)
(* is not later than the clock; with a collision it stamps another         *)
(* connection's slot.                                                      *)
LEMMA ServeKeepStep ==
  ASSUME Inv, NEW w \in Workers, NEW f \in Fds, Serve(w, f, TRUE)
  PROVE  Inv'
  <1> USE EpollAssumption
  <1>i. Idx(f) \in Slots
    BY IdxInSlots
  <1>e. /\ pc[w] = "events" /\ f \notin events[w]
        /\ serving[w] = f
        /\ serving' = [serving EXCEPT ![w] = NoFd]
        /\ events' = events
        /\ input' = input \ {f}
        /\ slotMs' = [slotMs EXCEPT ![w][Idx(f)] = now[w]]
        /\ seen' = [seen EXCEPT ![f] = clock]
        /\ UNCHANGED <<owner, watched, slotFd, nconns, clock, backlog, pc, now>>
    BY DEF Serve, Inv, Pending
  <1>1. TypeOK'
    BY <1>e, <1>i DEF Inv, TypeOK
  <1>2. Pending'
    BY <1>e DEF Inv, TypeOK, Pending
  <1>3. \A v \in Workers : Open(v)' = Open(v) /\ Used(v)' = Used(v)
    BY <1>e DEF Open, Used
  <1>4. OwnsWhatItTouches'
    BY <1>e, <1>3 DEF Inv, TypeOK, OwnsWhatItTouches
  <1>5. CountExact'
    BY <1>e, <1>3 DEF Inv, CountExact
  <1>6. f \in Open(w)
    BY <1>e, NoFdNotFd DEF Inv, OwnsWhatItTouches
  <1>7. Stamped'
    <2> SUFFICES ASSUME NoCollision, NEW v \in Workers, NEW g \in Open(v)
                 PROVE  slotFd'[v][Idx(g)] = g /\ slotMs'[v][Idx(g)] <= seen'[g]
      BY <1>3 DEF Stamped
    <2>g. g \in Fds /\ Idx(g) \in Slots
      BY IdxInSlots DEF Open
    <2>1. slotFd'[v][Idx(g)] = g
      BY <1>e DEF Inv, Stamped
    <2>2. CASE g = f
      <3>1. v = w
        BY <2>2, <1>6 DEF Open
      <3>2. slotMs'[v][Idx(g)] = now[w] /\ seen'[g] = clock
        BY <2>2, <3>1, <1>e, <1>i DEF Inv, TypeOK
      <3> QED
        BY <2>1, <3>2 DEF Inv, Pending
    <2>3. CASE g # f
      <3>1. Idx(g) # Idx(f)
        BY <2>3, <2>g DEF NoCollision
      <3>2. slotMs'[v][Idx(g)] = slotMs[v][Idx(g)] /\ seen'[g] = seen[g]
        BY <2>3, <2>g, <3>1, <1>e DEF Inv, TypeOK
      <3> QED
        BY <2>1, <3>2 DEF Inv, Stamped
    <2> QED
      BY <2>2, <2>3
  <1>8. ReapsInTime'
    <2> SUFFICES ASSUME NoCollision, NEW v \in Workers, NEW g \in Open(v), pc[v] = "wait"
                 PROVE  now[v] < seen'[g] + KeepAlive
      BY <1>3, <1>7, <1>e DEF ReapsInTime, Stamped
    <2>1. g # f /\ g \in Fds
      BY <1>e, <1>6 DEF Open
    <2> QED
      BY <2>1, <1>e DEF Inv, TypeOK, ReapsInTime
  <1> QED
    BY <1>1, <1>2, <1>4, <1>5, <1>7, <1>8 DEF Inv

(* A request that ends its connection gives up the slot of its index.      *)
LEMMA ServeDropStep ==
  ASSUME Inv, NEW w \in Workers, NEW f \in Fds, Serve(w, f, FALSE)
  PROVE  Inv'
  <1> USE EpollAssumption
  <1>i. Idx(f) \in Slots
    BY IdxInSlots
  <1>e. /\ pc[w] = "events" /\ f \notin events[w]
        /\ serving[w] = f
        /\ serving' = [serving EXCEPT ![w] = NoFd]
        /\ events' = events
        /\ input' = input \ {f}
        /\ watched' = [watched EXCEPT ![w] = @ \ {f}]
        /\ owner' = [g \in Fds |-> IF g \in {f} THEN NoWorker ELSE owner[g]]
        /\ seen' = [g \in Fds |-> IF g \in {f} THEN 0 ELSE seen[g]]
        /\ slotFd' = [slotFd EXCEPT ![w][Idx(f)] = NoFd]
        /\ nconns' = [nconns EXCEPT ![w] = IF slotFd[w][Idx(f)] # NoFd THEN @ - 1 ELSE @]
        /\ UNCHANGED <<slotMs, clock, backlog, pc, now>>
    BY DEF Serve, Drop, SlotRemove, Inv, Pending
  <1>c. slotFd[w][Idx(f)] # NoFd => nconns[w] > 0
    BY <1>i, CountsUsed DEF Inv, Used
  <1>1. TypeOK'
    BY <1>e, <1>i, <1>c DEF Inv, TypeOK
  <1>2. Pending'
    BY <1>e DEF Inv, TypeOK, Pending
  <1>3. f \in Open(w)
    BY <1>e, NoFdNotFd DEF Inv, OwnsWhatItTouches
  <1>o. \A v \in Workers : Open(v)' = Open(v) \ {f}
    BY <1>e DEF Inv, TypeOK, Open
  <1>n. \A v \in Workers : v # w => f \notin Open(v)
    BY <1>3 DEF Open
  <1>u. \A v \in Workers : Used(v)' = IF v = w THEN Used(v) \ {Idx(f)} ELSE Used(v)
    BY <1>i, <1>e DEF Inv, TypeOK, Used
  <1>4. OwnsWhatItTouches'
    <2> SUFFICES ASSUME NEW v \in Workers
                 PROVE  /\ watched'[v] = Open(v)'
                        /\ events'[v] \ {Listener} \subseteq Open(v)'
                        /\ serving'[v] \in Open(v)' \cup {NoFd}
                        /\ \A i \in Used(v)' : slotFd'[v][i] \in Open(v)' /\ Idx(slotFd'[v][i]) = i
      BY DEF OwnsWhatItTouches
    <2>1. watched'[v] = Open(v)'
      <3>1. watched[v] = Open(v)
        BY DEF Inv, OwnsWhatItTouches
      <3>2. watched'[v] = IF v = w THEN watched[v] \ {f} ELSE watched[v]
        BY <1>e DEF Inv, TypeOK
      <3>3. watched[v] \ {f} = Open(v)' /\ (v # w => Open(v)' = watched[v])
        BY <3>1, <1>o, <1>n
      <3> QED
        BY <3>2, <3>3
    <2>2. events'[v] \ {Listener} \subseteq Open(v)' /\ serving'[v] \in Open(v)' \cup {NoFd}
      <3>1. events[v] \ {Listener} \subseteq Open(v) /\ serving[v] \in Open(v) \cup {NoFd}
        BY DEF Inv, OwnsWhatItTouches
      <3>2. CASE v = w
        BY <3>1, <3>2, <1>e, <1>o DEF Inv, TypeOK
      <3>3. CASE v # w
        BY <3>1, <3>3, <1>e, <1>o, <1>n DEF Inv, TypeOK
      <3> QED
        BY <3>2, <3>3
    <2>3. ASSUME NEW i \in Used(v)'
          PROVE  slotFd'[v][i] \in Open(v)' /\ Idx(slotFd'[v][i]) = i
      <3>1. i \in Used(v) /\ i \in Slots /\ ~(v = w /\ i = Idx(f))
        BY <2>3, <1>u DEF Used
      <3>2. slotFd'[v][i] = slotFd[v][i]
        BY <3>1, <1>e DEF Inv, TypeOK
      <3>3. slotFd[v][i] \in Open(v) /\ Idx(slotFd[v][i]) = i
        BY <3>1 DEF Inv, OwnsWhatItTouches
      <3>4. slotFd[v][i] # f
        BY <3>1, <3>3, <1>n
      <3> QED
        BY <3>2, <3>3, <3>4, <1>o
    <2> QED
      BY <2>1, <2>2, <2>3
  <1>5. CountExact'
    <2>1. Cardinality(Used(w) \ {Idx(f)}) =
             IF Idx(f) \in Used(w) THEN Cardinality(Used(w)) - 1 ELSE Cardinality(Used(w))
      BY UsedFinite, FS_RemoveElement
    <2>2. Idx(f) \in Used(w) <=> slotFd[w][Idx(f)] # NoFd
      BY <1>i DEF Used
    <2> QED
      BY <2>1, <2>2, <1>e, <1>u DEF Inv, TypeOK, CountExact
  <1>6. ASSUME NEW v \in Workers, NEW g \in Open(v)'
        PROVE  g \in Open(v) /\ g \in Fds /\ g # f /\ seen'[g] = seen[g]
    BY <1>6, <1>o, <1>e DEF Open
  <1>7. Stamped'
    <2> SUFFICES ASSUME NoCollision, NEW v \in Workers, NEW g \in Open(v)'
                 PROVE  slotFd'[v][Idx(g)] = g /\ slotMs'[v][Idx(g)] <= seen'[g]
      BY DEF Stamped
    <2>1. Idx(g) # Idx(f) /\ Idx(g) \in Slots
      BY <1>6, IdxInSlots DEF NoCollision
    <2>2. slotFd'[v][Idx(g)] = slotFd[v][Idx(g)]
      BY <2>1, <1>e DEF Inv, TypeOK
    <2> QED
      BY <2>2, <1>6, <1>e DEF Inv, Stamped
  <1>8. ReapsInTime'
    <2> SUFFICES ASSUME NoCollision, NEW v \in Workers, NEW g \in Open(v)', pc[v] = "wait"
                 PROVE  now[v] < seen'[g] + KeepAlive
      BY <1>7, <1>e DEF ReapsInTime, Stamped
    <2> QED
      BY <1>6 DEF Inv, ReapsInTime
  <1> QED
    BY <1>1, <1>2, <1>4, <1>5, <1>7, <1>8 DEF Inv

(* The unsigned difference: a slot that is not stale was stamped at or     *)
(* before the wake-up, less than the keep-alive time before it.            *)
LEMMA NotStale ==
  ASSUME NEW a \in 0 .. MaxTime, NEW b \in 0 .. MaxTime, ~(Minus(a, b) >= KeepAlive)
  PROVE  a < b + KeepAlive
  BY EpollAssumption DEF Minus

(* The scan closes connections of its own worker only, and every slot it   *)
(* passes over has been active in time.                                    *)
LEMMA ScanStep == ASSUME Inv, NEW w \in Workers, Scan(w) PROVE Inv'
  <1> USE EpollAssumption
  <1>e. /\ pc[w] = "events" /\ events[w] = {} /\ serving[w] = NoFd
        /\ pc' = [pc EXCEPT ![w] = "wait"]
        /\ UNCHANGED <<clock, backlog, slotMs, now, events, serving>>
    BY DEF Scan
  <1>1. Pending'
    BY <1>e DEF Inv, TypeOK, Pending
  <1>2. CASE nconns[w] > 0
    <2> DEFINE gone == {slotFd[w][i] : i \in Stale(w)}
    <2>e. /\ watched' = [watched EXCEPT ![w] = @ \ gone]
          /\ owner' = [g \in Fds |-> IF g \in gone THEN NoWorker ELSE owner[g]]
          /\ seen' = [g \in Fds |-> IF g \in gone THEN 0 ELSE seen[g]]
          /\ input' = input \ gone
          /\ slotFd' = [slotFd EXCEPT ![w] =
                           [i \in Slots |-> IF i \in Stale(w) THEN NoFd ELSE @[i]]]
          /\ nconns' = [nconns EXCEPT ![w] = @ - Cardinality(Stale(w))]
      BY <1>2 DEF Scan, Drop
    <2>s. Stale(w) \subseteq Used(w)
      BY DEF Stale
    <2>g. gone \subseteq Open(w)
      BY <2>s DEF Inv, OwnsWhatItTouches
    <2>f. \A v \in Workers, i \in Slots :
             slotFd'[v][i] = IF v = w /\ i \in Stale(w) THEN NoFd ELSE slotFd[v][i]
      BY <2>e DEF Inv, TypeOK
    <2> HIDE DEF gone
    <2>o. \A v \in Workers : Open(v)' = Open(v) \ gone
      BY <2>e DEF Inv, TypeOK, Open
    <2>n. \A v \in Workers : v # w => Open(v)' = Open(v)
      BY <2>o, <2>g DEF Open
    <2>u. \A v \in Workers : Used(v)' = IF v = w THEN Used(v) \ Stale(w) ELSE Used(v)
      BY <2>f DEF Used
    <2>c. /\ Cardinality(Stale(w)) \in Nat
          /\ Cardinality(Used(w) \ Stale(w)) = nconns[w] - Cardinality(Stale(w))
          /\ Cardinality(Used(w) \ Stale(w)) \in Nat
      <3>1. IsFiniteSet(Used(w)) /\ Cardinality(Used(w)) = nconns[w]
        BY UsedFinite DEF Inv, CountExact
      <3>2. IsFiniteSet(Stale(w)) /\ Used(w) \cap Stale(w) = Stale(w)
        BY <2>s, <3>1, FS_Subset
      <3>3. /\ IsFiniteSet(Used(w) \ Stale(w))
            /\ Cardinality(Used(w) \ Stale(w)) = Cardinality(Used(w)) - Cardinality(Stale(w))
        BY <3>1, <3>2, FS_Difference
      <3> QED
        BY <3>1, <3>2, <3>3, FS_CardinalityType
    <2>1. TypeOK'
      <3>1. slotFd' \in [Workers -> [Slots -> Fds \cup {NoFd}]]
        BY <2>e DEF Inv, TypeOK
      <3>2. nconns' \in [Workers -> Nat]
        BY <2>e, <2>c DEF Inv, TypeOK
      <3>3. /\ owner' \in [Fds -> Workers \cup {NoWorker}]
            /\ seen' \in [Fds -> 0 .. MaxTime]
        BY <2>e DEF Inv, TypeOK
      <3>4. input' \subseteq Fds
        BY <2>e DEF Inv, TypeOK
      <3>5. watched' \in [Workers -> SUBSET Fds]
        <4>1. \A v \in Workers : watched[v] \ gone \in SUBSET Fds
          BY DEF Inv, TypeOK
        <4> QED
          BY <4>1, <2>e DEF Inv, TypeOK
      <3> QED
        BY <3>1, <3>2, <3>3, <3>4, <3>5, <1>e DEF Inv, TypeOK
    <2>2. OwnsWhatItTouches'
      <3> SUFFICES ASSUME NEW v \in Workers
                   PROVE  /\ watched'[v] = Open(v)'
                          /\ events'[v] \ {Listener} \subseteq Open(v)'
                          /\ serving'[v] \in Open(v)' \cup {NoFd}
                          /\ \A i \in Used(v)' : slotFd'[v][i] \in Open(v)' /\ Idx(slotFd'[v][i]) = i
        BY DEF OwnsWhatItTouches
      <3>1. watched'[v] = Open(v)'
        <4>1. watched[v] = Open(v)
          BY DEF Inv, OwnsWhatItTouches
        <4>2. watched'[v] = IF v = w THEN watched[v] \ gone ELSE watched[v]
          BY <2>e DEF Inv, TypeOK
        <4> QED
          BY <4>1, <4>2, <2>o, <2>n
      <3>2. events'[v] \ {Listener} \subseteq Open(v)' /\ serving'[v] \in Open(v)' \cup {NoFd}
        BY <1>e, <2>n DEF Inv, OwnsWhatItTouches
      <3>3. ASSUME NEW i \in Used(v)'
            PROVE  slotFd'[v][i] \in Open(v)' /\ Idx(slotFd'[v][i]) = i
        <4>1. i \in Used(v) /\ i \in Slots /\ ~(v = w /\ i \in Stale(w))
          BY <3>3, <2>u DEF Used
        <4>2. slotFd'[v][i] = slotFd[v][i]
          BY <4>1, <2>f
        <4>3. slotFd[v][i] \in Open(v) /\ Idx(slotFd[v][i]) = i
          BY <4>1 DEF Inv, OwnsWhatItTouches
        <4>4. slotFd[v][i] \notin gone \/ v # w
          <5> SUFFICES ASSUME v = w, NEW j \in Stale(w), slotFd[w][j] = slotFd[v][i]
                       PROVE  FALSE
            BY DEF gone
          <5>1. Idx(slotFd[w][j]) = j
            BY <2>s DEF Inv, OwnsWhatItTouches
          <5> QED
            BY <5>1, <4>1, <4>3
        <4> QED
          BY <4>2, <4>3, <4>4, <2>o, <2>n
      <3> QED
        BY <3>1, <3>2, <3>3
    <2>3. CountExact'
      BY <2>e, <2>u, <2>c DEF Inv, TypeOK, CountExact
    <2>4. ASSUME NEW v \in Workers, NEW g \in Open(v)'
          PROVE  g \in Open(v) /\ g \in Fds /\ seen'[g] = seen[g] /\ g \notin gone
      BY <2>4, <2>o, <2>e DEF Open
    <2>5. ASSUME NoCollision, NEW v \in Workers, NEW g \in Open(v)'
          PROVE  /\ slotFd'[v][Idx(g)] = g /\ slotMs'[v][Idx(g)] <= seen'[g]
                 /\ v = w => Idx(g) \in Used(w) \ Stale(w)
      <3>1. slotFd[v][Idx(g)] = g /\ slotMs[v][Idx(g)] <= seen[g]
        BY <2>5, <2>4 DEF Inv, Stamped
      <3>2. Idx(g) \in Slots /\ ~(v = w /\ Idx(g) \in Stale(w))
        BY <2>4, <2>5, <3>1, IdxInSlots DEF gone
      <3>3. g # NoFd
        BY <2>4, <2>5, NoFdNotFd
      <3> QED
        BY <3>1, <3>2, <3>3, <2>f, <2>4, <2>5, <1>e DEF Used
    <2>6. Stamped'
      BY <2>5 DEF Stamped
    <2>7. ReapsInTime'
      <3> SUFFICES ASSUME NoCollision, NEW v \in Workers, NEW g \in Open(v)', pc'[v] = "wait"
                   PROVE  now'[v] < seen'[g] + KeepAlive
        BY <2>5 DEF ReapsInTime
      <3>1. CASE v = w
        <4>1. Idx(g) \in Used(w) \ Stale(w) /\ Idx(g) \in Slots
          BY <3>1, <2>5 DEF Used
        <4>2. ~(Minus(now[w], slotMs[w][Idx(g)]) >= KeepAlive)
          BY <4>1 DEF Stale
        <4>3. now[w] \in 0 .. MaxTime /\ slotMs[w][Idx(g)] \in 0 .. MaxTime
          BY <4>1 DEF Inv, TypeOK
        <4>4. now[w] < slotMs[w][Idx(g)] + KeepAlive
          BY <4>2, <4>3, NotStale
        <4>5. slotMs[w][Idx(g)] <= seen'[g] /\ seen'[g] \in Int
          <5>1. g \in Fds /\ seen'[g] = seen[g]
            BY <2>4
          <5>2. seen'[g] \in Int
            BY <5>1 DEF Inv, TypeOK
          <5>3. slotMs'[v][Idx(g)] <= seen'[g]
            BY <2>5
          <5> QED
            BY <5>2, <5>3, <3>1, <1>e
        <4> QED
          BY <4>3, <4>4, <4>5, <3>1, <1>e
      <3>2. CASE v # w
        BY <3>2, <2>4, <1>e DEF Inv, TypeOK, ReapsInTime
      <3> QED
        BY <3>1, <3>2
    <2> QED
      BY <1>1, <2>1, <2>2, <2>3, <2>6, <2>7 DEF Inv
  <1>3. CASE ~(nconns[w] > 0)
    <2>e. UNCHANGED <<owner, input, seen, watched, slotFd, nconns>>
      BY <1>3 DEF Scan, process
    <2>1. TypeOK'
      BY <1>e, <2>e DEF Inv, TypeOK
    <2>2. \A v \in Workers : Open(v)' = Open(v) /\ Used(v)' = Used(v)
      BY <2>e DEF Open, Used
    <2>3. OwnsWhatItTouches' /\ CountExact' /\ Stamped'
      BY <1>e, <2>e, <2>2 DEF Inv, OwnsWhatItTouches, CountExact, Stamped
    <2>4. NoCollision => Open(w) = {}
      <3> SUFFICES ASSUME NoCollision, NEW g \in Open(w) PROVE FALSE
        OBVIOUS
      <3>1. slotFd[w][Idx(g)] = g /\ g \in Fds
        BY DEF Inv, Stamped, Open
      <3>2. Idx(g) \in Used(w)
        BY <3>1, IdxInSlots, NoFdNotFd DEF Used
      <3> QED
        BY <3>2, <1>3, CountsUsed DEF Inv
    <2>5. ReapsInTime'
      BY <1>e, <2>e, <2>2, <2>4 DEF Inv, TypeOK, ReapsInTime
    <2> QED
      BY <1>1, <2>1, <2>3, <2>5 DEF Inv
  <1> QED
    BY <1>2, <1>3

(* Every step of the server and of its surroundings preserves Inv.         *)
LEMMA StepInv == Inv /\ [Next]_vars => Inv'
  <1> SUFFICES ASSUME Inv, [Next]_vars PROVE Inv'
    OBVIOUS
  <1>1. CASE UNCHANGED vars
    BY <1>1 DEF vars, Inv, TypeOK, OwnsWhatItTouches, CountExact, Pending, Stamped,
               ReapsInTime, Open, Used
  <1>2. CASE Tick
    BY <1>2, TickStep
  <1>3. ASSUME NEW f \in Fds, Send(f) PROVE Inv'
    BY <1>3, SendStep
  <1>4. ASSUME NEW w \in Workers, Connect(w) PROVE Inv'
    BY <1>4, ConnectStep
  <1>5. ASSUME NEW w \in Workers, Loop(w) PROVE Inv'
    <2>1. CASE Wake(w)
      BY <2>1, WakeStep
    <2>2. CASE Accept(w)
      BY <2>2, AcceptStep
    <2>3. CASE Scan(w)
      BY <2>3, ScanStep
    <2>4. ASSUME NEW f \in Fds, Handle(w, f) PROVE Inv'
      BY <2>4, HandleStep
    <2> QED
      BY <1>5, <2>1, <2>2, <2>3, <2>4 DEF Loop
  <1>6. ASSUME NEW w \in Workers, NEW f \in Fds, NEW keep \in BOOLEAN, Serve(w, f, keep)
        PROVE  Inv'
    BY <1>6, ServeKeepStep, ServeDropStep
  <1> QED
    BY <1>1, <1>2, <1>3, <1>4, <1>5, <1>6 DEF Next

(* Inv holds in every reachable state. *)
LEMMA Invariance == Spec => []Inv
  BY InitInv, StepInv, PTL DEF Spec

-----------------------------------------------------------------------------
(* The server's state is well formed for every number of workers, slots,   *)
(* events and descriptors: in particular g_epoll_nconns never drops below  *)
(* zero and accept is only called with a connection waiting.               *)
THEOREM TypeCorrect == Spec => []TypeOK
  <1>1. Inv => TypeOK
    BY DEF Inv
  <1> QED
    BY <1>1, Invariance, PTL

(* A worker of tinox_handle_connections only watches, handles and closes   *)
(* connections it accepted itself, although descriptors are reused across  *)
(* threads and several may share a slot.                                   *)
THEOREM WorkersOwnTheirConnections == Spec => []OwnsWhatItTouches
  <1>1. Inv => OwnsWhatItTouches
    BY DEF Inv
  <1> QED
    BY <1>1, Invariance, PTL

(* g_epoll_nconns is the number of used slots, also when a connection      *)
(* takes over the slot of another one, so the scan is never skipped while  *)
(* there is something to scan.                                             *)
THEOREM CountIsExact == Spec => []CountExact
  <1>1. Inv => CountExact
    BY DEF Inv
  <1> QED
    BY <1>1, Invariance, PTL

(* As long as no two descriptors share a slot, no connection outlives the  *)
(* scan after its keep-alive time, whatever the order of events.           *)
THEOREM IdleAreReaped == Spec => []ReapsInTime
  <1>1. Inv => ReapsInTime
    BY DEF Inv
  <1> QED
    BY <1>1, Invariance, PTL
=============================================================================
