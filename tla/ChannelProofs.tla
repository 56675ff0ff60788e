--------------------------- MODULE ChannelProofs ---------------------------
(***************************************************************************)
(* What Channel guarantees for every program: any number of threads,       *)
(* channels and messages.                                                  *)
(***************************************************************************)
EXTENDS Channel, NatFacts

PCs == {"begin", "lock", "locked", "signal", "waiting", "woken", "missed",
        "unlock", "done"}
Polling == {"try", "select", "select_default"}

(* The thread is between the lock and the unlock of its channel. *)
Holds(t) == pc[t] \in {"locked", "signal", "unlock", "missed"}

(* The thread has a node it has not handed over: tinox_channel_send from   *)
(* the allocation to the signal.                                           *)
HasNode(t) == pc[t] \in {"lock", "locked", "signal"} /\ Op(t) = "send"

(* A thread is inside a call of its script, and where the call's code says. *)
ThreadOK(t) ==
  /\ pc[t] # "done" => /\ at[t] <= Len(script[t])
                       /\ arm[t] <= Len(script[t][at[t]].ch)
  /\ pc[t] \in {"waiting", "woken"} => Op(t) = "recv"
  /\ pc[t] = "signal" => Op(t) = "send"
  /\ pc[t] = "missed" => Op(t) \in Polling
  /\ node[t] # Null <=> HasNode(t)

(* The variables have their types (of the messages only that they are      *)
(* messages or not filled in), every thread is where its script says, who  *)
(* is in the wait set sleeps there, and who is between lock and unlock     *)
(* owns the mutex.                                                         *)
Types ==
  /\ script \in Scripts
  /\ head \in [Chans -> Pointer] /\ tail \in [Chans -> Pointer]
  /\ mutex \in [Chans -> Threads \cup {NoThread}]
  /\ waiting \in [Chans -> SUBSET Threads]
  /\ heap \subseteq Nodes
  /\ value \in [Nodes -> Values \cup {Null}]
  /\ next \in [Nodes -> Pointer]
  /\ pc \in [Threads -> PCs]
  /\ node \in [Threads -> Pointer]
  /\ at \in [Threads -> Nat \ {0}] /\ arm \in [Threads -> Nat \ {0}]
  /\ spurious \in 0 .. MaxSpurious

Sleepers == \A c \in Chans : \A w \in waiting[c] : pc[w] = "waiting" /\ Chan(w) = c
Owners ==
  /\ \A t \in Threads : Holds(t) => mutex[Chan(t)] = t
  /\ \A c \in Chans : mutex[c] # NoThread => Holds(mutex[c]) /\ Chan(mutex[c]) = c

TInv == Types /\ (\A t \in Threads : ThreadOK(t)) /\ Sleepers /\ Owners

(* A thread inside a call: what it calls, and on which channel. *)
LEMMA InCall ==
  ASSUME TInv, NEW t \in Threads, pc[t] # "done"
  PROVE  /\ at[t] \in 1 .. Len(script[t])
         /\ script[t][at[t]] \in Call
         /\ arm[t] \in 1 .. Len(script[t][at[t]].ch)
         /\ Op(t) \in {"send", "recv"} \cup Polling
         /\ Chan(t) \in Chans
<1>1. script[t] \in Seq(Call) /\ at[t] \in Nat \ {0} /\ arm[t] \in Nat \ {0}
  BY ChannelAssumption DEF TInv, Types
<1>2. at[t] <= Len(script[t]) /\ arm[t] <= Len(script[t][at[t]].ch)
  BY DEF TInv, ThreadOK
<1>3. at[t] \in 1 .. Len(script[t])
  BY <1>1, <1>2
<1>4. script[t][at[t]] \in Call
  BY <1>1, <1>3
<1>5. script[t][at[t]].ch \in Seq(Chans)
  BY <1>4 DEF Call
<1>6. arm[t] \in 1 .. Len(script[t][at[t]].ch)
  BY <1>1, <1>2, <1>5
<1>7. Chan(t) \in Chans
  BY <1>5, <1>6 DEF Chan
<1> QED BY <1>3, <1>4, <1>6, <1>7 DEF Op, Call, Polling

(* No call has begun, no mutex is held and no node is allocated. *)
LEMMA InitTInv == Init => TInv
<1> SUFFICES ASSUME Init PROVE TInv
  OBVIOUS
<1>1. Types
  BY ChannelAssumption DEF Init, Types, Pointer, PCs, Start
<1>2. ASSUME NEW t \in Threads PROVE ThreadOK(t)
  <2>1. pc[t] = Start(t, 1) /\ at[t] = 1 /\ arm[t] = 1 /\ node[t] = Null
    BY <1>2 DEF Init
  <2>2. script[t] \in Seq(Call) /\ \A i \in 1 .. Len(script[t]) : script[t][i].ch # << >>
    BY ChannelAssumption DEF Init
  <2>3. ASSUME pc[t] # "done" PROVE at[t] <= Len(script[t]) /\ arm[t] <= Len(script[t][at[t]].ch)
    <3>1. 1 <= Len(script[t])
      BY <2>1, <2>2, <2>3 DEF Start
    <3>2. script[t][1] \in Call /\ script[t][1].ch # << >>
      BY <2>2, <3>1
    <3>3. script[t][1].ch \in Seq(Chans)
      BY <3>2 DEF Call
    <3>4. 1 <= Len(script[t][1].ch)
      BY <3>2, <3>3
    <3> QED BY <2>1, <3>1, <3>4
  <2>4. pc[t] \in {"begin", "done"}
    BY <2>1 DEF Start
  <2> QED BY <2>1, <2>3, <2>4 DEF ThreadOK, HasNode
<1>3. Sleepers
  BY DEF Init, Sleepers
<1>4. Owners
  BY DEF Init, Owners, Holds, Start
<1> QED BY <1>1, <1>2, <1>3, <1>4 DEF TInv

(* Every call that returns leaves its thread at the next one, or done.     *)
LEMMA ReturnOK ==
  ASSUME TInv, NEW t \in Threads, pc[t] # "done", script' = script, Return(t)
  PROVE  /\ at' \in [Threads -> Nat \ {0}] /\ arm' \in [Threads -> Nat \ {0}]
         /\ pc'[t] \in {"begin", "done"}
         /\ pc'[t] # "done" => /\ at'[t] <= Len(script'[t])
                               /\ arm'[t] <= Len(script'[t][at'[t]].ch)
<1>1. /\ at \in [Threads -> Nat \ {0}] /\ arm \in [Threads -> Nat \ {0}]
      /\ pc \in [Threads -> PCs] /\ script[t] \in Seq(Call)
      /\ \A i \in 1 .. Len(script[t]) : script[t][i].ch # << >>
  BY ChannelAssumption DEF TInv, Types
<1>2. at'[t] = at[t] + 1 /\ arm'[t] = 1 /\ pc'[t] = Start(t, at[t] + 1)
  BY <1>1 DEF Return
<1>3. at' \in [Threads -> Nat \ {0}] /\ arm' \in [Threads -> Nat \ {0}]
  BY <1>1 DEF Return
<1>4. ASSUME pc'[t] # "done"
      PROVE  at'[t] <= Len(script[t]) /\ arm'[t] <= Len(script[t][at'[t]].ch)
  <2>1. at[t] + 1 \in 1 .. Len(script[t])
    BY <1>1, <1>2, <1>4 DEF Start
  <2>2. script[t][at[t] + 1] \in Call /\ script[t][at[t] + 1].ch # << >>
    BY <1>1, <2>1
  <2>3. script[t][at[t] + 1].ch \in Seq(Chans)
    BY <2>2 DEF Call
  <2>4. 1 <= Len(script[t][at[t] + 1].ch)
    BY <2>2, <2>3
  <2> QED BY <1>2, <2>1, <2>4
<1> QED BY <1>2, <1>3, <1>4 DEF Start

(* A thread whose own state a step leaves alone stays where it is.         *)
LEMMA OthersOK ==
  ASSUME NEW u \in Threads, script' = script, pc'[u] = pc[u], at'[u] = at[u],
         arm'[u] = arm[u], node'[u] = node[u]
  PROVE  /\ ThreadOK(u)' <=> ThreadOK(u)
         /\ Op(u)' = Op(u) /\ Chan(u)' = Chan(u)
         /\ Holds(u)' <=> Holds(u)
         /\ HasNode(u)' <=> HasNode(u)
BY DEF ThreadOK, HasNode, Holds, Op, Chan

(* A step that takes or releases no mutex. *)
LEMMA OwnersKept ==
  ASSUME TInv, UNCHANGED mutex,
         \A u \in Threads : (Holds(u)' <=> Holds(u)) /\ Chan(u)' = Chan(u)
  PROVE  Owners'
<1>1. Owners /\ mutex \in [Chans -> Threads \cup {NoThread}]
  BY DEF TInv, Types
<1>2. \A c \in Chans : mutex[c] # NoThread => mutex[c] \in Threads
  BY <1>1
<1> QED BY <1>1, <1>2 DEF Owners

(* The release of the mutex a thread owns. *)
LEMMA OwnersRelease ==
  ASSUME TInv, NEW t \in Threads, Release(t), Holds(t), ~Holds(t)',
         \A u \in Threads : u # t => (Holds(u)' <=> Holds(u)) /\ Chan(u)' = Chan(u)
  PROVE  Owners'
<1>1. Owners /\ mutex \in [Chans -> Threads \cup {NoThread}] /\ NoThread \notin Threads
  BY ChannelAssumption DEF TInv, Types
<1>2. Chan(t) \in Chans /\ mutex[Chan(t)] = t
  BY <1>1, InCall DEF Holds, Owners
<1>3. \A c \in Chans : mutex'[c] = IF c = Chan(t) THEN NoThread ELSE mutex[c]
  BY <1>1, <1>2 DEF Release
<1>4. ASSUME NEW u \in Threads, Holds(u)' PROVE mutex'[Chan(u)'] = u
  <2>1. u # t /\ Holds(u) /\ Chan(u)' = Chan(u) /\ mutex[Chan(u)] = u /\ pc[u] # "done"
    BY <1>1, <1>4 DEF Owners, Holds
  <2>2. Chan(u) \in Chans /\ Chan(u) # Chan(t)
    BY <1>2, <2>1, InCall
  <2> QED BY <1>3, <2>1, <2>2
<1>5. ASSUME NEW c \in Chans, mutex'[c] # NoThread
      PROVE  Holds(mutex[c])' /\ Chan(mutex[c])' = c
  <2>1. c # Chan(t) /\ mutex'[c] = mutex[c] /\ mutex[c] \in Threads
    BY <1>1, <1>3, <1>5
  <2>2. Holds(mutex[c]) /\ Chan(mutex[c]) = c /\ mutex[c] # t
    BY <1>1, <2>1 DEF Owners
  <2>3. \A u \in Threads : u # t /\ Holds(u) => Holds(u)' /\ Chan(u)' = Chan(u)
    OBVIOUS
  <2>4. pc'[mutex[c]] \in {"locked", "signal", "unlock", "missed"}
        /\ script'[mutex[c]][at'[mutex[c]]].ch[arm'[mutex[c]]] = c
    BY <2>1, <2>2, <2>3 DEF Holds, Chan
  <2> QED BY <2>1, <2>4 DEF Holds, Chan
<1> QED BY <1>4, <1>5 DEF Owners

(* The step of thread t from one point of its call to another: the other   *)
(* threads, the wait sets and the mutexes as given.                        *)
LEMMA LocalStep ==
  ASSUME TInv, NEW t \in Threads, script' = script, Types', UNCHANGED <<at, arm>>,
         \A u \in Threads : u # t => pc'[u] = pc[u] /\ node'[u] = node[u],
         UNCHANGED waiting, pc[t] # "waiting", pc[t] # "done",
         ThreadOK(t)',
         \/ UNCHANGED mutex /\ (Holds(t)' <=> Holds(t))
         \/ /\ mutex[Chan(t)] = NoThread /\ ~Holds(t) /\ Holds(t)'
            /\ mutex' = [mutex EXCEPT ![Chan(t)] = t]
  PROVE  TInv'
<1>1. \A u \in Threads : u # t => /\ ThreadOK(u)' /\ Op(u)' = Op(u) /\ Chan(u)' = Chan(u)
                                  /\ Holds(u)' <=> Holds(u)
  BY OthersOK DEF TInv
<1>2. Chan(t)' = Chan(t) /\ Chan(t) \in Chans
  BY InCall DEF Chan
<1>3. Sleepers'
  <2> SUFFICES ASSUME NEW c \in Chans, NEW w \in waiting[c]
               PROVE  pc'[w] = "waiting" /\ Chan(w)' = c
    BY DEF Sleepers
  <2>1. w \in Threads /\ pc[w] = "waiting" /\ Chan(w) = c
    BY DEF TInv, Types, Sleepers
  <2> QED BY <1>1, <2>1
<1>4. Owners'
  <2>0. Owners /\ mutex \in [Chans -> Threads \cup {NoThread}] /\ NoThread \notin Threads
    BY ChannelAssumption DEF TInv, Types
  <2>1. CASE UNCHANGED mutex /\ (Holds(t)' <=> Holds(t))
    <3>1. \A u \in Threads : (Holds(u)' <=> Holds(u)) /\ Chan(u)' = Chan(u)
      BY <1>1, <1>2, <2>1
    <3> QED BY <2>1, <3>1, OwnersKept
  <2>2. CASE /\ mutex[Chan(t)] = NoThread /\ ~Holds(t) /\ Holds(t)'
             /\ mutex' = [mutex EXCEPT ![Chan(t)] = t]
    <3>1. \A c \in Chans : mutex'[c] = IF c = Chan(t) THEN t ELSE mutex[c]
      BY <1>2, <2>0, <2>2
    <3>2. ASSUME NEW u \in Threads, Holds(u)' PROVE mutex'[Chan(u)'] = u
      <4>1. CASE u = t
        BY <1>2, <3>1, <4>1
      <4>2. CASE u # t
        <5>1. Holds(u) /\ Chan(u)' = Chan(u) /\ mutex[Chan(u)] = u /\ pc[u] # "done"
          BY <1>1, <2>0, <3>2, <4>2 DEF Owners, Holds
        <5>2. Chan(u) \in Chans /\ Chan(u) # Chan(t)
          BY <2>0, <2>2, <5>1, InCall
        <5> QED BY <3>1, <5>1, <5>2
      <4> QED BY <4>1, <4>2
    <3>3. ASSUME NEW c \in Chans, mutex'[c] # NoThread
          PROVE  Holds(mutex[c])' /\ Chan(mutex[c])' = c
      <4>1. CASE c = Chan(t)
        <5>1. mutex'[c] = t
          BY <3>1, <4>1
        <5>2. Holds(mutex[c])' = Holds(t)' /\ Chan(mutex[c])' = Chan(t)'
          BY <5>1 DEF Holds, Chan
        <5> QED BY <1>2, <2>2, <4>1, <5>2
      <4>2. CASE c # Chan(t)
        <5>1. mutex'[c] = mutex[c] /\ mutex[c] \in Threads
          BY <2>0, <3>1, <3>3, <4>2
        <5>2. Holds(mutex[c]) /\ Chan(mutex[c]) = c /\ mutex[c] # t
          BY <2>0, <2>2, <5>1 DEF Owners
        <5>3. \A u \in Threads : u # t /\ Holds(u) => Holds(u)' /\ Chan(u)' = Chan(u)
          BY <1>1
        <5>4. pc'[mutex[c]] \in {"locked", "signal", "unlock", "missed"}
              /\ script'[mutex[c]][at'[mutex[c]]].ch[arm'[mutex[c]]] = c
          BY <5>1, <5>2, <5>3 DEF Holds, Chan
        <5> QED BY <5>1, <5>4 DEF Holds, Chan
      <4> QED BY <4>1, <4>2
    <3> QED BY <3>2, <3>3 DEF Owners
  <2> QED BY <2>1, <2>2
<1> QED BY <1>1, <1>3, <1>4 DEF TInv

(* The end of a call, or of one arm of a select: the mutex is released and *)
(* the thread goes on.                                                     *)
LEMMA ReleaseStep ==
  ASSUME TInv, NEW t \in Threads, script' = script, Types', Holds(t), Release(t),
         \A u \in Threads : u # t => /\ pc'[u] = pc[u] /\ node'[u] = node[u]
                                     /\ at'[u] = at[u] /\ arm'[u] = arm[u],
         ThreadOK(t)', ~Holds(t)',
         \A c \in Chans :
            \/ waiting'[c] = waiting[c]
            \/ waiting'[c] = waiting[c] \cup {t} /\ pc'[t] = "waiting" /\ Chan(t)' = c
  PROVE  TInv'
<1>1. \A u \in Threads : u # t => /\ ThreadOK(u)' /\ Op(u)' = Op(u) /\ Chan(u)' = Chan(u)
                                  /\ Holds(u)' <=> Holds(u)
  BY OthersOK DEF TInv
<1>2. Sleepers'
  <2> SUFFICES ASSUME NEW c \in Chans, NEW w \in waiting'[c]
               PROVE  pc'[w] = "waiting" /\ Chan(w)' = c
    BY DEF Sleepers
  <2>1. CASE w \in waiting[c]
    <3>1. w \in Threads /\ pc[w] = "waiting" /\ Chan(w) = c /\ w # t
      BY <2>1 DEF TInv, Types, Sleepers, Holds
    <3> QED BY <1>1, <3>1
  <2>2. CASE w \notin waiting[c]
    BY <2>2
  <2> QED BY <2>1, <2>2
<1>3. Owners'
  BY <1>1, OwnersRelease
<1> QED BY <1>1, <1>2, <1>3 DEF TInv

-----------------------------------------------------------------------------
(* tinox_channel_send up to the lock. *)
LEMMA MallocTInv ==
  ASSUME TInv, NEW t \in Threads, script' = script, Malloc(t)
  PROVE  TInv'
<1>1. PICK n \in Nodes \ heap :
        /\ heap' = heap \cup {n}
        /\ value' = [value EXCEPT ![n] = script[t][at[t]].val]
        /\ next' = [next EXCEPT ![n] = Null]
        /\ node' = [node EXCEPT ![t] = n]
  BY DEF Malloc
<1>2. /\ pc[t] = "begin" /\ Op(t) = "send" /\ pc' = [pc EXCEPT ![t] = "lock"]
      /\ UNCHANGED <<head, tail, mutex, waiting, at, arm, spurious>>
  BY DEF Malloc, chan
<1>3. script[t][at[t]].val \in Values
  BY <1>2, InCall DEF Call
<1>4. Types'
  BY <1>1, <1>2, <1>3 DEF TInv, Types, Pointer, PCs
<1>5. pc'[t] = "lock" /\ node'[t] = n /\ n # Null /\ Op(t)' = Op(t)
  BY <1>1, <1>2, ChannelAssumption DEF TInv, Types, Op
<1>6. ThreadOK(t)'
  BY <1>2, <1>5 DEF TInv, ThreadOK, HasNode
<1>7. \A u \in Threads : u # t => pc'[u] = pc[u] /\ node'[u] = node[u]
  BY <1>1, <1>2 DEF TInv, Types
<1> QED BY <1>2, <1>4, <1>5, <1>6, <1>7, LocalStep DEF Holds

(* pthread_mutex_lock. *)
LEMMA LockTInv ==
  ASSUME TInv, NEW t \in Threads, script' = script, Lock(t)
  PROVE  TInv'
<1>1. /\ pc[t] \in {"lock", "woken"} \/ (pc[t] = "begin" /\ Op(t) # "send")
      /\ mutex[Chan(t)] = NoThread
      /\ mutex' = [mutex EXCEPT ![Chan(t)] = t]
      /\ pc' = [pc EXCEPT ![t] = "locked"]
      /\ UNCHANGED <<head, tail, waiting, heap, value, next, at, arm, node, spurious>>
  BY DEF Lock, Receives, chan, nodes
<1>2. Types'
  BY <1>1 DEF TInv, Types, PCs
<1>3. pc'[t] = "locked" /\ Op(t)' = Op(t)
  BY <1>1 DEF TInv, Types, Op
<1>4. ThreadOK(t)'
  BY <1>1, <1>3 DEF TInv, ThreadOK, HasNode
<1>5. \A u \in Threads : u # t => pc'[u] = pc[u] /\ node'[u] = node[u]
  BY <1>1 DEF TInv, Types
<1>6. pc[t] # "waiting" /\ pc[t] # "done" /\ ~Holds(t) /\ Holds(t)'
  BY <1>1, <1>3 DEF Holds
<1> QED BY <1>1, <1>2, <1>4, <1>5, <1>6, LocalStep

(* tinox_channel_send under the lock. *)
LEMMA LinkTInv ==
  ASSUME TInv, NEW t \in Threads, script' = script, Link(t)
  PROVE  TInv'
<1>1. /\ pc[t] = "locked" /\ Op(t) = "send" /\ pc' = [pc EXCEPT ![t] = "signal"]
      /\ UNCHANGED <<mutex, waiting, heap, value, at, arm, node, spurious>>
      /\ \/ next' = [next EXCEPT ![tail[Chan(t)]] = node[t]] /\ head' = head
         \/ head' = [head EXCEPT ![Chan(t)] = node[t]] /\ next' = next
      /\ tail' = [tail EXCEPT ![Chan(t)] = node[t]]
  BY DEF Link
<1>2. node[t] \in Pointer
  BY DEF TInv, Types
<1>3. Types'
  BY <1>1, <1>2 DEF TInv, Types, PCs
<1>4. pc'[t] = "signal" /\ Op(t)' = Op(t)
  BY <1>1 DEF TInv, Types, Op
<1>5. ThreadOK(t)'
  BY <1>1, <1>4 DEF TInv, ThreadOK, HasNode
<1>6. \A u \in Threads : u # t => pc'[u] = pc[u] /\ node'[u] = node[u]
  BY <1>1 DEF TInv, Types
<1>7. pc[t] # "waiting" /\ pc[t] # "done" /\ (Holds(t)' <=> Holds(t))
  BY <1>1, <1>4 DEF Holds
<1> QED BY <1>1, <1>3, <1>5, <1>6, <1>7, LocalStep

(* The removal of the first message. *)
LEMMA TakeTInv ==
  ASSUME TInv, NEW t \in Threads, script' = script, Take(t)
  PROVE  TInv'
<1> DEFINE c == Chan(t)
           n == head[c]
<1>1. /\ pc[t] = "locked" /\ Op(t) # "send" /\ pc' = [pc EXCEPT ![t] = "unlock"]
      /\ UNCHANGED <<mutex, waiting, value, next, at, arm, node, spurious>>
      /\ n # Null /\ head' = [head EXCEPT ![c] = next[n]]
      /\ tail' = IF next[n] = Null THEN [tail EXCEPT ![c] = Null] ELSE tail
      /\ heap' = heap \ {n}
  BY DEF Take, Receives
<1>2. c \in Chans
  BY <1>1, InCall
<1>3. n \in Nodes /\ next[n] \in Pointer
  BY <1>1, <1>2 DEF TInv, Types, Pointer
<1>4. Types'
  BY <1>1, <1>3 DEF TInv, Types, PCs, Pointer
<1>5. pc'[t] = "unlock" /\ Op(t)' = Op(t)
  BY <1>1 DEF TInv, Types, Op
<1>6. ThreadOK(t)'
  BY <1>1, <1>5 DEF TInv, ThreadOK, HasNode
<1>7. \A u \in Threads : u # t => pc'[u] = pc[u] /\ node'[u] = node[u]
  BY <1>1 DEF TInv, Types
<1>8. pc[t] # "waiting" /\ pc[t] # "done" /\ (Holds(t)' <=> Holds(t))
  BY <1>1, <1>5 DEF Holds
<1> QED BY <1>1, <1>4, <1>6, <1>7, <1>8, LocalStep

(* tinox_channel_try_recv on an empty channel. *)
LEMMA MissTInv ==
  ASSUME TInv, NEW t \in Threads, script' = script, Miss(t)
  PROVE  TInv'
<1>1. /\ pc[t] = "locked" /\ Op(t) \in Polling /\ pc' = [pc EXCEPT ![t] = "missed"]
      /\ UNCHANGED <<head, tail, mutex, waiting, heap, value, next, at, arm, node, spurious>>
  BY DEF Miss, Polling, chan, nodes
<1>2. Types'
  BY <1>1 DEF TInv, Types, PCs
<1>3. pc'[t] = "missed" /\ Op(t)' = Op(t)
  BY <1>1 DEF TInv, Types, Op
<1>4. ThreadOK(t)'
  BY <1>1, <1>3 DEF TInv, ThreadOK, HasNode, Polling
<1>5. \A u \in Threads : u # t => pc'[u] = pc[u] /\ node'[u] = node[u]
  BY <1>1 DEF TInv, Types
<1>6. pc[t] # "waiting" /\ pc[t] # "done" /\ (Holds(t)' <=> Holds(t))
  BY <1>1, <1>3 DEF Holds
<1> QED BY <1>1, <1>2, <1>4, <1>5, <1>6, LocalStep

(* pthread_cond_signal. *)
LEMMA SignalTInv ==
  ASSUME TInv, NEW t \in Threads, script' = script, Signal(t)
  PROVE  TInv'
<1> DEFINE c == Chan(t)
<1>1. /\ pc[t] = "signal" /\ node' = [node EXCEPT ![t] = Null]
      /\ UNCHANGED <<head, tail, mutex, heap, value, next, at, arm, spurious>>
      /\ \/ waiting' = waiting /\ pc' = [pc EXCEPT ![t] = "unlock"]
         \/ \E w \in waiting[c] :
               /\ waiting' = [waiting EXCEPT ![c] = @ \ {w}]
               /\ pc' = [pc EXCEPT ![t] = "unlock", ![w] = "woken"]
  BY DEF Signal, chan, nodes
<1>2. c \in Chans /\ waiting[c] \subseteq Threads /\ pc \in [Threads -> PCs]
      /\ node \in [Threads -> Pointer] /\ waiting \in [Chans -> SUBSET Threads]
  BY <1>1, InCall DEF TInv, Types
<1>3. \A u \in Threads : Op(u)' = Op(u) /\ Chan(u)' = Chan(u)
  BY <1>1 DEF Op, Chan
<1>4. ASSUME waiting' = waiting, pc' = [pc EXCEPT ![t] = "unlock"]
      PROVE  TInv'
  <2>1. Types'
    BY <1>1, <1>4 DEF TInv, Types, PCs, Pointer
  <2>2. ThreadOK(t)' /\ (Holds(t)' <=> Holds(t))
    BY <1>1, <1>2, <1>3, <1>4 DEF TInv, ThreadOK, HasNode, Holds
  <2>3. \A u \in Threads : u # t => pc'[u] = pc[u] /\ node'[u] = node[u]
    BY <1>1, <1>2, <1>4
  <2> QED BY <1>1, <1>4, <2>1, <2>2, <2>3, LocalStep
<1>5. ASSUME NEW w \in waiting[c], waiting' = [waiting EXCEPT ![c] = @ \ {w}],
             pc' = [pc EXCEPT ![t] = "unlock", ![w] = "woken"]
      PROVE  TInv'
  <2>1. w \in Threads /\ pc[w] = "waiting" /\ w # t
    BY <1>1, <1>2 DEF TInv, Sleepers
  <2>2. Types'
    BY <1>1, <1>2, <1>5, <2>1 DEF TInv, Types, PCs, Pointer
  <2>3. /\ pc'[t] = "unlock" /\ pc'[w] = "woken" /\ node'[t] = Null /\ node'[w] = node[w]
        /\ \A u \in Threads : u \notin {t, w} => pc'[u] = pc[u] /\ node'[u] = node[u]
    BY <1>1, <1>2, <1>5, <2>1
  <2>4. \A u \in Threads : ThreadOK(u)' /\ (Holds(u)' <=> Holds(u))
    <3> SUFFICES ASSUME NEW u \in Threads PROVE ThreadOK(u)' /\ (Holds(u)' <=> Holds(u))
      OBVIOUS
    <3>1. CASE u = t
      BY <1>1, <1>3, <2>3, <3>1 DEF TInv, ThreadOK, HasNode, Holds
    <3>2. CASE u = w
      BY <1>1, <1>3, <2>1, <2>3, <3>2 DEF TInv, ThreadOK, HasNode, Holds
    <3>3. CASE u \notin {t, w}
      BY <1>1, <2>3, <3>3, OthersOK DEF TInv
    <3> QED BY <3>1, <3>2, <3>3
  <2>5. Owners'
    BY <1>1, <1>3, <2>4, OwnersKept
  <2>6. Sleepers'
    <3> SUFFICES ASSUME NEW d \in Chans, NEW x \in waiting'[d]
                 PROVE  pc'[x] = "waiting" /\ Chan(x)' = d
      BY DEF Sleepers
    <3>1. x \in waiting[d] /\ (d = c => x # w)
      BY <1>2, <1>5
    <3>2. x \in Threads /\ pc[x] = "waiting" /\ Chan(x) = d
      BY <1>2, <3>1 DEF TInv, Sleepers
    <3>3. Chan(w) = c
      BY <1>2 DEF TInv, Sleepers
    <3>4. x \notin {t, w}
      BY <1>1, <3>1, <3>2, <3>3
    <3> QED BY <1>3, <2>3, <3>2, <3>4
  <2> QED BY <2>2, <2>4, <2>5, <2>6 DEF TInv
<1> QED BY <1>1, <1>4, <1>5

(* pthread_cond_wait. *)
LEMMA WaitTInv ==
  ASSUME TInv, NEW t \in Threads, script' = script, Wait(t)
  PROVE  TInv'
<1>1. /\ pc[t] = "locked" /\ Op(t) = "recv" /\ pc' = [pc EXCEPT ![t] = "waiting"]
      /\ waiting' = [waiting EXCEPT ![Chan(t)] = @ \cup {t}] /\ Release(t)
      /\ UNCHANGED <<head, tail, heap, value, next, at, arm, node, spurious>>
  BY DEF Wait, Release, chan, nodes
<1>2. Chan(t) \in Chans /\ waiting \in [Chans -> SUBSET Threads] /\ pc \in [Threads -> PCs]
  BY <1>1, InCall DEF TInv, Types
<1>3. Types'
  BY <1>1, <1>2 DEF TInv, Types, PCs, Release
<1>4. pc'[t] = "waiting" /\ Op(t)' = Op(t) /\ Chan(t)' = Chan(t)
  BY <1>1, <1>2 DEF Op, Chan
<1>5. ThreadOK(t)' /\ Holds(t) /\ ~Holds(t)'
  BY <1>1, <1>4 DEF TInv, ThreadOK, HasNode, Holds
<1>6. \A u \in Threads : u # t => /\ pc'[u] = pc[u] /\ node'[u] = node[u]
                                  /\ at'[u] = at[u] /\ arm'[u] = arm[u]
  BY <1>1, <1>2
<1>7. \A c \in Chans :
        \/ waiting'[c] = waiting[c]
        \/ waiting'[c] = waiting[c] \cup {t} /\ pc'[t] = "waiting" /\ Chan(t)' = c
  BY <1>1, <1>2, <1>4
<1> QED BY <1>1, <1>3, <1>5, <1>6, <1>7, ReleaseStep

(* pthread_cond_wait returns without a signal. *)
LEMMA SpuriousTInv ==
  ASSUME TInv, NEW t \in Threads, script' = script, Spurious(t)
  PROVE  TInv'
<1> DEFINE c == Chan(t)
<1>1. /\ pc[t] = "waiting" /\ pc' = [pc EXCEPT ![t] = "woken"]
      /\ spurious < MaxSpurious /\ spurious' = spurious + 1
      /\ waiting' = [waiting EXCEPT ![c] = @ \ {t}]
      /\ UNCHANGED <<head, tail, mutex, heap, value, next, at, arm, node>>
  BY DEF Spurious, chan, nodes
<1>2. c \in Chans /\ waiting \in [Chans -> SUBSET Threads] /\ pc \in [Threads -> PCs]
  BY <1>1, InCall DEF TInv, Types
<1>3. Types'
  BY <1>1, <1>2, ChannelAssumption DEF TInv, Types, PCs
<1>4. \A u \in Threads : Op(u)' = Op(u) /\ Chan(u)' = Chan(u)
  BY <1>1 DEF Op, Chan
<1>5. \A u \in Threads : ThreadOK(u)' /\ (Holds(u)' <=> Holds(u))
  <2> SUFFICES ASSUME NEW u \in Threads PROVE ThreadOK(u)' /\ (Holds(u)' <=> Holds(u))
    OBVIOUS
  <2>1. CASE u = t
    BY <1>1, <1>2, <1>4, <2>1 DEF TInv, ThreadOK, HasNode, Holds
  <2>2. CASE u # t
    <3>1. pc'[u] = pc[u]
      BY <1>1, <1>2, <2>2
    <3> QED BY <1>1, <3>1, OthersOK DEF TInv
  <2> QED BY <2>1, <2>2
<1>6. Owners'
  BY <1>1, <1>4, <1>5, OwnersKept
<1>7. Sleepers'
  <2> SUFFICES ASSUME NEW d \in Chans, NEW x \in waiting'[d]
               PROVE  pc'[x] = "waiting" /\ Chan(x)' = d
    BY DEF Sleepers
  <2>1. x \in waiting[d] /\ (d = c => x # t)
    BY <1>1, <1>2
  <2>2. x \in Threads /\ pc[x] = "waiting" /\ Chan(x) = d
    BY <1>2, <2>1 DEF TInv, Sleepers
  <2>3. x # t
    BY <2>1, <2>2
  <2> QED BY <1>1, <1>2, <1>4, <2>2, <2>3
<1> QED BY <1>3, <1>5, <1>6, <1>7 DEF TInv

(* The end of a call. *)
LEMMA UnlockTInv ==
  ASSUME TInv, NEW t \in Threads, script' = script, Holds(t), ~HasNode(t),
         Release(t), Return(t),
         UNCHANGED <<head, tail, waiting, heap, value, next, node, spurious>>
  PROVE  TInv'
<1>1. pc[t] # "done" /\ pc \in [Threads -> PCs] /\ at \in [Threads -> Nat \ {0}]
      /\ arm \in [Threads -> Nat \ {0}] /\ node[t] = Null
  BY DEF TInv, Types, Holds, ThreadOK
<1>2. /\ at' \in [Threads -> Nat \ {0}] /\ arm' \in [Threads -> Nat \ {0}]
      /\ pc'[t] \in {"begin", "done"}
      /\ pc'[t] # "done" => /\ at'[t] <= Len(script'[t])
                            /\ arm'[t] <= Len(script'[t][at'[t]].ch)
  BY <1>1, ReturnOK
<1>3. pc' \in [Threads -> PCs]
  BY <1>1 DEF Return, Start, PCs
<1>4. Types'
  BY <1>2, <1>3 DEF TInv, Types, Release
<1>5. ThreadOK(t)' /\ ~Holds(t)'
  BY <1>1, <1>2 DEF ThreadOK, HasNode, Holds
<1>6. \A u \in Threads : u # t => /\ pc'[u] = pc[u] /\ node'[u] = node[u]
                                  /\ at'[u] = at[u] /\ arm'[u] = arm[u]
  BY <1>1 DEF Return
<1> QED BY <1>4, <1>5, <1>6, ReleaseStep

(* try_recv answers 0, or a select goes on. *)
LEMMA UnlockMissedTInv ==
  ASSUME TInv, NEW t \in Threads, script' = script, UnlockMissed(t)
  PROVE  TInv'
<1> DEFINE last == arm[t] = Len(script[t][at[t]].ch)
<1>1. /\ pc[t] = "missed" /\ Release(t)
      /\ UNCHANGED <<head, tail, waiting, heap, value, next, node, spurious>>
      /\ \/ Return(t)
         \/ /\ Op(t) # "try" /\ at' = at
            /\ arm' = [arm EXCEPT ![t] = IF last THEN 1 ELSE @ + 1]
            /\ pc' = [pc EXCEPT ![t] = "lock"]
  BY DEF UnlockMissed, chan, nodes
<1>2. Op(t) \in Polling /\ Holds(t) /\ ~HasNode(t) /\ node[t] = Null
  BY <1>1 DEF TInv, ThreadOK, HasNode, Holds
<1>3. CASE Return(t)
  BY <1>1, <1>2, <1>3, UnlockTInv
<1>4. CASE /\ at' = at /\ arm' = [arm EXCEPT ![t] = IF last THEN 1 ELSE @ + 1]
           /\ pc' = [pc EXCEPT ![t] = "lock"]
  <2>1. /\ arm[t] \in 1 .. Len(script[t][at[t]].ch) /\ pc \in [Threads -> PCs]
        /\ arm \in [Threads -> Nat \ {0}] /\ at[t] \in 1 .. Len(script[t])
        /\ script[t][at[t]].ch \in Seq(Chans)
    BY <1>1, InCall DEF TInv, Types, Call
  <2>2. Types'
    <3>1. arm' \in [Threads -> Nat \ {0}] /\ at' \in [Threads -> Nat \ {0}]
      BY <1>4, <2>1 DEF TInv, Types
    <3>2. mutex' \in [Chans -> Threads \cup {NoThread}] /\ pc' \in [Threads -> PCs]
      BY <1>1, <1>4 DEF TInv, Types, PCs, Release
    <3> QED BY <1>1, <3>1, <3>2 DEF TInv, Types
  <2>3. pc'[t] = "lock" /\ Op(t)' = Op(t)
    BY <1>4, <2>1 DEF Op
  <2>4. arm'[t] <= Len(script'[t][at'[t]].ch) /\ at'[t] <= Len(script'[t])
    <3>1. arm'[t] = IF last THEN 1 ELSE arm[t] + 1
      BY <1>4, <2>1
    <3>2. Len(script[t][at[t]].ch) \in Nat
      BY <2>1
    <3> QED BY <1>4, <2>1, <3>1, <3>2
  <2>5. ThreadOK(t)' /\ ~Holds(t)'
    BY <1>1, <1>2, <2>3, <2>4 DEF ThreadOK, HasNode, Holds, Polling
  <2>6. \A u \in Threads : u # t => /\ pc'[u] = pc[u] /\ node'[u] = node[u]
                                    /\ at'[u] = at[u] /\ arm'[u] = arm[u]
    BY <1>1, <1>4, <2>1
  <2> QED BY <1>1, <1>2, <2>2, <2>5, <2>6, ReleaseStep
<1> QED BY <1>1, <1>3, <1>4

(* Types and mutex ownership are inductive. *)
LEMMA NextTInv == TInv /\ [Next]_vars => TInv'
<1> SUFFICES ASSUME TInv, [Next]_vars PROVE TInv'
  OBVIOUS
<1>1. ASSUME NEW t \in Threads, script' = script, Step(t) PROVE TInv'
  <2>1. CASE Malloc(t)
    BY <1>1, <2>1, MallocTInv
  <2>2. CASE Lock(t)
    BY <1>1, <2>2, LockTInv
  <2>3. CASE Link(t)
    BY <1>1, <2>3, LinkTInv
  <2>4. CASE Signal(t)
    BY <1>1, <2>4, SignalTInv
  <2>5. CASE Wait(t)
    BY <1>1, <2>5, WaitTInv
  <2>6. CASE Take(t)
    BY <1>1, <2>6, TakeTInv
  <2>7. CASE Miss(t)
    BY <1>1, <2>7, MissTInv
  <2>8. CASE Unlock(t)
    BY <1>1, <2>8, UnlockTInv DEF Unlock, Holds, HasNode, chan, nodes
  <2>9. CASE UnlockMissed(t)
    BY <1>1, <2>9, UnlockMissedTInv
  <2> QED BY <1>1, <2>1, <2>2, <2>3, <2>4, <2>5, <2>6, <2>7, <2>8, <2>9 DEF Step
<1>2. ASSUME NEW t \in Threads, script' = script, Spurious(t) PROVE TInv'
  BY <1>2, SpuriousTInv
<1>3. CASE UNCHANGED vars
  <2>1. Types' /\ Sleepers' /\ Owners'
    BY <1>3 DEF vars, TInv, Types, Sleepers, Owners, Holds, Chan
  <2>2. \A t \in Threads : ThreadOK(t)'
    BY <1>3 DEF vars, TInv, ThreadOK, HasNode, Op
  <2> QED BY <2>1, <2>2 DEF TInv
<1> QED BY <1>1, <1>2, <1>3 DEF Next, Finished

(* The program counters of the threads and the mutexes of the channels     *)
(* agree: of the threads that work on a channel at most one is between its *)
(* pthread_mutex_lock and its pthread_mutex_unlock.                        *)
MutualExclusion ==
  \A t, u \in Threads : Holds(t) /\ Holds(u) /\ Chan(t) = Chan(u) => t = u

(* Sends, receives and selects exclude each other on one channel, whatever *)
(* waits, signals and spurious wake-ups come between.                      *)
THEOREM ChannelMutex == Spec => []MutualExclusion
<1>1. TInv => MutualExclusion
  BY DEF TInv, Owners, MutualExclusion
<1> QED BY <1>1, InitTInv, NextTInv, PTL DEF Spec

-----------------------------------------------------------------------------
(***************************************************************************)
(* The pointers of the channels always describe lists, one per channel.    *)
(* The invariant names these lists: L[c] is the sequence of the nodes that *)
(* head, next and tail of channel c run through.  What the message queues  *)
(* promise follows from it, for every program.                             *)
(***************************************************************************)

(* A sender that has allocated its node and not linked it yet. *)
Carries(t) == pc[t] \in {"lock", "locked"} /\ Op(t) = "send"

(* The pointers and nodes of every channel c are those of the list L[c],   *)
(* and no node is in two places.                                           *)
Lists(L) ==
  /\ L \in [Chans -> Seq(Nodes)]
  /\ \A c \in Chans :
        /\ head[c] = IF Len(L[c]) = 0 THEN Null ELSE L[c][1]
        /\ tail[c] = IF Len(L[c]) = 0 THEN Null ELSE L[c][Len(L[c])]
        /\ \A i \in 1 .. Len(L[c]) :
              /\ next[L[c][i]] = IF i < Len(L[c]) THEN L[c][i + 1] ELSE Null
              /\ L[c][i] \in heap /\ value[L[c][i]] \in Values
  /\ \A c, d \in Chans : \A i \in 1 .. Len(L[c]), j \in 1 .. Len(L[d]) :
        L[c][i] = L[d][j] => c = d /\ i = j

(* The nodes on their way into a list, and nothing else is allocated.      *)
Carried(L) ==
  /\ \A t \in Threads : Carries(t) =>
        /\ node[t] \in heap /\ next[node[t]] = Null
        /\ value[node[t]] = script[t][at[t]].val
        /\ \A c \in Chans : \A i \in 1 .. Len(L[c]) : L[c][i] # node[t]
  /\ \A t, u \in Threads : Carries(t) /\ Carries(u) /\ node[t] = node[u] => t = u
  /\ \A n \in heap : \/ \E c \in Chans : \E i \in 1 .. Len(L[c]) : n = L[c][i]
                     \/ \E t \in Threads : Carries(t) /\ n = node[t]

-----------------------------------------------------------------------------
(* A sequence with one more element. *)
LEMMA AppendFacts ==
  ASSUME NEW S, NEW s \in Seq(S), NEW x \in S
  PROVE  /\ Append(s, x) \in Seq(S) /\ Len(Append(s, x)) = Len(s) + 1 /\ Len(s) \in Nat
         /\ \A i \in 1 .. Len(s) : Append(s, x)[i] = s[i]
         /\ Append(s, x)[Len(s) + 1] = x
OBVIOUS

(* A sequence without its first element. *)
LEMMA TailFacts ==
  ASSUME NEW S, NEW s \in Seq(S), Len(s) # 0
  PROVE  /\ Tail(s) \in Seq(S) /\ Len(Tail(s)) = Len(s) - 1 /\ Len(s) \in Nat
         /\ \A i \in 1 .. Len(s) - 1 : Tail(s)[i] = s[i + 1]
OBVIOUS

(* A step that moves no pointer and hands over no node. *)
LEMMA ListsKept ==
  ASSUME NEW L, Lists(L), Carried(L), script' = script,
         UNCHANGED <<head, tail, heap, value, next>>,
         \A u \in Threads : /\ Carries(u)' <=> Carries(u)
                            /\ Carries(u) => node'[u] = node[u] /\ at'[u] = at[u]
  PROVE  Lists(L)' /\ Carried(L)'
<1>1. Lists(L)'
  BY DEF Lists
<1>2. Carried(L)'
  BY DEF Carried
<1> QED BY <1>1, <1>2

(* The allocation: the new node is in no list and carried by no other.     *)
LEMMA MallocLists ==
  ASSUME TInv, NEW L, Lists(L), Carried(L), NEW t \in Threads, script' = script, Malloc(t)
  PROVE  Lists(L)' /\ Carried(L)'
<1>1. PICK n \in Nodes \ heap :
        /\ heap' = heap \cup {n}
        /\ value' = [value EXCEPT ![n] = script[t][at[t]].val]
        /\ next' = [next EXCEPT ![n] = Null]
        /\ node' = [node EXCEPT ![t] = n]
  BY DEF Malloc
<1>2. /\ pc[t] = "begin" /\ Op(t) = "send" /\ pc' = [pc EXCEPT ![t] = "lock"]
      /\ UNCHANGED <<head, tail, at, arm>>
      /\ next \in [Nodes -> Pointer] /\ value \in [Nodes -> Values \cup {Null}]
      /\ heap \subseteq Nodes /\ pc \in [Threads -> PCs] /\ node \in [Threads -> Pointer]
  BY DEF Malloc, chan, TInv, Types
<1>3. \A x \in heap : x # n /\ next'[x] = next[x] /\ value'[x] = value[x] /\ x \in heap'
  BY <1>1, <1>2
<1>4. next'[n] = Null /\ value'[n] = script[t][at[t]].val /\ n \in heap'
  BY <1>1, <1>2
<1>5. \A u \in Threads : /\ Carries(u)' <=> Carries(u) \/ u = t
                         /\ u # t => node'[u] = node[u]
                         /\ u = t => node'[u] = n /\ ~Carries(u)
  BY <1>1, <1>2 DEF Carries, Op
<1>6. Lists(L)'
  BY <1>2, <1>3 DEF Lists
<1>7. \A c \in Chans : \A i \in 1 .. Len(L[c]) : L[c][i] \in heap /\ L[c][i] # n
  BY <1>3 DEF Lists
<1>8. \A u \in Threads : Carries(u) => node[u] \in heap /\ node[u] # n
  BY <1>3 DEF Carried
<1>9. Carried(L)'
  <2>1. ASSUME NEW u \in Threads, Carries(u)'
        PROVE  /\ node'[u] \in heap' /\ next'[node'[u]] = Null
               /\ value'[node'[u]] = script'[u][at'[u]].val
               /\ \A c \in Chans : \A i \in 1 .. Len(L[c]) : L[c][i] # node'[u]
    <3>1. CASE u = t
      BY <1>2, <1>4, <1>5, <1>7, <3>1
    <3>2. CASE u # t
      BY <1>2, <1>3, <1>5, <2>1, <3>2 DEF Carried
    <3> QED BY <3>1, <3>2
  <2>2. \A u, v \in Threads : Carries(u)' /\ Carries(v)' /\ node'[u] = node'[v] => u = v
    BY <1>5, <1>8 DEF Carried
  <2>3. ASSUME NEW x \in heap'
        PROVE  \/ \E c \in Chans : \E i \in 1 .. Len(L[c]) : x = L[c][i]
               \/ \E u \in Threads : Carries(u)' /\ x = node'[u]
    <3>1. CASE x = n
      BY <1>5, <3>1
    <3>2. CASE x # n
      BY <1>1, <1>5, <3>2 DEF Carried
    <3> QED BY <3>1, <3>2
  <2> QED BY <2>1, <2>2, <2>3 DEF Carried
<1> QED BY <1>6, <1>9

(* The pointers of channel d run through m. *)
Runs(d, m) ==
  /\ head[d] = IF Len(m) = 0 THEN Null ELSE m[1]
  /\ tail[d] = IF Len(m) = 0 THEN Null ELSE m[Len(m)]
  /\ \A i \in 1 .. Len(m) :
        /\ next[m[i]] = IF i < Len(m) THEN m[i + 1] ELSE Null
        /\ m[i] \in heap /\ value[m[i]] \in Values

(* The list of a channel the step does not touch. *)
LEMMA OtherList ==
  ASSUME NEW L, Lists(L), NEW d \in Chans, NEW m, m = L[d],
         head'[d] = head[d], tail'[d] = tail[d], heap' = heap, value' = value,
         \A i \in 1 .. Len(L[d]) : next'[L[d][i]] = next[L[d][i]]
  PROVE  Runs(d, m)'
BY DEF Lists, Runs

(* tinox_channel_send under the lock: the node is the list's new last one. *)
LEMMA LinkLists ==
  ASSUME TInv, NEW L, Lists(L), Carried(L), NEW t \in Threads, script' = script, Link(t),
         NEW M, M = [L EXCEPT ![Chan(t)] = Append(L[Chan(t)], node[t])]
  PROVE  Lists(M)' /\ Carried(M)'
<1> DEFINE c == Chan(t)
           n == node[t]
           s == L[c]
           k == Len(s)
<1>1. /\ pc[t] = "locked" /\ Op(t) = "send" /\ pc' = [pc EXCEPT ![t] = "signal"]
      /\ UNCHANGED <<heap, value, at, arm, node>>
      /\ IF tail[c] # Null
         THEN next' = [next EXCEPT ![tail[c]] = n] /\ head' = head
         ELSE head' = [head EXCEPT ![c] = n] /\ next' = next
      /\ tail' = [tail EXCEPT ![c] = n]
  BY DEF Link
<1>2. /\ c \in Chans /\ n \in heap /\ n \in Nodes /\ Null \notin Nodes
      /\ head \in [Chans -> Pointer] /\ tail \in [Chans -> Pointer]
      /\ next \in [Nodes -> Pointer] /\ pc \in [Threads -> PCs]
      /\ next[n] = Null /\ value[n] \in Values
      /\ \A d \in Chans : \A i \in 1 .. Len(L[d]) : L[d][i] # n
  <2>1. Carries(t) /\ c \in Chans /\ script[t][at[t]].val \in Values
    BY <1>1, InCall DEF Carries, Call
  <2> QED BY <1>1, <2>1, ChannelAssumption DEF TInv, Types, Carried
<1>3. /\ s \in Seq(Nodes) /\ k \in Nat /\ L \in [Chans -> Seq(Nodes)]
      /\ \A d \in Chans : L[d] \in Seq(Nodes) /\ Len(L[d]) \in Nat
      /\ \A d \in Chans : \A i \in 1 .. Len(L[d]) : L[d][i] \in Nodes
  BY <1>2 DEF Lists
<1>4. /\ M \in [Chans -> Seq(Nodes)]
      /\ Len(M[c]) = k + 1 /\ M[c][k + 1] = n
      /\ \A i \in 1 .. k : M[c][i] = s[i]
      /\ \A d \in Chans : d # c => M[d] = L[d]
  BY <1>2, <1>3, AppendFacts
<1>5. \A u \in Threads : /\ Carries(u)' <=> Carries(u) /\ u # t
  BY <1>1, <1>2 DEF Carries, Op
<1>6. tail[c] = IF k = 0 THEN Null ELSE s[k]
  BY <1>2 DEF Lists
<1>7. tail[c] # Null <=> k # 0
  BY <1>2, <1>3, <1>6
<1>8. \A x \in Nodes : next'[x] = IF k # 0 /\ x = s[k] THEN n ELSE next[x]
  BY <1>1, <1>2, <1>3, <1>6, <1>7
<1>9. \A d \in Chans : /\ head'[d] = IF d = c /\ k = 0 THEN n ELSE head[d]
                       /\ tail'[d] = IF d = c THEN n ELSE tail[d]
  BY <1>1, <1>2, <1>7
<1>10. \A d \in Chans : \A i \in 1 .. Len(L[d]) : k # 0 /\ L[d][i] = s[k] => d = c /\ i = k
  <2> SUFFICES ASSUME NEW d \in Chans, NEW i \in 1 .. Len(L[d]), k # 0, L[d][i] = s[k]
               PROVE  d = c /\ i = k
    OBVIOUS
  <2>1. k \in 1 .. Len(L[c])
    BY <1>3
  <2>2. \A e \in Chans : \A j \in 1 .. Len(L[e]) : L[d][i] = L[e][j] => d = e /\ i = j
    BY DEF Lists
  <2> QED BY <1>2, <2>1, <2>2
<1>11. ASSUME NEW d \in Chans
       PROVE  /\ head'[d] = IF Len(M[d]) = 0 THEN Null ELSE M[d][1]
              /\ tail'[d] = IF Len(M[d]) = 0 THEN Null ELSE M[d][Len(M[d])]
              /\ \A i \in 1 .. Len(M[d]) :
                    /\ next'[M[d][i]] = IF i < Len(M[d]) THEN M[d][i + 1] ELSE Null
                    /\ M[d][i] \in heap' /\ value'[M[d][i]] \in Values
  <2>1. CASE d # c
    <3>1. M[d] = L[d] /\ head'[d] = head[d] /\ tail'[d] = tail[d]
      BY <1>4, <1>9, <2>1
    <3>2. \A i \in 1 .. Len(L[d]) : next'[L[d][i]] = next[L[d][i]]
      BY <1>3, <1>8, <1>10, <2>1
    <3>3. heap' = heap /\ value' = value
      BY <1>1
    <3>4. PICK m : m = M[d]
      OBVIOUS
    <3>5. Runs(d, m)'
      BY <3>1, <3>2, <3>3, <3>4, OtherList
    <3> QED BY <3>4, <3>5 DEF Runs
  <2>2. CASE d = c
    <3>1. head'[c] = M[c][1]
      <4>1. CASE k = 0
        BY <1>2, <1>4, <1>9, <4>1
      <4>2. CASE k # 0
        <5>1. head[c] = s[1] /\ 1 \in 1 .. k
          BY <1>2, <1>3, <4>2 DEF Lists
        <5> QED BY <1>2, <1>4, <1>9, <4>2, <5>1
      <4> QED BY <4>1, <4>2
    <3>2. tail'[c] = M[c][k + 1]
      BY <1>2, <1>4, <1>9
    <3>3. ASSUME NEW i \in 1 .. k + 1
          PROVE  /\ next'[M[c][i]] = IF i < k + 1 THEN M[c][i + 1] ELSE Null
                 /\ M[c][i] \in heap' /\ value'[M[c][i]] \in Values
      <4>1. CASE i = k + 1
        <5>1. M[c][i] = n /\ next'[n] = Null
          <6>1. k # 0 => s[k] # n
            BY <1>2, <1>3
          <6> QED BY <1>2, <1>4, <1>8, <4>1, <6>1
        <5> QED BY <1>1, <1>2, <1>3, <4>1, <5>1
      <4>2. CASE i = k
        <5>1. M[c][i] = s[k] /\ s[k] \in Nodes /\ next'[s[k]] = n /\ M[c][i + 1] = n
          BY <1>3, <1>4, <1>8, <3>3, <4>2, <1>2
        <5>2. s[k] \in heap /\ value[s[k]] \in Values
          <6>1. c \in Chans /\ k \in 1 .. Len(L[c])
            BY <1>2, <3>3, <4>2
          <6> QED BY <6>1 DEF Lists
        <5> QED BY <1>1, <1>3, <4>2, <5>1, <5>2
      <4>3. CASE i < k
        <5>1. i \in 1 .. k /\ i + 1 \in 1 .. k
          BY <1>3, <3>3, <4>3
        <5>2. M[c][i] = s[i] /\ M[c][i + 1] = s[i + 1] /\ s[i] \in Nodes
          BY <1>2, <1>3, <1>4, <5>1
        <5>3. next[s[i]] = s[i + 1] /\ s[i] \in heap /\ value[s[i]] \in Values
          BY <1>2, <4>3, <5>1 DEF Lists
        <5>4. ~(k # 0 /\ s[i] = s[k])
          BY <1>2, <1>3, <1>10, <4>3, <5>1
        <5>5. next'[s[i]] = s[i + 1]
          BY <1>8, <5>2, <5>3, <5>4
        <5> QED BY <1>1, <1>3, <4>3, <5>2, <5>3, <5>5
      <4> QED BY <1>3, <3>3, <4>1, <4>2, <4>3
    <3> QED BY <1>3, <1>4, <2>2, <3>1, <3>2, <3>3
  <2> QED BY <2>1, <2>2
<1>12. \A d, e \in Chans : \A i \in 1 .. Len(M[d]), j \in 1 .. Len(M[e]) :
          M[d][i] = M[e][j] => d = e /\ i = j
  <2> SUFFICES ASSUME NEW d \in Chans, NEW e \in Chans, NEW i \in 1 .. Len(M[d]),
                      NEW j \in 1 .. Len(M[e]), M[d][i] = M[e][j]
               PROVE  d = e /\ i = j
    OBVIOUS
  <2>1. \/ d = c /\ i = k + 1 /\ M[d][i] = n
        \/ i \in 1 .. Len(L[d]) /\ M[d][i] = L[d][i]
    BY <1>3, <1>4
  <2>2. \/ e = c /\ j = k + 1 /\ M[e][j] = n
        \/ j \in 1 .. Len(L[e]) /\ M[e][j] = L[e][j]
    BY <1>3, <1>4
  <2> QED BY <1>2, <2>1, <2>2 DEF Lists
<1>13. Lists(M)'
  BY <1>4, <1>11, <1>12 DEF Lists
<1>14. \A d \in Chans : \A i \in 1 .. Len(M[d]) :
          \/ M[d][i] = n
          \/ i \in 1 .. Len(L[d]) /\ M[d][i] = L[d][i]
  BY <1>3, <1>4
<1>15. Carried(M)'
  <2>1. ASSUME NEW u \in Threads, Carries(u)'
        PROVE  /\ node'[u] \in heap' /\ next'[node'[u]] = Null
               /\ value'[node'[u]] = script'[u][at'[u]].val
               /\ \A d \in Chans : \A i \in 1 .. Len(M[d]) : M[d][i] # node'[u]
    <3>1. Carries(u) /\ u # t /\ Carries(t)
      BY <1>1, <1>5, <2>1 DEF Carries
    <3>2. /\ node[u] \in heap /\ next[node[u]] = Null /\ node[u] # n
          /\ value[node[u]] = script[u][at[u]].val
          /\ \A d \in Chans : \A i \in 1 .. Len(L[d]) : L[d][i] # node[u]
      BY <3>1 DEF Carried
    <3>3. node[u] \in Nodes /\ (k # 0 => s[k] # node[u])
      BY <1>2, <1>3, <3>2 DEF TInv, Types
    <3>4. next'[node[u]] = Null
      BY <1>8, <3>2, <3>3
    <3> QED BY <1>1, <1>14, <3>2, <3>4
  <2>2. \A u, v \in Threads : Carries(u)' /\ Carries(v)' /\ node'[u] = node'[v] => u = v
    BY <1>1, <1>5 DEF Carried
  <2>3. ASSUME NEW x \in heap'
        PROVE  \/ \E d \in Chans : \E i \in 1 .. Len(M[d]) : x = M[d][i]
               \/ \E u \in Threads : Carries(u)' /\ x = node'[u]
    <3>1. CASE x = n
      <4>1. k + 1 \in 1 .. Len(M[c])
        BY <1>3, <1>4
      <4> QED BY <1>2, <1>4, <3>1, <4>1
    <3>2. CASE \E d \in Chans : \E i \in 1 .. Len(L[d]) : x = L[d][i]
      <4>1. PICK d \in Chans : \E i \in 1 .. Len(L[d]) : x = L[d][i]
        BY <3>2
      <4>2. PICK i \in 1 .. Len(L[d]) : x = L[d][i]
        BY <4>1
      <4>3. i \in 1 .. Len(M[d]) /\ M[d][i] = x
        BY <1>3, <1>4, <4>2
      <4> QED BY <4>3
    <3>3. CASE \E u \in Threads : Carries(u) /\ x = node[u] /\ x # n
      BY <1>1, <1>5, <3>3
    <3> QED BY <1>1, <3>1, <3>2, <3>3 DEF Carried
  <2> QED BY <2>1, <2>2, <2>3 DEF Carried
<1> QED BY <1>13, <1>15

(* A list that is not empty begins with head, and the rest follows next.   *)
LEMMA HeadOfList ==
  ASSUME TInv, NEW L, Lists(L), NEW c \in Chans
  PROVE  /\ L[c] \in Seq(Nodes) /\ Len(L[c]) \in Nat
         /\ \A i \in 1 .. Len(L[c]) : L[c][i] \in Nodes
         /\ head[c] # Null <=> Len(L[c]) # 0
         /\ head[c] # Null =>
              /\ head[c] = L[c][1]
              /\ next[head[c]] = IF 1 < Len(L[c]) THEN L[c][2] ELSE Null
              /\ next[head[c]] = Null <=> Len(L[c]) = 1
<1>1. L[c] \in Seq(Nodes) /\ Len(L[c]) \in Nat /\ \A i \in 1 .. Len(L[c]) : L[c][i] \in Nodes
  BY DEF Lists
<1>2. head[c] = IF Len(L[c]) = 0 THEN Null ELSE L[c][1]
  BY DEF Lists
<1>3. head[c] # Null <=> Len(L[c]) # 0
  BY <1>1, <1>2, ChannelAssumption
<1>4. ASSUME head[c] # Null
      PROVE  /\ head[c] = L[c][1]
             /\ next[head[c]] = IF 1 < Len(L[c]) THEN L[c][2] ELSE Null
             /\ next[head[c]] = Null <=> Len(L[c]) = 1
  <2>1. 1 \in 1 .. Len(L[c]) /\ head[c] = L[c][1]
    BY <1>1, <1>2, <1>3, <1>4
  <2>2. next[L[c][1]] = IF 1 < Len(L[c]) THEN L[c][1 + 1] ELSE Null
    BY <2>1 DEF Lists
  <2>3. CASE Len(L[c]) = 1
    BY <2>1, <2>2, <2>3
  <2>4. CASE Len(L[c]) # 1
    <3>0. Len(L[c]) \in Nat /\ Len(L[c]) # 0
      BY <1>1, <1>3, <1>4
    <3>1. 1 < Len(L[c]) /\ 2 \in 1 .. Len(L[c])
      <4>1. \A k \in Nat : k # 0 /\ k # 1 => 1 < k /\ 2 \in 1 .. k
        OBVIOUS
      <4> QED BY <2>4, <3>0, <4>1
    <3>2. next[head[c]] = L[c][2]
      BY <2>1, <2>2, <3>1
    <3>3. L[c][2] # Null
      BY <1>1, <3>1, ChannelAssumption
    <3> QED BY <2>1, <2>4, <3>1, <3>2, <3>3
  <2> QED BY <2>3, <2>4
<1> QED BY <1>1, <1>3, <1>4

(* tinox_channel_recv: the list loses its first node. *)
LEMMA TakeLists ==
  ASSUME TInv, NEW L, Lists(L), Carried(L), NEW t \in Threads, script' = script, Take(t),
         NEW M, M = [L EXCEPT ![Chan(t)] = Tail(L[Chan(t)])]
  PROVE  Lists(M)' /\ Carried(M)'
<1> DEFINE c == Chan(t)
           n == head[c]
           s == L[c]
           k == Len(s)
<1>1. /\ pc[t] = "locked" /\ Op(t) # "send" /\ pc' = [pc EXCEPT ![t] = "unlock"]
      /\ UNCHANGED <<value, next, at, arm, node>>
      /\ n # Null /\ head' = [head EXCEPT ![c] = next[n]]
      /\ tail' = IF next[n] = Null THEN [tail EXCEPT ![c] = Null] ELSE tail
      /\ heap' = heap \ {n}
  BY DEF Take, Receives
<1>2. /\ c \in Chans /\ Null \notin Nodes
      /\ head \in [Chans -> Pointer] /\ tail \in [Chans -> Pointer]
      /\ pc \in [Threads -> PCs] /\ L \in [Chans -> Seq(Nodes)]
  BY <1>1, InCall, ChannelAssumption DEF TInv, Types, Lists
<1>3. /\ s \in Seq(Nodes) /\ k \in Nat /\ k # 0 /\ n = s[1]
      /\ \A i \in 1 .. k : s[i] \in Nodes
      /\ next[n] = IF 1 < k THEN s[2] ELSE Null
      /\ next[n] = Null <=> k = 1
  BY <1>1, <1>2, HeadOfList
<1>4. /\ M \in [Chans -> Seq(Nodes)]
      /\ Len(M[c]) = k - 1 /\ \A i \in 1 .. k - 1 : M[c][i] = s[i + 1]
      /\ \A d \in Chans : d # c => M[d] = L[d]
  BY <1>2, <1>3, TailFacts
<1>5. \A u \in Threads : Carries(u)' <=> Carries(u)
  BY <1>1, <1>2 DEF Carries, Op
<1>6. \A d \in Chans : /\ head'[d] = IF d = c THEN next[n] ELSE head[d]
                       /\ tail'[d] = IF d = c /\ k = 1 THEN Null ELSE tail[d]
  BY <1>1, <1>2, <1>3
<1>7. \A d \in Chans : \A i \in 1 .. Len(L[d]) : L[d][i] = n => d = c /\ i = 1
  <2> SUFFICES ASSUME NEW d \in Chans, NEW i \in 1 .. Len(L[d]), L[d][i] = n
               PROVE  d = c /\ i = 1
    OBVIOUS
  <2>1. 1 \in 1 .. Len(L[c])
    BY <1>3
  <2>2. \A e \in Chans : \A j \in 1 .. Len(L[e]) : L[d][i] = L[e][j] => d = e /\ i = j
    BY DEF Lists
  <2> QED BY <1>2, <1>3, <2>1, <2>2
<1>8. \A d \in Chans : \A i \in 1 .. Len(M[d]) :
        LET j == IF d = c THEN i + 1 ELSE i
        IN  j \in 1 .. Len(L[d]) /\ M[d][i] = L[d][j] /\ M[d][i] # n
  <2> SUFFICES ASSUME NEW d \in Chans, NEW i \in 1 .. Len(M[d])
               PROVE  LET j == IF d = c THEN i + 1 ELSE i
                      IN  j \in 1 .. Len(L[d]) /\ M[d][i] = L[d][j] /\ M[d][i] # n
    OBVIOUS
  <2>1. CASE d = c
    <3>1. i \in 1 .. k - 1 /\ i + 1 \in 1 .. k /\ M[c][i] = s[i + 1]
      BY <1>3, <1>4, <2>1
    <3>2. s[i + 1] # n
      BY <1>2, <1>7, <3>1
    <3> QED BY <2>1, <3>1, <3>2
  <2>2. CASE d # c
    BY <1>4, <1>7, <2>2
  <2> QED BY <2>1, <2>2
<1>9. ASSUME NEW d \in Chans
      PROVE  /\ head'[d] = IF Len(M[d]) = 0 THEN Null ELSE M[d][1]
             /\ tail'[d] = IF Len(M[d]) = 0 THEN Null ELSE M[d][Len(M[d])]
             /\ \A i \in 1 .. Len(M[d]) :
                   /\ next'[M[d][i]] = IF i < Len(M[d]) THEN M[d][i + 1] ELSE Null
                   /\ M[d][i] \in heap' /\ value'[M[d][i]] \in Values
  <2>1. CASE d # c
    <3>1. M[d] = L[d] /\ head'[d] = head[d] /\ tail'[d] = tail[d]
      BY <1>4, <1>6, <2>1
    <3>2. \A i \in 1 .. Len(L[d]) : L[d][i] \in heap'
      BY <1>1, <1>7, <2>1 DEF Lists
    <3>3. /\ head[d] = IF Len(L[d]) = 0 THEN Null ELSE L[d][1]
          /\ tail[d] = IF Len(L[d]) = 0 THEN Null ELSE L[d][Len(L[d])]
          /\ \A i \in 1 .. Len(L[d]) :
                /\ next[L[d][i]] = IF i < Len(L[d]) THEN L[d][i + 1] ELSE Null
                /\ value[L[d][i]] \in Values
      BY DEF Lists
    <3> QED BY <1>1, <3>1, <3>2, <3>3
  <2>2. CASE d = c
    <3>1. head'[c] = IF k - 1 = 0 THEN Null ELSE M[c][1]
      BY <1>2, <1>3, <1>4, <1>6
    <3>2. tail'[c] = IF k - 1 = 0 THEN Null ELSE M[c][k - 1]
      <4>1. tail[c] = s[k]
        BY <1>2, <1>3 DEF Lists
      <4>2. k # 1 => M[c][k - 1] = s[k]
        BY <1>3, <1>4
      <4> QED BY <1>2, <1>3, <1>6, <4>1, <4>2
    <3>3. ASSUME NEW i \in 1 .. k - 1
          PROVE  /\ next'[M[c][i]] = IF i < k - 1 THEN M[c][i + 1] ELSE Null
                 /\ M[c][i] \in heap' /\ value'[M[c][i]] \in Values
      <4>1. i + 1 \in 1 .. k /\ M[c][i] = s[i + 1] /\ s[i + 1] # n
        <5>1. i + 1 \in 1 .. k /\ M[c][i] = s[i + 1] /\ i + 1 # 1
          BY <1>3, <1>4
        <5> QED BY <1>2, <1>7, <5>1
      <4>2. /\ next[s[i + 1]] = IF i + 1 < k THEN s[i + 1 + 1] ELSE Null
            /\ s[i + 1] \in heap /\ value[s[i + 1]] \in Values
        BY <1>2, <4>1 DEF Lists
      <4>3. i < k - 1 => M[c][i + 1] = s[i + 1 + 1]
        BY <1>3, <1>4
      <4>4. i + 1 < k <=> i < k - 1
        BY <1>3
      <4> QED BY <1>1, <4>1, <4>2, <4>3, <4>4
    <3>4. Len(M[c]) = k - 1 /\ Len(M[c]) \in Nat
      BY <1>3, <1>4
    <3>5. \A i \in 1 .. Len(M[c]) :
             /\ next'[M[c][i]] = IF i < Len(M[c]) THEN M[c][i + 1] ELSE Null
             /\ M[c][i] \in heap' /\ value'[M[c][i]] \in Values
      BY <3>3, <3>4
    <3>6. /\ head'[c] = IF Len(M[c]) = 0 THEN Null ELSE M[c][1]
          /\ tail'[c] = IF Len(M[c]) = 0 THEN Null ELSE M[c][Len(M[c])]
      BY <3>1, <3>2, <3>4
    <3> QED BY <2>2, <3>5, <3>6
  <2> QED BY <2>1, <2>2
<1>10. \A d, e \in Chans : \A i \in 1 .. Len(M[d]), j \in 1 .. Len(M[e]) :
          M[d][i] = M[e][j] => d = e /\ i = j
  <2> SUFFICES ASSUME NEW d \in Chans, NEW e \in Chans, NEW i \in 1 .. Len(M[d]),
                      NEW j \in 1 .. Len(M[e]), M[d][i] = M[e][j]
               PROVE  d = e /\ i = j
    OBVIOUS
  <2> DEFINE i1 == IF d = c THEN i + 1 ELSE i
             j1 == IF e = c THEN j + 1 ELSE j
  <2>1. i1 \in 1 .. Len(L[d]) /\ M[d][i] = L[d][i1]
    BY <1>8
  <2>2. j1 \in 1 .. Len(L[e]) /\ M[e][j] = L[e][j1]
    BY <1>8
  <2>3. d = e /\ i1 = j1
    BY <2>1, <2>2 DEF Lists
  <2> QED BY <2>3
<1>11. Lists(M)'
  BY <1>4, <1>9, <1>10 DEF Lists
<1>12. Carried(M)'
  <2>1. ASSUME NEW u \in Threads, Carries(u)'
        PROVE  /\ node'[u] \in heap' /\ next'[node'[u]] = Null
               /\ value'[node'[u]] = script'[u][at'[u]].val
               /\ \A d \in Chans : \A i \in 1 .. Len(M[d]) : M[d][i] # node'[u]
    <3>1. /\ node[u] \in heap /\ next[node[u]] = Null
          /\ value[node[u]] = script[u][at[u]].val
          /\ \A d \in Chans : \A i \in 1 .. Len(L[d]) : L[d][i] # node[u]
      BY <1>5, <2>1 DEF Carried
    <3>2. 1 \in 1 .. Len(L[c])
      BY <1>3
    <3>3. node[u] # n
      BY <1>2, <1>3, <3>1, <3>2
    <3>4. \A d \in Chans : \A i \in 1 .. Len(M[d]) : M[d][i] # node[u]
      BY <1>8, <3>1
    <3> QED BY <1>1, <3>1, <3>3, <3>4
  <2>2. \A u, v \in Threads : Carries(u)' /\ Carries(v)' /\ node'[u] = node'[v] => u = v
    BY <1>1, <1>5 DEF Carried
  <2>3. ASSUME NEW x \in heap'
        PROVE  \/ \E d \in Chans : \E i \in 1 .. Len(M[d]) : x = M[d][i]
               \/ \E u \in Threads : Carries(u)' /\ x = node'[u]
    <3>0. x \in heap /\ x # n
      BY <1>1, <2>3
    <3>1. CASE \E d \in Chans : \E i \in 1 .. Len(L[d]) : x = L[d][i]
      <4>1. PICK d \in Chans : \E i \in 1 .. Len(L[d]) : x = L[d][i]
        BY <3>1
      <4>2. PICK i \in 1 .. Len(L[d]) : x = L[d][i]
        BY <4>1
      <4>3. CASE d # c
        BY <1>4, <4>2, <4>3
      <4>4. CASE d = c
        <5>1. i # 1
          BY <1>3, <3>0, <4>2, <4>4
        <5>2. i - 1 \in 1 .. Len(M[c]) /\ M[c][i - 1] = x
          BY <1>3, <1>4, <4>2, <4>4, <5>1
        <5> QED BY <1>2, <5>2
      <4> QED BY <4>3, <4>4
    <3>2. CASE \E u \in Threads : Carries(u) /\ x = node[u]
      BY <1>1, <1>5, <3>2
    <3> QED BY <3>0, <3>1, <3>2 DEF Carried
  <2> QED BY <2>1, <2>2, <2>3 DEF Carried
<1> QED BY <1>11, <1>12

-----------------------------------------------------------------------------
(* The steps that move no pointer of a list. *)
Quiet(t) == \/ Lock(t) \/ Signal(t) \/ Wait(t) \/ Spurious(t) \/ Miss(t)
            \/ Unlock(t) \/ UnlockMissed(t)

(* They leave every list and every node as it is. *)
LEMMA QuietLists ==
  ASSUME TInv, NEW L, Lists(L), Carried(L), NEW t \in Threads, script' = script, Quiet(t)
  PROVE  Lists(L)' /\ Carried(L)' /\ UNCHANGED <<head, tail, heap, value, next, got>>
<1>1. UNCHANGED <<head, tail, heap, value, next, got>>
  BY DEF Quiet, Lock, Signal, Wait, Spurious, Miss, Unlock, UnlockMissed, chan, nodes
<1>2. /\ pc \in [Threads -> PCs] /\ node \in [Threads -> Pointer]
      /\ at \in [Threads -> Nat \ {0}] /\ ThreadOK(t)
  BY DEF TInv, Types
<1> DEFINE Same(u) == /\ Carries(u)' <=> Carries(u)
                      /\ Carries(u) => node'[u] = node[u] /\ at'[u] = at[u]
<1>3. CASE Lock(t)
  <2>1. /\ pc[t] \in {"lock", "woken"} \/ (pc[t] = "begin" /\ Op(t) # "send")
        /\ pc' = [pc EXCEPT ![t] = "locked"] /\ UNCHANGED <<at, node>>
    BY <1>3 DEF Lock, Receives
  <2>2. \A u \in Threads : Op(u)' = Op(u) /\ pc'[u] = IF u = t THEN "locked" ELSE pc[u]
    BY <1>2, <2>1 DEF Op
  <2>3. \A u \in Threads : Same(u)
    BY <1>2, <2>1, <2>2 DEF Carries, ThreadOK
  <2> QED BY <1>1, <2>3, ListsKept
<1>4. CASE Wait(t) \/ Miss(t) \/ Spurious(t)
  <2>1. /\ pc[t] \in {"locked", "waiting"} /\ ~Carries(t) /\ UNCHANGED <<at, node>>
        /\ \/ pc' = [pc EXCEPT ![t] = "waiting"]
           \/ pc' = [pc EXCEPT ![t] = "missed"]
           \/ pc' = [pc EXCEPT ![t] = "woken"]
    BY <1>2, <1>4 DEF Wait, Miss, Spurious, Carries, ThreadOK
  <2>2. \A u \in Threads : Op(u)' = Op(u) /\ (u # t => pc'[u] = pc[u])
    BY <1>2, <2>1 DEF Op
  <2>3. pc'[t] \notin {"lock", "locked"}
    BY <1>2, <2>1
  <2>4. \A u \in Threads : Same(u)
    BY <2>1, <2>2, <2>3 DEF Carries
  <2> QED BY <1>1, <2>4, ListsKept
<1>5. CASE Signal(t)
  <2>1. pc[t] = "signal" /\ at' = at /\ node' = [node EXCEPT ![t] = Null]
    BY <1>5 DEF Signal
  <2>2. \A u \in Threads : Op(u)' = Op(u) /\ (u # t => node'[u] = node[u])
    BY <1>2, <2>1 DEF Op
  <2>3. Chan(t) \in Chans
    BY <2>1, InCall
  <2>4. \A u \in Threads : \/ pc'[u] = pc[u] /\ u # t
                           \/ pc'[u] \notin {"lock", "locked"} /\ pc[u] \notin {"lock", "locked"}
    <3>1. CASE pc' = [pc EXCEPT ![t] = "unlock"]
      BY <1>2, <2>1, <3>1
    <3>2. ASSUME NEW w \in waiting[Chan(t)], pc' = [pc EXCEPT ![t] = "unlock", ![w] = "woken"]
          PROVE  \A u \in Threads :
                    \/ pc'[u] = pc[u] /\ u # t
                    \/ pc'[u] \notin {"lock", "locked"} /\ pc[u] \notin {"lock", "locked"}
      <4>1. pc[w] = "waiting" /\ w \in Threads
        BY <2>3 DEF TInv, Types, Sleepers
      <4> QED BY <1>2, <2>1, <3>2, <4>1
    <3> QED BY <1>5, <3>1, <3>2 DEF Signal
  <2>5. \A u \in Threads : Same(u)
    BY <2>1, <2>2, <2>4 DEF Carries
  <2> QED BY <1>1, <2>5, ListsKept
<1>6. CASE Unlock(t) \/ UnlockMissed(t)
  <2>1. /\ pc[t] \in {"unlock", "missed"} /\ node' = node
        /\ Return(t) \/ (at' = at /\ pc' = [pc EXCEPT ![t] = "lock"] /\ Op(t) # "send")
    BY <1>6 DEF Unlock, UnlockMissed
  <2>2. \A u \in Threads : u # t => pc'[u] = pc[u] /\ at'[u] = at[u]
    BY <1>2, <2>1 DEF Return
  <2>3. ~Carries(t) /\ ~Carries(t)'
    <3>1. CASE Return(t)
      BY <1>2, <2>1, <3>1 DEF Return, Start, Carries
    <3>2. CASE at' = at /\ Op(t) # "send"
      BY <2>1, <3>2 DEF Carries, Op
    <3> QED BY <2>1, <3>1, <3>2
  <2>4. \A u \in Threads : Same(u)
    BY <2>1, <2>2, <2>3 DEF Carries, Op
  <2> QED BY <1>1, <2>4, ListsKept
<1> QED BY <1>3, <1>4, <1>5, <1>6 DEF Quiet

-----------------------------------------------------------------------------
(* A thread on its way to take a message, or about to wake one that will.  *)
Comes(t) == pc[t] \in {"woken", "signal"} \/ (pc[t] = "locked" /\ Op(t) = "recv")
Coming(c) == {t \in Threads : Comes(t) /\ Chan(t) = c}

(* As long as somebody sleeps, every message has such a thread. *)
Wakes(L) == \A c \in Chans : waiting[c] # {} => Len(L[c]) <= Cardinality(Coming(c))

(* How a step may change the messages of a channel and who comes for them. *)
LEMMA WakesStep ==
  ASSUME NEW L, L \in [Chans -> Seq(Nodes)], NEW M, M \in [Chans -> Seq(Nodes)], Wakes(L),
         \A c \in Chans : waiting'[c] # {} =>
           \/ Len(M[c]) = 0
           \/ /\ waiting[c] # {}
              /\ \/ Len(M[c]) <= Len(L[c]) /\ Coming(c) \subseteq Coming(c)'
                 \/ /\ Len(M[c]) <= Len(L[c]) + 1
                    /\ \E t : t \notin Coming(c) /\ Coming(c) \cup {t} \subseteq Coming(c)'
                 \/ /\ Len(M[c]) + 1 <= Len(L[c])
                    /\ \E t : Coming(c) \ {t} \subseteq Coming(c)'
                 \/ /\ Len(M[c]) <= Len(L[c])
                    /\ \E t, w : /\ w \notin Coming(c)
                                 /\ (Coming(c) \ {t}) \cup {w} \subseteq Coming(c)'
  PROVE  Wakes(M)'
<1> SUFFICES ASSUME NEW c \in Chans, waiting'[c] # {}
             PROVE  Len(M[c]) <= Cardinality(Coming(c)')
  <2>1. Wakes(M)' <=> \A d \in Chans : waiting'[d] # {} => Len(M[d]) <= Cardinality(Coming(d)')
    BY DEF Wakes, Cardinality, IsFiniteSet
  <2> QED BY <2>1
<1> DEFINE S == Coming(c)
           T == Coming(c)'
<1>1. Len(M[c]) \in Nat /\ Len(L[c]) \in Nat
  OBVIOUS
<1>2. IsFiniteSet(S) /\ IsFiniteSet(T)
  <2>1. S \in SUBSET Threads /\ T \in SUBSET Threads /\ IsFiniteSet(Threads)
    BY ChannelAssumption DEF Coming
  <2> HIDE DEF S, T
  <2> QED BY <2>1, FS_Subset
<1>3. waiting[c] # {} => Len(L[c]) <= Cardinality(S)
  BY DEF Wakes
<1>4. Cardinality(S) \in Nat /\ Cardinality(T) \in Nat
  <2> HIDE DEF S, T
  <2> QED BY <1>2, FS_CardinalityType
<1>5. \A X \in SUBSET T : Cardinality(X) <= Cardinality(T)
  <2> HIDE DEF T
  <2> QED BY <1>2, FS_Subset
<1>6. ASSUME NEW t
      PROVE  /\ IsFiniteSet(S \ {t}) /\ Cardinality(S \ {t}) \in Nat
             /\ Cardinality(S) <= Cardinality(S \ {t}) + 1
             /\ t \notin S => Cardinality(S \cup {t}) = Cardinality(S) + 1
  <2> HIDE DEF S, T
  <2> QED BY <1>2, AddRemoveCount
<1>7. ASSUME NEW t, NEW w, w \notin S
      PROVE  Cardinality(S) <= Cardinality((S \ {t}) \cup {w})
  <2> HIDE DEF S, T
  <2>1. w \notin S \ {t} /\ IsFiniteSet(S \ {t})
    BY <1>6, <1>7
  <2>2. Cardinality((S \ {t}) \cup {w}) = Cardinality(S \ {t}) + 1
    BY <2>1, AddRemoveCount
  <2> QED BY <1>6, <2>2
<1>8. CASE Len(M[c]) = 0
  BY <1>4, <1>8
<1>9. CASE waiting[c] # {} /\ Len(M[c]) <= Len(L[c]) /\ S \subseteq T
  BY <1>1, <1>3, <1>4, <1>5, <1>9
<1>10. ASSUME waiting[c] # {}, Len(M[c]) <= Len(L[c]) + 1, NEW t, t \notin S, S \cup {t} \subseteq T
       PROVE  Len(M[c]) <= Cardinality(T)
  <2>1. Cardinality(S \cup {t}) <= Cardinality(T) /\ Cardinality(S \cup {t}) = Cardinality(S) + 1
    BY <1>5, <1>6, <1>10
  <2> QED BY <1>1, <1>3, <1>4, <1>10, <2>1
<1>11. ASSUME waiting[c] # {}, Len(M[c]) + 1 <= Len(L[c]), NEW t, S \ {t} \subseteq T
       PROVE  Len(M[c]) <= Cardinality(T)
  <2>1. /\ Cardinality(S \ {t}) <= Cardinality(T) /\ Cardinality(S) <= Cardinality(S \ {t}) + 1
        /\ Cardinality(S \ {t}) \in Nat
    BY <1>5, <1>6, <1>11
  <2> QED BY <1>1, <1>3, <1>4, <1>11, <2>1
<1>12. ASSUME waiting[c] # {}, Len(M[c]) <= Len(L[c]), NEW t, NEW w, w \notin S,
              (S \ {t}) \cup {w} \subseteq T
       PROVE  Len(M[c]) <= Cardinality(T)
  <2>1. /\ Cardinality((S \ {t}) \cup {w}) <= Cardinality(T)
        /\ Cardinality(S) <= Cardinality((S \ {t}) \cup {w})
    BY <1>5, <1>7, <1>12
  <2>2. Cardinality((S \ {t}) \cup {w}) \in Nat
    <3> HIDE DEF S, T
    <3>1. (S \ {t}) \cup {w} \in SUBSET T
      BY <1>12
    <3> QED BY <1>2, <3>1, FS_Subset, FS_CardinalityType
  <2> QED BY <1>1, <1>3, <1>4, <1>12, <2>1, <2>2
<1> QED BY <1>8, <1>9, <1>10, <1>11, <1>12

(* The threads a step leaves alone come, or do not come, as before. *)
LEMMA ComingOthers ==
  ASSUME script' = script, NEW X,
         \A u \in Threads \ X : pc'[u] = pc[u] /\ at'[u] = at[u] /\ arm'[u] = arm[u]
  PROVE  \A u \in Threads \ X : \A c : u \in Coming(c) <=> u \in Coming(c)'
BY DEF Coming, Comes, Op, Chan

(* A step of t that does not stop t from coming, and takes nobody to sleep. *)
LEMMA WakesKept ==
  ASSUME NEW L, L \in [Chans -> Seq(Nodes)], Wakes(L), NEW t \in Threads, script' = script,
         \A u \in Threads \ {t} : pc'[u] = pc[u] /\ at'[u] = at[u] /\ arm'[u] = arm[u],
         \A c \in Chans : waiting'[c] \subseteq waiting[c],
         Comes(t) => Comes(t)' /\ Chan(t)' = Chan(t)
  PROVE  Wakes(L)'
<1>1. \A u \in Threads \ {t} : \A c : u \in Coming(c) <=> u \in Coming(c)'
  BY ComingOthers
<1>2. \A c : t \in Coming(c) => t \in Coming(c)'
  BY DEF Coming
<1>3. \A c : Coming(c) \subseteq Coming(c)'
  <2> SUFFICES ASSUME NEW c, NEW u \in Coming(c) PROVE u \in Coming(c)'
    OBVIOUS
  <2>1. u \in Threads
    BY DEF Coming
  <2> QED BY <1>1, <1>2, <2>1
<1>4. \A c \in Chans : waiting'[c] # {} => waiting[c] # {} /\ Len(L[c]) <= Len(L[c])
  BY DEF Wakes
<1> QED BY <1>3, <1>4, WakesStep

(* pthread_cond_signal: the woken thread takes the place of the signal. *)
LEMMA SignalWakes ==
  ASSUME TInv, NEW L, L \in [Chans -> Seq(Nodes)], Wakes(L), NEW t \in Threads,
         script' = script, Signal(t)
  PROVE  Wakes(L)'
<1>0. PICK c \in Chans : c = Chan(t)
  BY InCall DEF Signal
<1>1. pc[t] = "signal" /\ UNCHANGED <<at, arm>> /\ pc \in [Threads -> PCs]
      /\ waiting \in [Chans -> SUBSET Threads]
  BY DEF Signal, TInv, Types
<1>2. \A u \in Threads : Chan(u)' = Chan(u)
  BY <1>1 DEF Chan
<1>3. \A d \in Chans : Len(L[d]) \in Nat /\ Len(L[d]) <= Len(L[d])
  OBVIOUS
<1>4. \A d : d # c => t \notin Coming(d)
  BY <1>0 DEF Coming
<1>5. ASSUME waiting[c] = {}, waiting' = waiting, pc' = [pc EXCEPT ![t] = "unlock"]
      PROVE  Wakes(L)'
  <2>1. \A u \in Threads \ {t} : \A d : u \in Coming(d) <=> u \in Coming(d)'
    BY <1>1, <1>5, ComingOthers
  <2>2. \A d : d # c => Coming(d) \subseteq Coming(d)'
    BY <1>4, <2>1 DEF Coming
  <2> QED BY <1>3, <1>5, <2>2, WakesStep
<1>6. ASSUME NEW w \in waiting[c], waiting' = [waiting EXCEPT ![c] = @ \ {w}],
             pc' = [pc EXCEPT ![t] = "unlock", ![w] = "woken"]
      PROVE  Wakes(L)'
  <2>1. w \in Threads /\ pc[w] = "waiting" /\ Chan(w) = c /\ w # t
    BY <1>0, <1>1 DEF TInv, Sleepers
  <2>2. \A u \in Threads \ {t, w} : \A d : u \in Coming(d) <=> u \in Coming(d)'
    <3>1. \A u \in Threads \ {t, w} : pc'[u] = pc[u] /\ at'[u] = at[u] /\ arm'[u] = arm[u]
      BY <1>1, <1>6, <2>1
    <3> QED BY <3>1, ComingOthers
  <2>3. pc'[w] = "woken" /\ w \in Coming(c)' /\ \A d : w \notin Coming(d)
    <3>1. pc'[w] = "woken"
      BY <1>1, <1>6, <2>1
    <3> QED BY <1>2, <2>1, <3>1 DEF Coming, Comes
  <2>4. \A d : d # c => Coming(d) \subseteq Coming(d)'
    <3> SUFFICES ASSUME NEW d, d # c, NEW u \in Coming(d) PROVE u \in Coming(d)'
      OBVIOUS
    <3>1. u \in Threads \ {t, w}
      BY <1>4, <2>3 DEF Coming
    <3> QED BY <2>2, <3>1
  <2>5. (Coming(c) \ {t}) \cup {w} \subseteq Coming(c)'
    <3> SUFFICES ASSUME NEW u \in (Coming(c) \ {t}) \cup {w} PROVE u \in Coming(c)'
      OBVIOUS
    <3>1. CASE u = w
      BY <2>3, <3>1
    <3>2. CASE u # w
      <4>1. u \in Threads \ {t, w} /\ u \in Coming(c)
        BY <3>2 DEF Coming
      <4> QED BY <2>2, <4>1
    <3> QED BY <3>1, <3>2
  <2>6. \A d \in Chans : waiting'[d] # {} => waiting[d] # {}
    BY <1>1, <1>6
  <2>7. \E x, y : y \notin Coming(c) /\ (Coming(c) \ {x}) \cup {y} \subseteq Coming(c)'
    BY <2>3, <2>5
  <2>8. \A d \in Chans : waiting'[d] # {} =>
           /\ waiting[d] # {}
           /\ \/ Len(L[d]) <= Len(L[d]) /\ Coming(d) \subseteq Coming(d)'
              \/ /\ Len(L[d]) <= Len(L[d])
                 /\ \E x, y : /\ y \notin Coming(d)
                              /\ (Coming(d) \ {x}) \cup {y} \subseteq Coming(d)'
    BY <1>3, <2>4, <2>6, <2>7
  <2> QED BY <2>8, WakesStep
<1> QED BY <1>0, <1>5, <1>6 DEF Signal

(* The other steps that move no pointer: only an empty channel puts a      *)
(* thread to sleep.                                                        *)
LEMMA QuietWakes ==
  ASSUME TInv, NEW L, Lists(L), Wakes(L), NEW t \in Threads, script' = script, Quiet(t)
  PROVE  Wakes(L)'
<1>1. /\ pc \in [Threads -> PCs] /\ at \in [Threads -> Nat \ {0}]
      /\ arm \in [Threads -> Nat \ {0}] /\ waiting \in [Chans -> SUBSET Threads]
      /\ ThreadOK(t) /\ L \in [Chans -> Seq(Nodes)]
  BY DEF TInv, Types, Lists
<1>2. CASE Lock(t)
  <2>1. /\ pc[t] \in {"lock", "woken", "begin"} /\ pc' = [pc EXCEPT ![t] = "locked"]
        /\ UNCHANGED <<at, arm, waiting>>
    BY <1>2 DEF Lock
  <2>2. Comes(t) => Comes(t)' /\ Chan(t)' = Chan(t)
    BY <1>1, <2>1 DEF Comes, Chan, Op, ThreadOK
  <2> QED BY <1>1, <2>1, <2>2, WakesKept
<1>3. CASE Signal(t)
  BY <1>1, <1>3, SignalWakes
<1>4. CASE Wait(t)
  <2>0. PICK c \in Chans : c = Chan(t)
    BY <1>4, InCall DEF Wait
  <2>1. /\ pc[t] = "locked" /\ head[c] = Null /\ pc' = [pc EXCEPT ![t] = "waiting"]
        /\ waiting' = [waiting EXCEPT ![c] = @ \cup {t}] /\ UNCHANGED <<at, arm>>
    BY <1>4, <2>0 DEF Wait
  <2>3. Len(L[c]) = 0
    BY <2>1, HeadOfList
  <2>4. \A u \in Threads \ {t} : \A d : u \in Coming(d) <=> u \in Coming(d)'
    BY <1>1, <2>1, ComingOthers
  <2>5. \A d : d # c => Coming(d) \subseteq Coming(d)'
    BY <2>0, <2>4 DEF Coming
  <2>6. \A d \in Chans : Len(L[d]) <= Len(L[d]) /\ (d # c => waiting'[d] = waiting[d])
    BY <1>1, <2>1
  <2>7. \A d \in Chans : waiting'[d] # {} =>
          \/ Len(L[d]) = 0
          \/ waiting[d] # {} /\ Len(L[d]) <= Len(L[d]) /\ Coming(d) \subseteq Coming(d)'
    BY <2>3, <2>5, <2>6
  <2> QED BY <1>1, <2>7, WakesStep
<1>5. CASE Spurious(t)
  <2>1. /\ pc[t] = "waiting" /\ pc' = [pc EXCEPT ![t] = "woken"] /\ UNCHANGED <<at, arm>>
        /\ waiting' = [waiting EXCEPT ![Chan(t)] = @ \ {t}]
    BY <1>5 DEF Spurious
  <2>2. ~Comes(t) /\ \A c \in Chans : waiting'[c] \subseteq waiting[c]
    BY <1>1, <2>1 DEF Comes
  <2> QED BY <1>1, <2>1, <2>2, WakesKept
<1>6. CASE Miss(t)
  <2>1. /\ pc[t] = "locked" /\ Op(t) \in Polling /\ pc' = [pc EXCEPT ![t] = "missed"]
        /\ UNCHANGED <<at, arm, waiting>>
    BY <1>6 DEF Miss, Polling
  <2>2. ~Comes(t)
    BY <2>1 DEF Comes, Polling
  <2> QED BY <1>1, <2>1, <2>2, WakesKept
<1>7. CASE Unlock(t) \/ UnlockMissed(t)
  <2>1. pc[t] \in {"unlock", "missed"} /\ waiting' = waiting
    BY <1>7 DEF Unlock, UnlockMissed
  <2>2. ~Comes(t)
    BY <2>1 DEF Comes
  <2>3. \A u \in Threads \ {t} : pc'[u] = pc[u] /\ at'[u] = at[u] /\ arm'[u] = arm[u]
    BY <1>1, <1>7 DEF Unlock, UnlockMissed, Return
  <2> QED BY <1>1, <2>1, <2>2, <2>3, WakesKept
<1> QED BY <1>2, <1>3, <1>4, <1>5, <1>6, <1>7 DEF Quiet

(* A sender that links its node comes to signal it. *)
LEMMA LinkWakes ==
  ASSUME TInv, NEW L, Lists(L), Wakes(L), NEW t \in Threads, script' = script, Link(t),
         NEW M, M = [L EXCEPT ![Chan(t)] = Append(L[Chan(t)], node[t])],
         M \in [Chans -> Seq(Nodes)]
  PROVE  Wakes(M)'
<1>0. PICK c \in Chans : c = Chan(t)
  BY InCall DEF Link
<1>1. /\ pc[t] = "locked" /\ Op(t) = "send" /\ pc' = [pc EXCEPT ![t] = "signal"]
      /\ UNCHANGED <<at, arm, node, waiting>> /\ pc \in [Threads -> PCs]
      /\ L \in [Chans -> Seq(Nodes)]
  BY DEF Link, TInv, Types, Lists
<1>2. Chan(t)' = c /\ pc'[t] = "signal"
  BY <1>0, <1>1 DEF Chan
<1>3. \A u \in Threads \ {t} : \A d : u \in Coming(d) <=> u \in Coming(d)'
  BY <1>1, ComingOthers
<1>4. t \in Coming(c)' /\ \A d : t \notin Coming(d)
  BY <1>1, <1>2 DEF Coming, Comes
<1>5. \A d : Coming(d) \subseteq Coming(d)'
  <2> SUFFICES ASSUME NEW d, NEW u \in Coming(d) PROVE u \in Coming(d)'
    OBVIOUS
  <2>1. u \in Threads \ {t}
    BY <1>4 DEF Coming
  <2> QED BY <1>3, <2>1
<1>6. Len(M[c]) <= Len(L[c]) + 1
  <2>1. node[t] \in Nodes
    <3>1. HasNode(t)
      BY <1>1 DEF HasNode
    <3> QED BY <3>1 DEF TInv, Types, ThreadOK, Pointer
  <2>2. L[c] \in Seq(Nodes)
    BY <1>1
  <2>3. Len(Append(L[c], node[t])) = Len(L[c]) + 1 /\ Len(L[c]) \in Nat
    BY <2>1, <2>2, AppendFacts
  <2> QED BY <1>0, <1>1, <2>3
<1>7. \A d \in Chans : d # c => Len(M[d]) <= Len(L[d])
  BY <1>0, <1>1
<1>8. \E x : x \notin Coming(c) /\ Coming(c) \cup {x} \subseteq Coming(c)'
  <2>1. t \notin Coming(c) /\ Coming(c) \cup {t} \subseteq Coming(c)'
    BY <1>4, <1>5
  <2> QED BY <2>1
<1>9. \A d \in Chans : waiting'[d] # {} =>
        /\ waiting[d] # {}
        /\ \/ Len(M[d]) <= Len(L[d]) /\ Coming(d) \subseteq Coming(d)'
           \/ /\ Len(M[d]) <= Len(L[d]) + 1
              /\ \E x : x \notin Coming(d) /\ Coming(d) \cup {x} \subseteq Coming(d)'
  BY <1>1, <1>5, <1>6, <1>7, <1>8
<1> QED BY <1>1, <1>9, WakesStep

(* Who takes a message was coming for it, or polls. *)
LEMMA TakeWakes ==
  ASSUME TInv, NEW L, Lists(L), Wakes(L), NEW t \in Threads, script' = script, Take(t),
         NEW M, M = [L EXCEPT ![Chan(t)] = Tail(L[Chan(t)])], M \in [Chans -> Seq(Nodes)]
  PROVE  Wakes(M)'
<1>0. PICK c \in Chans : c = Chan(t)
  BY InCall DEF Take
<1>1. /\ pc[t] = "locked" /\ pc' = [pc EXCEPT ![t] = "unlock"] /\ head[c] # Null
      /\ UNCHANGED <<at, arm, node, waiting>> /\ pc \in [Threads -> PCs]
      /\ L \in [Chans -> Seq(Nodes)]
  BY <1>0 DEF Take, TInv, Types, Lists
<1>3. \A u \in Threads \ {t} : \A d : u \in Coming(d) <=> u \in Coming(d)'
  BY <1>1, ComingOthers
<1>4. \A d : d # c => t \notin Coming(d)
  BY <1>0 DEF Coming
<1>5. \A d : d # c => Coming(d) \subseteq Coming(d)'
  BY <1>3, <1>4 DEF Coming
<1>6. Coming(c) \ {t} \subseteq Coming(c)'
  BY <1>3 DEF Coming
<1>7. Len(M[c]) + 1 <= Len(L[c])
  <2>1. L[c] \in Seq(Nodes) /\ Len(L[c]) # 0
    BY <1>1, HeadOfList
  <2>2. Len(Tail(L[c])) = Len(L[c]) - 1 /\ Len(L[c]) \in Nat
    BY <2>1, TailFacts
  <2>3. M[c] = Tail(L[c])
    BY <1>0, <1>1
  <2>4. \A k \in Nat : (k - 1) + 1 <= k
    OBVIOUS
  <2> QED BY <2>2, <2>3, <2>4, Zenon
<1>8. \A d \in Chans : d # c => Len(M[d]) <= Len(L[d])
  BY <1>0, <1>1
<1>9. \A d \in Chans : waiting'[d] # {} =>
        /\ waiting[d] # {}
        /\ \/ Len(M[d]) <= Len(L[d]) /\ Coming(d) \subseteq Coming(d)'
           \/ /\ Len(M[d]) + 1 <= Len(L[d])
              /\ \E x : Coming(d) \ {x} \subseteq Coming(d)'
  BY <1>1, <1>5, <1>6, <1>7, <1>8
<1> QED BY <1>1, <1>9, WakesStep

-----------------------------------------------------------------------------
(* The inductive invariant: there are such lists, and every message of a   *)
(* channel that somebody sleeps on is come for.                            *)
LInv(L) == Lists(L) /\ Carried(L) /\ Wakes(L)
CInv == TInv /\ got \in [Threads -> Seq(Values)] /\ \E L : LInv(L)

(* It holds of the new channels, all empty. *)
LEMMA InitCInv == Init => CInv
<1> SUFFICES ASSUME Init PROVE CInv
  OBVIOUS
<1>1. TInv
  BY InitTInv
<1>2. PICK L : L = [c \in Chans |-> << >>]
  OBVIOUS
<1>3. L \in [Chans -> Seq(Nodes)] /\ \A c \in Chans : L[c] = << >> /\ Len(L[c]) = 0
  BY <1>2
<1>4. Lists(L)
  BY <1>3 DEF Lists, Init
<1>5. \A t \in Threads : ~Carries(t)
  BY DEF Init, Carries, Start
<1>6. Carried(L)
  BY <1>5 DEF Carried, Init
<1>7. Wakes(L)
  BY DEF Wakes, Init
<1>8. got \in [Threads -> Seq(Values)]
  BY DEF Init
<1> QED BY <1>1, <1>4, <1>6, <1>7, <1>8 DEF CInv, LInv

(* The allocation puts nobody to sleep. *)
LEMMA MallocWakes ==
  ASSUME TInv, NEW L, Lists(L), Wakes(L), NEW t \in Threads, script' = script, Malloc(t)
  PROVE  Wakes(L)'
<1>1. /\ pc[t] = "begin" /\ pc' = [pc EXCEPT ![t] = "lock"]
      /\ UNCHANGED <<at, arm, waiting>> /\ pc \in [Threads -> PCs]
      /\ L \in [Chans -> Seq(Nodes)]
  BY DEF Malloc, TInv, Types, Lists
<1>2. ~Comes(t)
  BY <1>1 DEF Comes
<1> QED BY <1>1, <1>2, WakesKept

(* What each step of a thread makes of the lists. *)
LEMMA StepLists ==
  ASSUME TInv, NEW L, LInv(L), NEW t \in Threads, script' = script, Step(t) \/ Spurious(t)
  PROVE  \/ (Malloc(t) \/ Quiet(t)) /\ LInv(L)'
         \/ /\ Link(t)
            /\ \E M : M = [L EXCEPT ![Chan(t)] = Append(L[Chan(t)], node[t])] /\ LInv(M)'
         \/ /\ Take(t)
            /\ \E M : M = [L EXCEPT ![Chan(t)] = Tail(L[Chan(t)])] /\ LInv(M)'
<1>1. Lists(L) /\ Carried(L) /\ Wakes(L)
  BY DEF LInv
<1>2. CASE Malloc(t)
  BY <1>1, <1>2, MallocLists, MallocWakes DEF LInv
<1>3. CASE Quiet(t)
  BY <1>1, <1>3, QuietLists, QuietWakes DEF LInv
<1>4. CASE Link(t)
  <2>1. PICK M : M = [L EXCEPT ![Chan(t)] = Append(L[Chan(t)], node[t])]
    OBVIOUS
  <2>2. Lists(M)' /\ Carried(M)'
    BY <1>1, <1>4, <2>1, LinkLists
  <2>3. M \in [Chans -> Seq(Nodes)]
    BY <2>2 DEF Lists
  <2>4. Wakes(M)'
    BY <1>1, <1>4, <2>1, <2>3, LinkWakes
  <2> QED BY <1>4, <2>1, <2>2, <2>4 DEF LInv
<1>5. CASE Take(t)
  <2>1. PICK M : M = [L EXCEPT ![Chan(t)] = Tail(L[Chan(t)])]
    OBVIOUS
  <2>2. Lists(M)' /\ Carried(M)'
    BY <1>1, <1>5, <2>1, TakeLists
  <2>3. M \in [Chans -> Seq(Nodes)]
    BY <2>2 DEF Lists
  <2>4. Wakes(M)'
    BY <1>1, <1>5, <2>1, <2>3, TakeWakes
  <2> QED BY <1>5, <2>1, <2>2, <2>4 DEF LInv
<1> QED BY <1>2, <1>3, <1>4, <1>5 DEF Step, Quiet

(* Received messages are messages. *)
LEMMA GotStep ==
  ASSUME TInv, got \in [Threads -> Seq(Values)], NEW L, LInv(L), NEW t \in Threads,
         script' = script, Step(t) \/ Spurious(t)
  PROVE  got' \in [Threads -> Seq(Values)]
<1>1. CASE Take(t)
  <2>1. PICK c \in Chans : c = Chan(t)
    BY <1>1, InCall DEF Take
  <2>2. head[c] # Null /\ got' = [got EXCEPT ![t] = Append(@, value[head[c]])]
    BY <1>1, <2>1 DEF Take
  <2>3. Lists(L)
    BY DEF LInv
  <2>4. head[c] = L[c][1] /\ Len(L[c]) # 0 /\ Len(L[c]) \in Nat
    BY <2>2, <2>3, HeadOfList
  <2>5. 1 \in 1 .. Len(L[c])
    BY <2>4
  <2>6. value[L[c][1]] \in Values
    BY <2>3, <2>5 DEF Lists
  <2>7. Append(got[t], value[head[c]]) \in Seq(Values)
    BY <2>4, <2>6
  <2> QED BY <2>2, <2>7
<1>2. CASE ~Take(t)
  <2>1. got' = got
    BY <1>2 DEF Step, Malloc, Lock, Link, Signal, Wait, Spurious, Miss, Unlock, UnlockMissed
  <2> QED BY <2>1
<1> QED BY <1>1, <1>2

(* And every step keeps it. *)
LEMMA NextCInv == CInv /\ [Next]_vars => CInv'
<1> SUFFICES ASSUME CInv, [Next]_vars PROVE CInv'
  OBVIOUS
<1>1. TInv /\ TInv' /\ got \in [Threads -> Seq(Values)]
  BY NextTInv DEF CInv
<1>2. PICK L : LInv(L)
  BY DEF CInv
<1>3. ASSUME NEW t \in Threads, script' = script, Step(t) \/ Spurious(t)
      PROVE  CInv'
  <2>1. got' \in [Threads -> Seq(Values)]
    BY <1>1, <1>2, <1>3, GotStep
  <2>2. \E M : LInv(M)'
    BY <1>1, <1>2, <1>3, StepLists
  <2> QED BY <1>1, <2>1, <2>2 DEF CInv
<1>4. CASE UNCHANGED vars
  <2>1. \A u \in Threads : /\ Carries(u)' <=> Carries(u)
                           /\ Carries(u) => node'[u] = node[u] /\ at'[u] = at[u]
    BY <1>4 DEF vars, Carries, Op
  <2>2. Lists(L)' /\ Carried(L)'
    BY <1>2, <1>4, <2>1, ListsKept DEF vars, LInv
  <2>3. Wakes(L)'
    BY <1>2, <1>4 DEF vars, LInv, Wakes, Coming, Comes, Op, Chan
  <2> QED BY <1>1, <1>4, <2>2, <2>3 DEF vars, CInv, LInv
<1> QED BY <1>3, <1>4 DEF Next, Finished

-----------------------------------------------------------------------------
(* A list has no node twice, so it is no longer than there are nodes. *)
LEMMA ListFits ==
  ASSUME NEW L, Lists(L), NEW c \in Chans
  PROVE  /\ Cardinality(Nodes) \in Nat /\ Len(L[c]) \in Nat
         /\ Len(L[c]) <= Cardinality(Nodes)
         /\ \A i \in 1 .. Len(L[c]) : L[c][i] \in Nodes
         /\ \A i, j \in 1 .. Len(L[c]) : L[c][i] = L[c][j] => i = j
<1>1. /\ L[c] \in Seq(Nodes) /\ Len(L[c]) \in Nat /\ L[c] \in [1 .. Len(L[c]) -> Nodes]
      /\ \A i, j \in 1 .. Len(L[c]) : L[c][i] = L[c][j] => i = j
  <2>1. L[c] \in Seq(Nodes)
    BY DEF Lists
  <2>2. L[c] \in [1 .. Len(L[c]) -> Nodes] /\ Len(L[c]) \in Nat
    BY <2>1
  <2>3. \A i, j \in 1 .. Len(L[c]) : L[c][i] = L[c][j] => i = j
    BY DEF Lists
  <2> QED BY <2>1, <2>2, <2>3
<1>2. L[c] \in Injection(1 .. Len(L[c]), Nodes)
  BY <1>1, Fun_IsInj
<1>3. IsFiniteSet(Nodes)
  BY ChannelAssumption
<1>4. Cardinality(1 .. Len(L[c])) <= Cardinality(Nodes)
  BY <1>2, <1>3, FS_Injection
<1>5. Cardinality(1 .. Len(L[c])) = Len(L[c])
  BY <1>1, FS_Interval
<1>6. Cardinality(Nodes) \in Nat
  BY <1>3, FS_CardinalityType
<1> QED BY <1>1, <1>4, <1>5, <1>6

(* Following the pointers from head runs through the list and stops.       *)
LEMMA WalkIsList ==
  ASSUME TInv, NEW L, Lists(L), NEW c \in Chans
  PROVE  Walk(c) = [i \in 0 .. Cardinality(Nodes) |->
                       IF i < Len(L[c]) THEN L[c][i + 1] ELSE Null]
<1> DEFINE N == Cardinality(Nodes)
           k == Len(L[c])
           W == [i \in 0 .. N |-> IF i < k THEN L[c][i + 1] ELSE Null]
           G(w) == [i \in 0 .. N |-> IF i = 0 THEN head[c]
                                     ELSE IF w[i - 1] = Null THEN Null ELSE next[w[i - 1]]]
<1>1. /\ N \in Nat /\ k \in Nat /\ k <= N
      /\ \A i \in 1 .. k : L[c][i] \in Nodes /\ L[c][i] # Null
      /\ head[c] = IF k = 0 THEN Null ELSE L[c][1]
      /\ \A i \in 1 .. k : next[L[c][i]] = IF i < k THEN L[c][i + 1] ELSE Null
  <2>1. N \in Nat /\ k \in Nat /\ k <= N /\ \A i \in 1 .. k : L[c][i] \in Nodes
    BY ListFits
  <2>2. Null \notin Nodes
    BY ChannelAssumption
  <2> QED BY <2>1, <2>2 DEF Lists
<1> HIDE DEF N, k
<1>2. ASSUME NEW i \in 0 .. N PROVE W[i] = G(W)[i]
  <2>1. CASE i = 0
    BY <1>1, <2>1
  <2>2. CASE i # 0
    <3>1. i - 1 \in 0 .. N /\ i \in Nat
      BY <1>1, <2>2
    <3>2. CASE i - 1 < k
      <4>1. i \in 1 .. k /\ (i - 1) + 1 = i
        BY <1>1, <2>2, <3>1, <3>2
      <4>2. W[i - 1] = L[c][i] /\ W[i - 1] # Null
        BY <1>1, <3>1, <3>2, <4>1
      <4>3. next[L[c][i]] = IF i < k THEN L[c][i + 1] ELSE Null
        BY <1>1, <4>1
      <4> QED BY <2>2, <4>2, <4>3
    <3>3. CASE ~(i - 1 < k)
      <4>1. ~(i < k)
        BY <1>1, <3>1, <3>3
      <4>2. W[i - 1] = Null
        BY <3>1, <3>3
      <4> QED BY <2>2, <4>1, <4>2
    <3> QED BY <3>2, <3>3
  <2> QED BY <2>1, <2>2
<1>3. W = G(W)
  BY <1>2
<1>4. Walk(c) = G(Walk(c))
  BY <1>3 DEF Walk, N
<1> DEFINE V == Walk(c)
           Bad == {i \in 0 .. N : V[i] # W[i]}
<1> HIDE DEF V
<1>5. V = G(V)
  BY <1>4 DEF V
<1>6. Bad = {}
  <2> SUFFICES ASSUME Bad # {} PROVE FALSE
    OBVIOUS
  <2>1. Bad \in SUBSET Nat
    BY <1>1
  <2>2. PICK m \in Bad : \A x \in Bad : m <= x
    BY <2>1, LeastElement
  <2>3. m \in 0 .. N /\ V[m] # W[m] /\ V[m] = G(V)[m] /\ W[m] = G(W)[m]
    BY <1>2, <1>5
  <2>4. m # 0
    BY <2>3
  <2>5. m - 1 \in 0 .. N /\ m - 1 \notin Bad
    BY <1>1, <2>2, <2>3, <2>4
  <2>6. V[m - 1] = W[m - 1]
    BY <2>5
  <2>7. G(V)[m] = G(W)[m]
    BY <2>3, <2>4, <2>6
  <2> QED BY <2>3, <2>7
<1>7. V = W
  BY <1>5, <1>6
<1> QED BY <1>7 DEF V, N, k

(* What the walk sees of a channel: its nodes, how many, and their values. *)
LEMMA ContentOfList ==
  ASSUME TInv, NEW L, Lists(L), NEW c \in Chans
  PROVE  /\ ListNodes(c) = {L[c][i] : i \in 1 .. Len(L[c])}
         /\ Size(c) = Len(L[c])
         /\ Content(c) = [i \in 1 .. Len(L[c]) |-> value[L[c][i]]]
<1> DEFINE N == Cardinality(Nodes)
           k == Len(L[c])
           s == L[c]
<1>1. /\ N \in Nat /\ k \in Nat /\ k <= N
      /\ \A i \in 1 .. k : s[i] \in Nodes
      /\ \A i, j \in 1 .. k : s[i] = s[j] => i = j
  BY ListFits
<1>2. Walk(c) = [i \in 0 .. N |-> IF i < k THEN s[i + 1] ELSE Null]
  BY WalkIsList
<1> HIDE DEF N, k, s
<1>3. Null \notin Nodes
  BY ChannelAssumption
<1>4. \A i \in 1 .. k : i - 1 \in 0 .. N /\ Walk(c)[i - 1] = s[i] /\ s[i] # Null
  <2> SUFFICES ASSUME NEW i \in 1 .. k
               PROVE  i - 1 \in 0 .. N /\ Walk(c)[i - 1] = s[i] /\ s[i] # Null
    OBVIOUS
  <2>1. i - 1 \in 0 .. N /\ i - 1 < k /\ (i - 1) + 1 = i
    BY <1>1
  <2> QED BY <1>1, <1>2, <1>3, <2>1
<1>5. \A i \in 0 .. N : Walk(c)[i] # Null => i + 1 \in 1 .. k /\ Walk(c)[i] = s[i + 1]
  BY <1>1, <1>2
<1>6. ListNodes(c) = {s[i] : i \in 1 .. k}
  <2>1. ASSUME NEW x \in ListNodes(c) PROVE x \in {s[i] : i \in 1 .. k}
    <3>1. PICK i \in 0 .. N : x = Walk(c)[i] /\ x # Null
      BY <2>1 DEF ListNodes, N
    <3> QED BY <1>5, <3>1
  <2>2. ASSUME NEW i \in 1 .. k PROVE s[i] \in ListNodes(c)
    <3>1. i - 1 \in 0 .. N /\ Walk(c)[i - 1] = s[i] /\ s[i] # Null
      BY <1>4
    <3> QED BY <3>1 DEF ListNodes, N
  <2> QED BY <2>1, <2>2
<1>7. Size(c) = k
  <2> DEFINE R == {s[i] : i \in 1 .. k}
             f == [i \in 1 .. k |-> s[i]]
  <2>1. f \in [1 .. k -> R] /\ \A a, b \in 1 .. k : f[a] = f[b] => a = b
    BY <1>1
  <2>2. \A x \in R : \E a \in 1 .. k : f[a] = x
    OBVIOUS
  <2>3. IsFiniteSet(1 .. k) /\ Cardinality(1 .. k) = k
    BY <1>1, FS_Interval
  <2> HIDE DEF R, f
  <2>4. Cardinality(R) = Cardinality(1 .. k)
    BY <2>1, <2>2, <2>3, OneToOneCount
  <2>5. ListNodes(c) = R
    BY <1>6 DEF R
  <2> QED BY <2>3, <2>4, <2>5 DEF Size
<1>8. Content(c) = [i \in 1 .. k |-> value[s[i]]]
  BY <1>4, <1>7 DEF Content
<1> QED BY <1>6, <1>7, <1>8 DEF k, s

(* Who holds a node that is in no list: HeapExact's unlinked threads.      *)
LEMMA UnlinkedCarry ==
  ASSUME TInv
  PROVE  {t \in Threads : pc[t] = "lock" /\ node[t] # Null}
           \cup {t \in Threads : pc[t] = "locked" /\ Op(t) = "send"}
         = {t \in Threads : Carries(t)}
BY DEF TInv, ThreadOK, HasNode, Carries

(* The pointers of all channels describe disjoint, well-formed lists: the  *)
(* messages that are linked, and no node leaks, is freed in a list or is   *)
(* in two places, for any number of threads, channels and messages.        *)
LEMMA ListsAreSound == CInv => ChannelsSound
<1> SUFFICES ASSUME CInv PROVE ChannelsSound
  OBVIOUS
<1>1. TInv /\ got \in [Threads -> Seq(Values)]
  BY DEF CInv
<1>2. PICK L : LInv(L)
  BY DEF CInv
<1>3. Lists(L) /\ Carried(L)
  BY <1>2 DEF LInv
<1>4. TypeOK
  BY <1>1 DEF TypeOK, TInv, Types, PCs
<1>5. \A c \in Chans : /\ ListNodes(c) = {L[c][i] : i \in 1 .. Len(L[c])}
                       /\ Size(c) = Len(L[c])
  BY <1>1, <1>3, ContentOfList
<1>6. ListSound
  <2> SUFFICES ASSUME NEW c \in Chans
               PROVE  /\ ListNodes(c) \subseteq heap
                      /\ Walk(c)[Size(c)] = Null
                      /\ tail[c] = IF Size(c) = 0 THEN Null ELSE Walk(c)[Size(c) - 1]
    BY DEF ListSound
  <2> DEFINE k == Len(L[c])
  <2>1. k \in Nat /\ k <= Cardinality(Nodes) /\ Cardinality(Nodes) \in Nat
    BY <1>3, ListFits
  <2>2. Walk(c) = [i \in 0 .. Cardinality(Nodes) |-> IF i < k THEN L[c][i + 1] ELSE Null]
    BY <1>1, <1>3, WalkIsList
  <2>3. tail[c] = IF k = 0 THEN Null ELSE L[c][k]
    BY <1>3 DEF Lists
  <2>4. ListNodes(c) \subseteq heap
    BY <1>3, <1>5 DEF Lists
  <2>5. Size(c) = k
    BY <1>5
  <2> HIDE DEF k
  <2>6. Walk(c)[k] = Null
    BY <2>1, <2>2
  <2>7. k # 0 => Walk(c)[k - 1] = L[c][k]
    <3> SUFFICES ASSUME k # 0 PROVE Walk(c)[k - 1] = L[c][k]
      OBVIOUS
    <3>1. k - 1 \in 0 .. Cardinality(Nodes) /\ k - 1 < k /\ (k - 1) + 1 = k
      BY <2>1
    <3> QED BY <2>2, <3>1
  <2> QED BY <2>3, <2>4, <2>5, <2>6, <2>7
<1>7. HeapExact
  <2>1. heap = (UNION {ListNodes(c) : c \in Chans}) \cup {node[t] : t \in {u \in Threads : Carries(u)}}
    <3>1. ASSUME NEW n \in heap
          PROVE  n \in (UNION {ListNodes(c) : c \in Chans})
                       \cup {node[t] : t \in {u \in Threads : Carries(u)}}
      <4>1. CASE \E c \in Chans : \E i \in 1 .. Len(L[c]) : n = L[c][i]
        BY <1>5, <4>1
      <4>2. CASE \E t \in Threads : Carries(t) /\ n = node[t]
        BY <4>2
      <4> QED BY <1>3, <4>1, <4>2 DEF Carried
    <3>2. \A c \in Chans : ListNodes(c) \subseteq heap
      BY <1>3, <1>5 DEF Lists
    <3>3. \A t \in Threads : Carries(t) => node[t] \in heap
      BY <1>3 DEF Carried
    <3> QED BY <3>1, <3>2, <3>3
  <2>2. ASSUME NEW c \in Chans, NEW d \in Chans, c # d
        PROVE  ListNodes(c) \cap ListNodes(d) = {}
    BY <1>3, <1>5, <2>2 DEF Lists
  <2>3. \A t, u \in {x \in Threads : Carries(x)} : node[t] = node[u] => t = u
    BY <1>3 DEF Carried
  <2> QED BY <1>1, <2>1, <2>2, <2>3, UnlinkedCarry DEF HeapExact
<1> QED BY <1>4, <1>6, <1>7 DEF ChannelsSound

(* While a thread sleeps in recv no message of its channel is forgotten.   *)
LEMMA SleepersAreWoken == CInv => NoLostWakeup
<1> SUFFICES ASSUME CInv, NEW c \in Chans, waiting[c] # {}
             PROVE  Size(c) <= Cardinality({t \in Threads :
                          /\ pc[t] # "done" /\ Chan(t) = c
                          /\ pc[t] \in {"woken", "signal"}
                             \/ (pc[t] = "locked" /\ Op(t) = "recv")})
  BY DEF NoLostWakeup
<1>1. PICK L : LInv(L)
  BY DEF CInv
<1>2. Size(c) = Len(L[c])
  BY <1>1, ContentOfList DEF CInv, LInv
<1>3. Len(L[c]) <= Cardinality(Coming(c))
  BY <1>1 DEF LInv, Wakes
<1>4. Coming(c) = {t \in Threads :
                     /\ pc[t] # "done" /\ Chan(t) = c
                     /\ pc[t] \in {"woken", "signal"}
                        \/ (pc[t] = "locked" /\ Op(t) = "recv")}
  BY DEF Coming, Comes
<1> QED BY <1>2, <1>3, <1>4

(* Whatever program runs, every list is sound and the heap is exact.       *)
THEOREM ChannelsAreSound == Spec => []ChannelsSound
<1> QED BY InitCInv, NextCInv, ListsAreSound, PTL DEF Spec

(* No sleeping receiver is ever left with a message that nobody comes for. *)
THEOREM WakeupsAreNotLost == Spec => []NoLostWakeup
<1> QED BY InitCInv, NextCInv, SleepersAreWoken, PTL DEF Spec

-----------------------------------------------------------------------------
(* What a script sends in its first calls exists and grows call by call.   *)
LEMMA SendsExist ==
  ASSUME NEW s \in Seq(Call)
  PROVE  \E v : v = [i \in 0 .. Len(s) |->
                       IF i = 0 THEN << >>
                       ELSE IF s[i].op = "send" THEN Append(v[i - 1], s[i].val) ELSE v[i - 1]]
<1> DEFINE Is(v, n) == v = [i \in 0 .. n |->
                              IF i = 0 THEN << >>
                              ELSE IF s[i].op = "send" THEN Append(v[i - 1], s[i].val)
                                   ELSE v[i - 1]]
           Bad == {n \in Nat : ~ \E v : Is(v, n)}
<1>1. Len(s) \in Nat
  OBVIOUS
<1>2. Bad = {}
  <2> SUFFICES ASSUME Bad # {} PROVE FALSE
    OBVIOUS
  <2>1. Bad \in SUBSET Nat
    OBVIOUS
  <2> HIDE DEF Bad
  <2>2. PICK m \in Bad : \A x \in Bad : m <= x
    BY <2>1, LeastElement
  <2> USE DEF Bad
  <2>3. m \in Nat /\ ~ \E v : Is(v, m)
    BY <2>2
  <2>4. m # 0
    <3>1. Is([i \in 0 .. 0 |-> << >>], 0)
      OBVIOUS
    <3> QED BY <2>3, <3>1
  <2>5. m - 1 \in Nat /\ ~(m <= m - 1)
    BY <2>3, <2>4
  <2>6. PICK v : Is(v, m - 1)
    BY <2>2, <2>5
  <2> DEFINE x == IF s[m].op = "send" THEN Append(v[m - 1], s[m].val) ELSE v[m - 1]
             w == [i \in 0 .. m |-> IF i = m THEN x ELSE v[i]]
  <2>7. \A i \in 0 .. m : i # 0 => i - 1 \in 0 .. m - 1 /\ w[i - 1] = v[i - 1]
    BY <2>3
  <2>8. ASSUME NEW i \in 0 .. m
        PROVE  w[i] = IF i = 0 THEN << >>
                      ELSE IF s[i].op = "send" THEN Append(w[i - 1], s[i].val) ELSE w[i - 1]
    <3>1. CASE i = m
      BY <2>4, <2>7, <3>1
    <3>2. CASE i # m
      <4>1. i \in 0 .. m - 1
        BY <2>3, <3>2
      <4>2. v[i] = IF i = 0 THEN << >>
                   ELSE IF s[i].op = "send" THEN Append(v[i - 1], s[i].val) ELSE v[i - 1]
        BY <2>6, <4>1
      <4>3. w[i] = v[i]
        BY <3>2
      <4> QED BY <2>7, <4>2, <4>3
    <3> QED BY <3>1, <3>2
  <2> HIDE DEF x
  <2>9. Is(w, m)
    BY <2>8
  <2> QED BY <2>3, <2>9
<1>3. \E v : Is(v, Len(s))
  BY <1>1, <1>2
<1> QED BY <1>3

(* A send appends its value, another call appends nothing. *)
LEMMA SendsGrow ==
  ASSUME NEW s \in Seq(Call)
  PROVE  /\ SendsOf(s)[0] = << >>
         /\ \A i \in 1 .. Len(s) :
               SendsOf(s)[i] = IF s[i].op = "send" THEN Append(SendsOf(s)[i - 1], s[i].val)
                               ELSE SendsOf(s)[i - 1]
<1> DEFINE F(v) == [i \in 0 .. Len(s) |->
                       IF i = 0 THEN << >>
                       ELSE IF s[i].op = "send" THEN Append(v[i - 1], s[i].val) ELSE v[i - 1]]
<1>1. \E v : v = F(v)
  BY SendsExist
<1>2. SendsOf(s) = F(SendsOf(s))
  BY <1>1 DEF SendsOf
<1>3. PICK v : v = SendsOf(s)
  OBVIOUS
<1>4. v = F(v)
  BY <1>2, <1>3, Zenon
<1>5. \A i \in 0 .. Len(s) :
         v[i] = IF i = 0 THEN << >>
                ELSE IF s[i].op = "send" THEN Append(v[i - 1], s[i].val) ELSE v[i - 1]
  BY <1>4
<1>6. v[0] = << >>
  <2>1. Len(s) \in Nat
    OBVIOUS
  <2>2. 0 \in 0 .. Len(s)
    BY <2>1
  <2> QED BY <1>5, <2>2, Zenon
<1>7. ASSUME NEW i \in 1 .. Len(s)
      PROVE  v[i] = IF s[i].op = "send" THEN Append(v[i - 1], s[i].val) ELSE v[i - 1]
  <2>1. i \in 0 .. Len(s) /\ i # 0
    OBVIOUS
  <2> QED BY <1>5, <2>1, Zenon
<1> QED BY <1>3, <1>6, <1>7

(* The content of the channels is that of the lists, after a step too. *)
ContentsAre == \A L : Lists(L) => \A c \in Chans :
                  Content(c) = [i \in 1 .. Len(L[c]) |-> value[L[c][i]]]

(* The content of a channel is what its list holds. *)
LEMMA ContentNow == TInv => ContentsAre
BY ContentOfList DEF ContentsAre

(* The same in the state after a step. *)
LEMMA ContentThen ==
  ASSUME TInv', NEW M, Lists(M)'
  PROVE  \A c \in Chans : Content(c)' = [i \in 1 .. Len(M[c]) |-> value'[M[c][i]]]
<1>1. TInv' => ContentsAre'
  BY ContentNow, PTL
<1> QED BY <1>1 DEF ContentsAre

(* One more element at the end, one less at the front. *)
LEMMA AppendIs ==
  ASSUME NEW V, NEW k \in Nat, NEW f \in [1 .. k -> V], NEW g \in [1 .. k + 1 -> V],
         \A i \in 1 .. k : g[i] = f[i]
  PROVE  g = Append(f, g[k + 1])
<1>1. f \in Seq(V) /\ g \in Seq(V) /\ Len(f) = k /\ Len(g) = k + 1
  OBVIOUS
<1>2. g[k + 1] \in V
  OBVIOUS
<1> QED BY <1>1, <1>2

(* One element less at the front. *)
LEMMA TailIs ==
  ASSUME NEW V, NEW k \in Nat, NEW f \in [1 .. k + 1 -> V], NEW g \in [1 .. k -> V],
         \A i \in 1 .. k : g[i] = f[i + 1]
  PROVE  g = Tail(f) /\ f # << >> /\ Head(f) = f[1]
<1>1. f \in Seq(V) /\ g \in Seq(V) /\ Len(f) = k + 1 /\ Len(g) = k
  OBVIOUS
<1>2. f # << >>
  BY <1>1
<1> QED BY <1>1, <1>2

(* The same of the values of the nodes of a list. *)
LEMMA MapAppend ==
  ASSUME NEW V, NEW val \in [Nodes -> V], NEW s \in Seq(Nodes), NEW n \in Nodes,
         NEW r, r = Append(s, n)
  PROVE  [i \in 1 .. Len(r) |-> val[r[i]]]
           = Append([i \in 1 .. Len(s) |-> val[s[i]]], val[n])
<1>1. PICK k \in Nat : k = Len(s)
  OBVIOUS
<1>2. /\ Len(r) = k + 1 /\ \A i \in 1 .. k : r[i] = s[i] /\ s[i] \in Nodes
      /\ r[k + 1] = n /\ \A i \in 1 .. k + 1 : r[i] \in Nodes
  BY <1>1, AppendFacts
<1> DEFINE f == [i \in 1 .. k |-> val[s[i]]]
           g == [i \in 1 .. k + 1 |-> val[r[i]]]
<1>3. f \in [1 .. k -> V] /\ g \in [1 .. k + 1 -> V] /\ g[k + 1] = val[n]
  BY <1>2
<1>4. \A i \in 1 .. k : g[i] = f[i]
  BY <1>2
<1> HIDE DEF f, g
<1>5. g = Append(f, val[n])
  BY <1>3, <1>4, AppendIs
<1> QED BY <1>1, <1>2, <1>5 DEF f, g

(* The values of the nodes of a list that has lost its first node. *)
LEMMA MapTail ==
  ASSUME NEW V, NEW val \in [Nodes -> V], NEW s \in Seq(Nodes), Len(s) # 0,
         NEW r, r = Tail(s)
  PROVE  LET f == [i \in 1 .. Len(s) |-> val[s[i]]]
         IN  /\ [i \in 1 .. Len(r) |-> val[r[i]]] = Tail(f)
             /\ f # << >> /\ Head(f) = val[s[1]]
<1>0. PICK n \in Nat : n = Len(s)
  OBVIOUS
<1>1. PICK k \in Nat : n = k + 1
  <2>1. n - 1 \in Nat /\ n = (n - 1) + 1
    BY <1>0
  <2> QED BY <2>1
<1>2. /\ Len(r) = k /\ \A i \in 1 .. k : r[i] = s[i + 1]
      /\ \A i \in 1 .. k + 1 : s[i] \in Nodes
  <2>1. Len(r) = Len(s) - 1 /\ \A i \in 1 .. Len(s) - 1 : r[i] = s[i + 1]
    BY TailFacts
  <2>2. Len(s) - 1 = k /\ Len(s) = k + 1
    BY <1>0, <1>1
  <2>3. \A i \in 1 .. Len(s) : s[i] \in Nodes
    OBVIOUS
  <2> QED BY <2>1, <2>2, <2>3, Zenon
<1> DEFINE f == [i \in 1 .. k + 1 |-> val[s[i]]]
           g == [i \in 1 .. k |-> val[r[i]]]
<1>3. f \in [1 .. k + 1 -> V] /\ g \in [1 .. k -> V] /\ f[1] = val[s[1]]
  BY <1>2
<1>4. \A i \in 1 .. k : g[i] = f[i + 1]
  BY <1>2
<1> HIDE DEF f, g
<1>5. g = Tail(f) /\ f # << >> /\ Head(f) = val[s[1]]
  BY <1>3, <1>4, TailIs
<1> QED BY <1>0, <1>1, <1>2, <1>5 DEF f, g

(* What counts as sent after a step of t: the others' sends are theirs.    *)
LEMMA SentOthers ==
  ASSUME script' = script, NEW X,
         \A u \in Threads \ X : pc'[u] = pc[u] /\ at'[u] = at[u]
  PROVE  \A u \in Threads \ X : Sent(u)' = Sent(u)
BY DEF Sent

(* A thread in a call: its sends with and without this call. *)
LEMMA SentNow ==
  ASSUME TInv, NEW t \in Threads, pc[t] # "done"
  PROVE  SendsOf(script[t])[at[t]] =
           IF Op(t) = "send" THEN Append(SendsOf(script[t])[at[t] - 1], script[t][at[t]].val)
           ELSE SendsOf(script[t])[at[t] - 1]
<1>1. script[t] \in Seq(Call)
  BY ChannelAssumption DEF TInv, Types
<1>2. at[t] \in 1 .. Len(script[t])
  BY InCall
<1> QED BY <1>1, <1>2, SendsGrow DEF Op

(* A step that moves no pointer of a list sends nothing. *)
LEMMA QuietSent ==
  ASSUME TInv, NEW t \in Threads, script' = script, Malloc(t) \/ Quiet(t)
  PROVE  \A u \in Threads : Sent(u)' = Sent(u)
<1>1. /\ pc \in [Threads -> PCs] /\ at \in [Threads -> Nat \ {0}]
      /\ waiting \in [Chans -> SUBSET Threads] /\ ThreadOK(t)
  BY DEF TInv, Types
<1>2. CASE Malloc(t) \/ Lock(t) \/ Wait(t) \/ Spurious(t) \/ Miss(t)
  <2>1. /\ pc[t] \notin {"signal", "unlock"} /\ at' = at
        /\ \/ pc' = [pc EXCEPT ![t] = "lock"]
           \/ pc' = [pc EXCEPT ![t] = "locked"]
           \/ pc' = [pc EXCEPT ![t] = "waiting"]
           \/ pc' = [pc EXCEPT ![t] = "woken"]
           \/ pc' = [pc EXCEPT ![t] = "missed"]
    BY <1>2 DEF Malloc, Lock, Wait, Spurious, Miss
  <2>2. pc'[t] \notin {"signal", "unlock"} /\ \A u \in Threads \ {t} : pc'[u] = pc[u]
    BY <1>1, <2>1
  <2>3. Sent(t)' = Sent(t)
    BY <2>1, <2>2 DEF Sent
  <2>4. \A u \in Threads \ {t} : Sent(u)' = Sent(u)
    BY <2>1, <2>2, SentOthers
  <2> QED BY <2>3, <2>4
<1>3. CASE Signal(t)
  <2>1. PICK c \in Chans : c = Chan(t)
    BY <1>3, InCall DEF Signal
  <2>2. pc[t] = "signal" /\ at' = at
    BY <1>3 DEF Signal
  <2>3. CASE pc' = [pc EXCEPT ![t] = "unlock"]
    <3>1. pc'[t] = "unlock" /\ \A u \in Threads \ {t} : pc'[u] = pc[u]
      BY <1>1, <2>3
    <3>2. Sent(t)' = Sent(t)
      BY <2>2, <3>1 DEF Sent
    <3> QED BY <2>2, <3>1, <3>2, SentOthers
  <2>4. ASSUME NEW w \in waiting[c], pc' = [pc EXCEPT ![t] = "unlock", ![w] = "woken"]
        PROVE  \A u \in Threads : Sent(u)' = Sent(u)
    <3>1. pc[w] = "waiting" /\ w \in Threads /\ w # t
      BY <1>1, <2>2 DEF TInv, Sleepers
    <3>2. pc'[t] = "unlock" /\ pc'[w] = "woken" /\ \A u \in Threads \ {t, w} : pc'[u] = pc[u]
      BY <1>1, <2>4, <3>1
    <3>3. Sent(t)' = Sent(t) /\ Sent(w)' = Sent(w)
      BY <2>2, <3>1, <3>2 DEF Sent
    <3>4. \A u \in Threads \ {t, w} : Sent(u)' = Sent(u)
      BY <2>2, <3>2, SentOthers
    <3> QED BY <3>3, <3>4
  <2> QED BY <1>3, <2>1, <2>3, <2>4 DEF Signal
<1>4. CASE Unlock(t) \/ UnlockMissed(t)
  <2>1. /\ pc[t] \in {"unlock", "missed"}
        /\ Return(t) \/ (pc[t] = "missed" /\ at' = at /\ pc' = [pc EXCEPT ![t] = "lock"])
    BY <1>4 DEF Unlock, UnlockMissed
  <2>2. \A u \in Threads \ {t} : pc'[u] = pc[u] /\ at'[u] = at[u]
    BY <1>1, <2>1 DEF Return
  <2>3. CASE Return(t)
    <3>1. pc'[t] \in {"begin", "done"} /\ at'[t] = at[t] + 1 /\ at'[t] - 1 = at[t]
      BY <1>1, <2>3 DEF Return, Start
    <3>2. Sent(t)' = SendsOf(script[t])[at[t]]
      BY <3>1 DEF Sent
    <3>3. pc[t] = "missed" => Op(t) # "send"
      BY <1>1 DEF ThreadOK, Polling
    <3>4. Sent(t) = SendsOf(script[t])[at[t]]
      BY <2>1, <3>3, SentNow DEF Sent
    <3>5. \A u \in Threads \ {t} : Sent(u)' = Sent(u)
      BY <2>2, SentOthers
    <3> QED BY <3>2, <3>4, <3>5
  <2>4. CASE pc[t] = "missed" /\ at' = at /\ pc' = [pc EXCEPT ![t] = "lock"]
    <3>1. pc'[t] = "lock"
      BY <1>1, <2>4
    <3>2. Sent(t)' = Sent(t)
      BY <2>4, <3>1 DEF Sent
    <3> QED BY <2>2, <3>2, SentOthers
  <2> QED BY <2>1, <2>3, <2>4
<1> QED BY <1>2, <1>3, <1>4 DEF Quiet

(* How the lists change: one node more, or one less, on one channel. *)
Longer(L, M, c, n) == M[c] = Append(L[c], n) /\ \A d \in Chans : d # c => M[d] = L[d]
Shorter(L, M, c) == M[c] = Tail(L[c]) /\ \A d \in Chans : d # c => M[d] = L[d]

(* The contents before and after such a step. *)
LEMMA ContentLonger ==
  ASSUME TInv, TInv', NEW L, Lists(L), NEW M, Lists(M)', value' = value,
         NEW c \in Chans, NEW n \in Nodes, Longer(L, M, c, n)
  PROVE  /\ Content(c)' = Append(Content(c), value[n])
         /\ \A d \in Chans : d # c => Content(d)' = Content(d)
<1>1. \A d \in Chans : Content(d) = [i \in 1 .. Len(L[d]) |-> value[L[d][i]]]
  BY ContentNow DEF ContentsAre
<1>2. \A d \in Chans : Content(d)' = [i \in 1 .. Len(M[d]) |-> value'[M[d][i]]]
  BY ContentThen
<1>3. L[c] \in Seq(Nodes) /\ value \in [Nodes -> Values \cup {Null}]
  BY DEF Lists, TInv, Types
<1>4. [i \in 1 .. Len(M[c]) |-> value[M[c][i]]]
        = Append([i \in 1 .. Len(L[c]) |-> value[L[c][i]]], value[n])
  <2>1. M[c] = Append(L[c], n)
    BY DEF Longer
  <2> QED BY <1>3, <2>1, MapAppend
<1>5. Content(c)' = Append(Content(c), value[n])
  BY <1>1, <1>2, <1>4
<1>6. ASSUME NEW d \in Chans, d # c PROVE Content(d)' = Content(d)
  <2>1. M[d] = L[d]
    BY <1>6 DEF Longer
  <2>2. /\ Content(d) = [i \in 1 .. Len(L[d]) |-> value[L[d][i]]]
        /\ Content(d)' = [i \in 1 .. Len(M[d]) |-> value'[M[d][i]]]
    BY <1>1, <1>2
  <2> QED BY <2>1, <2>2
<1> QED BY <1>5, <1>6

(* A receive takes the first message of its channel and touches no other. *)
LEMMA ContentShorter ==
  ASSUME TInv, TInv', NEW L, Lists(L), NEW M, Lists(M)', value' = value,
         NEW c \in Chans, Len(L[c]) # 0, Shorter(L, M, c)
  PROVE  /\ Content(c) # << >> /\ Head(Content(c)) = value[L[c][1]]
         /\ Content(c)' = Tail(Content(c))
         /\ \A d \in Chans : d # c => Content(d)' = Content(d)
<1>1. \A d \in Chans : Content(d) = [i \in 1 .. Len(L[d]) |-> value[L[d][i]]]
  BY ContentNow DEF ContentsAre
<1>2. \A d \in Chans : Content(d)' = [i \in 1 .. Len(M[d]) |-> value'[M[d][i]]]
  BY ContentThen
<1>3. L[c] \in Seq(Nodes) /\ value \in [Nodes -> Values \cup {Null}]
  BY DEF Lists, TInv, Types
<1> DEFINE f == [i \in 1 .. Len(L[c]) |-> value[L[c][i]]]
<1>4. /\ [i \in 1 .. Len(M[c]) |-> value[M[c][i]]] = Tail(f)
      /\ f # << >> /\ Head(f) = value[L[c][1]]
  <2>1. M[c] = Tail(L[c])
    BY DEF Shorter
  <2> QED BY <1>3, <2>1, MapTail
<1>5. Content(c)' = Tail(Content(c)) /\ Content(c) # << >> /\ Head(Content(c)) = value[L[c][1]]
  BY <1>1, <1>2, <1>4
<1>6. ASSUME NEW d \in Chans, d # c PROVE Content(d)' = Content(d)
  <2>1. M[d] = L[d]
    BY <1>6 DEF Shorter
  <2>2. /\ Content(d) = [i \in 1 .. Len(L[d]) |-> value[L[d][i]]]
        /\ Content(d)' = [i \in 1 .. Len(M[d]) |-> value'[M[d][i]]]
    BY <1>1, <1>2
  <2> QED BY <2>1, <2>2
<1> QED BY <1>5, <1>6

(* tinox_channel_send under the lock is the abstract send. *)
LEMMA LinkSends ==
  ASSUME TInv, TInv', NEW L, LInv(L), NEW t \in Threads, script' = script, Link(t),
         NEW M, LInv(M)', NEW c \in Chans, c = Chan(t), Longer(L, M, c, node[t])
  PROVE  \E v \in Values : Abs!Send(t, c, v)
<1>2. PICK v : v = script[t][at[t]].val
  OBVIOUS
<1>3. /\ pc[t] = "locked" /\ Op(t) = "send" /\ pc' = [pc EXCEPT ![t] = "signal"]
      /\ UNCHANGED <<value, at, node, got>> /\ pc \in [Threads -> PCs]
  BY DEF Link, TInv, Types
<1>4. v \in Values /\ value[node[t]] = v /\ node[t] \in Nodes
  <2>1. Carries(t) /\ script[t][at[t]] \in Call
    BY <1>3, InCall DEF Carries
  <2> QED BY <1>2, <2>1 DEF LInv, Carried, Call, TInv, Types
<1>5. /\ Content(c)' = Append(Content(c), v)
      /\ \A d \in Chans : d # c => Content(d)' = Content(d)
  BY <1>3, <1>4, ContentLonger DEF LInv
<1>9. Sent(t)' = Append(Sent(t), v) /\ \A u \in Threads \ {t} : Sent(u)' = Sent(u)
  <2>1. pc'[t] = "signal" /\ \A u \in Threads \ {t} : pc'[u] = pc[u]
    BY <1>3
  <2>2. Sent(t)' = SendsOf(script[t])[at[t]]
    BY <1>3, <2>1 DEF Sent
  <2>3. Sent(t) = SendsOf(script[t])[at[t] - 1]
    BY <1>3 DEF Sent
  <2>4. Sent(t)' = Append(Sent(t), v)
    BY <1>2, <1>3, <2>2, <2>3, SentNow
  <2>5. \A u \in Threads \ {t} : Sent(u)' = Sent(u)
    BY <1>3, <2>1, SentOthers
  <2> QED BY <2>4, <2>5
<1> DEFINE q == [d \in Chans |-> Content(d)]
           sent == [u \in Threads |-> Sent(u)]
<1>10. [d \in Chans |-> Content(d)'] = [q EXCEPT ![c] = Append(q[c], v)]
  BY <1>5
<1>11. [u \in Threads |-> Sent(u)'] = [sent EXCEPT ![t] = Append(sent[t], v)]
  BY <1>9
<1>12. Abs!Send(t, c, v)
  BY <1>3, <1>10, <1>11 DEF Abs!Send
<1> QED BY <1>4, <1>12

(* tinox_channel_recv of a message is the abstract receive. *)
LEMMA TakeReceives ==
  ASSUME TInv, TInv', got \in [Threads -> Seq(Values)], NEW L, LInv(L), NEW t \in Threads,
         script' = script, Take(t),
         NEW M, LInv(M)', NEW c \in Chans, c = Chan(t), Shorter(L, M, c)
  PROVE  Abs!Recv(t, c)
<1>1. /\ pc[t] = "locked" /\ Op(t) # "send" /\ pc' = [pc EXCEPT ![t] = "unlock"]
      /\ UNCHANGED <<value, at>> /\ pc \in [Threads -> PCs] /\ head[c] # Null
      /\ got' = [got EXCEPT ![t] = Append(got[t], value[head[c]])]
  BY DEF Take, Receives, TInv, Types
<1>2. Lists(L) /\ Lists(M)'
  BY DEF LInv
<1>3. Len(L[c]) # 0 /\ head[c] = L[c][1]
  BY <1>1, <1>2, HeadOfList
<1>4. /\ Content(c) # << >> /\ Head(Content(c)) = value[L[c][1]]
      /\ Content(c)' = Tail(Content(c))
      /\ \A d \in Chans : d # c => Content(d)' = Content(d)
  BY <1>1, <1>2, <1>3, ContentShorter
<1>5. \A u \in Threads : Sent(u)' = Sent(u)
  <2>1. pc'[t] = "unlock" /\ \A u \in Threads \ {t} : pc'[u] = pc[u]
    BY <1>1
  <2>2. Sent(t)' = SendsOf(script[t])[at[t]]
    BY <1>1, <2>1 DEF Sent
  <2>3. Sent(t) = SendsOf(script[t])[at[t] - 1]
    BY <1>1 DEF Sent
  <2>4. Sent(t)' = Sent(t)
    BY <1>1, <2>2, <2>3, SentNow
  <2>5. \A u \in Threads \ {t} : Sent(u)' = Sent(u)
    BY <1>1, <2>1, SentOthers
  <2> QED BY <2>4, <2>5
<1> DEFINE q == [d \in Chans |-> Content(d)]
           sent == [u \in Threads |-> Sent(u)]
<1>6. q[c] # << >> /\ [d \in Chans |-> Content(d)'] = [q EXCEPT ![c] = Tail(q[c])]
  BY <1>4
<1>7. [u \in Threads |-> Sent(u)'] = sent
  BY <1>5
<1>8. got' = [got EXCEPT ![t] = Append(got[t], Head(q[c]))]
  BY <1>1, <1>3, <1>4
<1> QED BY <1>6, <1>7, <1>8 DEF Abs!Recv

(* Every other step is a stutter of the queues. *)
LEMMA QuietStutters ==
  ASSUME TInv, TInv', NEW L, LInv(L), LInv(L)', NEW t \in Threads, script' = script,
         Malloc(t) \/ Quiet(t)
  PROVE  /\ \A c \in Chans : Content(c)' = Content(c)
         /\ \A u \in Threads : Sent(u)' = Sent(u)
         /\ got' = got
<1>1. Lists(L) /\ Lists(L)' /\ Carried(L)
  BY DEF LInv
<1>2. \A n \in heap : value'[n] = value[n]
  <2>1. CASE Malloc(t)
    <3>1. PICK n \in Nodes \ heap : value' = [value EXCEPT ![n] = script[t][at[t]].val]
      BY <2>1 DEF Malloc
    <3>2. value \in [Nodes -> Values \cup {Null}] /\ heap \subseteq Nodes
      BY DEF TInv, Types
    <3> QED BY <3>1, <3>2
  <2>2. CASE Quiet(t)
    <3>1. value' = value
      BY <1>1, <2>2, QuietLists
    <3> QED BY <3>1
  <2> QED BY <2>1, <2>2
<1>3. ASSUME NEW c \in Chans PROVE Content(c)' = Content(c)
  <2>1. Content(c) = [i \in 1 .. Len(L[c]) |-> value[L[c][i]]]
    BY <1>1, ContentNow DEF ContentsAre
  <2>2. Content(c)' = [i \in 1 .. Len(L[c]) |-> value'[L[c][i]]]
    BY <1>1, ContentThen
  <2>3. \A i \in 1 .. Len(L[c]) : value'[L[c][i]] = value[L[c][i]]
    BY <1>1, <1>2 DEF Lists
  <2> QED BY <2>1, <2>2, <2>3
<1>4. got' = got
  BY DEF Quiet, Malloc, Lock, Signal, Wait, Spurious, Miss, Unlock, UnlockMissed
<1> QED BY <1>3, <1>4, QuietSent

(* Every step of the threads is a send, a receive or a stutter of the queues. *)
LEMMA NextImplementsQueue == CInv /\ CInv' /\ [Next]_vars => [Abs!Next]_(Abs!vars)
<1> SUFFICES ASSUME CInv, CInv', [Next]_vars PROVE [Abs!Next]_(Abs!vars)
  OBVIOUS
<1>1. TInv /\ TInv' /\ got \in [Threads -> Seq(Values)]
  BY DEF CInv
<1>2. PICK L : LInv(L)
  BY DEF CInv
<1>3. ASSUME NEW t \in Threads, script' = script, Step(t) \/ Spurious(t)
      PROVE  [Abs!Next]_(Abs!vars)
  <2>1. CASE (Malloc(t) \/ Quiet(t)) /\ LInv(L)'
    <3>1. /\ \A c \in Chans : Content(c)' = Content(c)
          /\ \A u \in Threads : Sent(u)' = Sent(u)
          /\ got' = got
      BY <1>1, <1>2, <1>3, <2>1, QuietStutters
    <3> QED BY <3>1 DEF Abs!vars
  <2>2. CASE /\ Link(t)
             /\ \E M : M = [L EXCEPT ![Chan(t)] = Append(L[Chan(t)], node[t])] /\ LInv(M)'
    <3>1. PICK M : M = [L EXCEPT ![Chan(t)] = Append(L[Chan(t)], node[t])] /\ LInv(M)'
      BY <2>2
    <3>2. PICK c \in Chans : c = Chan(t)
      BY <1>1, <2>2, InCall DEF Link
    <3>3. Longer(L, M, c, node[t])
      BY <1>2, <3>1, <3>2 DEF Longer, LInv, Lists
    <3>4. \E v \in Values : Abs!Send(t, c, v)
      BY <1>1, <1>2, <1>3, <2>2, <3>1, <3>2, <3>3, LinkSends
    <3> QED BY <3>4 DEF Abs!Next
  <2>3. CASE /\ Take(t)
             /\ \E M : M = [L EXCEPT ![Chan(t)] = Tail(L[Chan(t)])] /\ LInv(M)'
    <3>1. PICK M : M = [L EXCEPT ![Chan(t)] = Tail(L[Chan(t)])] /\ LInv(M)'
      BY <2>3
    <3>2. PICK c \in Chans : c = Chan(t)
      BY <1>1, <2>3, InCall DEF Take
    <3>3. Shorter(L, M, c)
      BY <1>2, <3>1, <3>2 DEF Shorter, LInv, Lists
    <3>4. Abs!Recv(t, c)
      BY <1>1, <1>2, <1>3, <2>3, <3>1, <3>2, <3>3, TakeReceives
    <3> QED BY <3>4 DEF Abs!Next
  <2> QED BY <1>1, <1>2, <1>3, <2>1, <2>2, <2>3, StepLists
<1>4. CASE UNCHANGED vars
  <2>1. UNCHANGED <<script, head, value, next, pc, at, got>>
    BY <1>4 DEF vars
  <2>2. \A c \in Chans : Content(c)' = Content(c)
    BY <2>1 DEF Content, Size, ListNodes, Walk
  <2>3. \A u \in Threads : Sent(u)' = Sent(u)
    BY <2>1 DEF Sent
  <2> QED BY <2>1, <2>2, <2>3 DEF Abs!vars
<1> QED BY <1>3, <1>4 DEF Next, Finished

(* At the start the queues are empty and nobody has sent anything. *)
LEMMA InitImplementsQueue == Init => Abs!Init
<1> SUFFICES ASSUME Init PROVE Abs!Init
  OBVIOUS
<1>1. TInv
  BY InitTInv
<1>2. PICK L : L = [c \in Chans |-> << >>]
  OBVIOUS
<1>3. L \in [Chans -> Seq(Nodes)] /\ \A c \in Chans : L[c] = << >> /\ Len(L[c]) = 0
  BY <1>2
<1>4. Lists(L)
  BY <1>3 DEF Lists, Init
<1>5. ASSUME NEW c \in Chans PROVE Content(c) = << >>
  <2>1. Content(c) = [i \in 1 .. Len(L[c]) |-> value[L[c][i]]]
    BY <1>1, <1>4, ContentNow DEF ContentsAre
  <2>2. Content(c) = [i \in 1 .. 0 |-> value[L[c][i]]]
    BY <1>3, <2>1
  <2> QED BY <2>2
<1>6. ASSUME NEW t \in Threads PROVE Sent(t) = << >>
  <2>1. pc[t] \notin {"signal", "unlock"} /\ at[t] = 1 /\ script[t] \in Seq(Call)
    BY ChannelAssumption DEF Init, Start
  <2>2. Sent(t) = SendsOf(script[t])[0]
    BY <2>1 DEF Sent
  <2> QED BY <2>1, <2>2, SendsGrow
<1>7. got = [t \in Threads |-> << >>]
  BY DEF Init
<1> QED BY <1>5, <1>6, <1>7 DEF Abs!Init

(* For every program, the linked lists behind their mutexes behave as FIFO *)
(* queues: whatever the threads do, no message is lost, duplicated or      *)
(* reordered, and each is received once.                                   *)
THEOREM ChannelsImplementQueues == Spec => ImplementsQueue
<1> QED BY InitCInv, NextCInv, InitImplementsQueue, NextImplementsQueue, PTL
        DEF Spec, ImplementsQueue, Abs!Spec
=============================================================================
