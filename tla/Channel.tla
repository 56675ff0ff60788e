------------------------------ MODULE Channel ------------------------------
(***************************************************************************)
(* Channels between spawned threads (runtime/runtime.c, tinox_channel_*,   *)
(* and the code the compiler generates for select).  A channel is a linked *)
(* list of heap nodes with head and tail pointers, a mutex and a condition *)
(* variable.  Each thread runs a script of calls; every call is split at   *)
(* the points where another thread may run: the allocation of the node,    *)
(* the lock, the work under the lock, the signal, the unlock.              *)
(***************************************************************************)
EXTENDS Naturals, Sequences, FiniteSets

CONSTANTS
    Threads, Chans, Values,
    Nodes,        \* bound: the heap addresses a node may be allocated at
    Null,         \* the null pointer
    NoThread,     \* an unlocked mutex
    MaxSpurious,  \* bound: wake-ups of pthread_cond_wait without a signal
    Scripts       \* the programs: what each thread calls, in order

(* A call: ch is the channel, or for select the channels of its arms.      *)
Call == [op : {"send", "recv", "try", "select", "select_default"},
         ch : Seq(Chans), val : Values]

ASSUME ChannelAssumption ==
    /\ Null \notin Nodes
    /\ NoThread \notin Threads
    /\ IsFiniteSet(Threads) /\ IsFiniteSet(Nodes)
    /\ MaxSpurious \in Nat
    /\ \A s \in Scripts :
          /\ s \in [Threads -> Seq(Call)]
          /\ \A t \in Threads : \A i \in 1 .. Len(s[t]) : s[t][i].ch # << >>

VARIABLES
    script,                       \* the program that runs
    head, tail, mutex, waiting,   \* TinoxChannel; waiting: blocked in cond_wait
    heap, value, next,            \* allocated TinoxChannelNodes and their fields
    pc, at, arm, node,            \* per thread: step, script index, arm, new node
    got,                          \* per thread: the values received so far
    spurious                      \* spurious wake-ups so far

chan == <<head, tail>>
nodes == <<heap, value, next>>
vars == <<script, head, tail, mutex, waiting, heap, value, next, pc, at, arm, node,
          got, spurious>>

Op(t) == script[t][at[t]].op
Chan(t) == script[t][at[t]].ch[arm[t]]
Receives(t) == Op(t) # "send"

Start(t, i) == IF i > Len(script[t]) THEN "done" ELSE "begin"

(* tinox_channel_create, for every channel of the program. *)
Init ==
    /\ script \in Scripts
    /\ head = [c \in Chans |-> Null]
    /\ tail = [c \in Chans |-> Null]
    /\ mutex = [c \in Chans |-> NoThread]
    /\ waiting = [c \in Chans |-> {}]
    /\ heap = {}
    /\ value = [n \in Nodes |-> Null]
    /\ next = [n \in Nodes |-> Null]
    /\ pc = [t \in Threads |-> Start(t, 1)]
    /\ at = [t \in Threads |-> 1]
    /\ arm = [t \in Threads |-> 1]
    /\ node = [t \in Threads |-> Null]
    /\ got = [t \in Threads |-> << >>]
    /\ spurious = 0

-----------------------------------------------------------------------------
(* Mutant: the node is allocated but not filled. *)
MallocNoValue(t) ==
    /\ pc[t] = "begin" /\ Op(t) = "send"
    /\ \E n \in Nodes \ heap :
        /\ heap' = heap \cup {n}
        /\ node' = [node EXCEPT ![t] = n]
    /\ pc' = [pc EXCEPT ![t] = "lock"]
    /\ UNCHANGED <<chan, value, next, mutex, waiting, at, arm, got, spurious>>

(* tinox_channel_send before the lock: the node is allocated and filled.   *)
Malloc(t) ==
    /\ pc[t] = "begin" /\ Op(t) = "send"
    /\ \E n \in Nodes \ heap :
        /\ heap' = heap \cup {n}
        /\ value' = [value EXCEPT ![n] = script[t][at[t]].val]
        /\ next' = [next EXCEPT ![n] = Null]
        /\ node' = [node EXCEPT ![t] = n]
    /\ pc' = [pc EXCEPT ![t] = "lock"]
    /\ UNCHANGED <<chan, mutex, waiting, at, arm, got, spurious>>

(* pthread_mutex_lock, also the re-acquisition inside pthread_cond_wait.   *)
Lock(t) ==
    /\ pc[t] \in {"lock", "woken"} \/ (pc[t] = "begin" /\ Receives(t))
    /\ mutex[Chan(t)] = NoThread
    /\ mutex' = [mutex EXCEPT ![Chan(t)] = t]
    /\ pc' = [pc EXCEPT ![t] = "locked"]
    /\ UNCHANGED <<chan, waiting, nodes, at, arm, node, got, spurious>>

(* tinox_channel_send under the lock: the node becomes the tail.           *)
Link(t) ==
    /\ pc[t] = "locked" /\ Op(t) = "send"
    /\ LET c == Chan(t) IN
        /\ IF tail[c] # Null
           THEN next' = [next EXCEPT ![tail[c]] = node[t]] /\ UNCHANGED head
           ELSE head' = [head EXCEPT ![c] = node[t]] /\ UNCHANGED next
        /\ tail' = [tail EXCEPT ![c] = node[t]]
    /\ pc' = [pc EXCEPT ![t] = "signal"]
    /\ UNCHANGED <<mutex, waiting, heap, value, at, arm, node, got, spurious>>

(* Mutant: the signal is sent only when the queue was empty. *)
SignalIfFirst(t) ==
    /\ pc[t] = "signal"
    /\ LET c == Chan(t) IN
        \/ /\ waiting[c] = {} \/ head[c] # node[t]
           /\ UNCHANGED waiting
           /\ pc' = [pc EXCEPT ![t] = "unlock"]
        \/ \E w \in waiting[c] :
            /\ head[c] = node[t]
            /\ waiting' = [waiting EXCEPT ![c] = @ \ {w}]
            /\ pc' = [pc EXCEPT ![t] = "unlock", ![w] = "woken"]
    /\ node' = [node EXCEPT ![t] = Null]
    /\ UNCHANGED <<chan, mutex, nodes, at, arm, got, spurious>>

(* pthread_cond_signal: one waiting thread, if any, is woken.              *)
Signal(t) ==
    /\ pc[t] = "signal"
    /\ LET c == Chan(t) IN
        \/ /\ waiting[c] = {}
           /\ UNCHANGED waiting
           /\ pc' = [pc EXCEPT ![t] = "unlock"]
        \/ \E w \in waiting[c] :
            /\ waiting' = [waiting EXCEPT ![c] = @ \ {w}]
            /\ pc' = [pc EXCEPT ![t] = "unlock", ![w] = "woken"]
    /\ node' = [node EXCEPT ![t] = Null]
    /\ UNCHANGED <<chan, mutex, nodes, at, arm, got, spurious>>

(* tinox_channel_recv on an empty channel: pthread_cond_wait releases the  *)
(* mutex and blocks.  Once it has the mutex again the thread is back at    *)
(* the test of the while loop ("locked").                                  *)
Wait(t) ==
    /\ pc[t] = "locked" /\ Op(t) = "recv"
    /\ head[Chan(t)] = Null
    /\ waiting' = [waiting EXCEPT ![Chan(t)] = @ \cup {t}]
    /\ mutex' = [mutex EXCEPT ![Chan(t)] = NoThread]
    /\ pc' = [pc EXCEPT ![t] = "waiting"]
    /\ UNCHANGED <<chan, nodes, at, arm, node, got, spurious>>

(* pthread_cond_wait may also return without a signal. *)
Spurious(t) ==
    /\ pc[t] = "waiting"
    /\ spurious < MaxSpurious
    /\ spurious' = spurious + 1
    /\ waiting' = [waiting EXCEPT ![Chan(t)] = @ \ {t}]
    /\ pc' = [pc EXCEPT ![t] = "woken"]
    /\ UNCHANGED <<chan, mutex, nodes, at, arm, node, got>>

(* Mutant: the tail survives the removal of the last node. *)
TakeKeepsTail(t) ==
    /\ pc[t] = "locked" /\ Receives(t)
    /\ LET c == Chan(t)
           n == head[c]
       IN  /\ n # Null
           /\ head' = [head EXCEPT ![c] = next[n]]
           /\ got' = [got EXCEPT ![t] = Append(@, value[n])]
           /\ heap' = heap \ {n}
    /\ pc' = [pc EXCEPT ![t] = "unlock"]
    /\ UNCHANGED <<tail, mutex, waiting, value, next, at, arm, node, spurious>>

(* Mutant: the node is not freed. *)
TakeLeaks(t) ==
    /\ pc[t] = "locked" /\ Receives(t)
    /\ LET c == Chan(t)
           n == head[c]
       IN  /\ n # Null
           /\ head' = [head EXCEPT ![c] = next[n]]
           /\ tail' = IF next[n] = Null THEN [tail EXCEPT ![c] = Null] ELSE tail
           /\ got' = [got EXCEPT ![t] = Append(@, value[n])]
    /\ pc' = [pc EXCEPT ![t] = "unlock"]
    /\ UNCHANGED <<heap, mutex, waiting, value, next, at, arm, node, spurious>>

(* The common part of recv and try_recv: the head is unlinked and freed.   *)
Take(t) ==
    /\ pc[t] = "locked" /\ Receives(t)
    /\ LET c == Chan(t)
           n == head[c]
       IN  /\ n # Null
           /\ head' = [head EXCEPT ![c] = next[n]]
           /\ tail' = IF next[n] = Null THEN [tail EXCEPT ![c] = Null] ELSE tail
           /\ got' = [got EXCEPT ![t] = Append(@, value[n])]
           /\ heap' = heap \ {n}
    /\ pc' = [pc EXCEPT ![t] = "unlock"]
    /\ UNCHANGED <<mutex, waiting, value, next, at, arm, node, spurious>>

(* tinox_channel_try_recv on an empty channel. *)
Miss(t) ==
    /\ pc[t] = "locked" /\ Op(t) \in {"try", "select", "select_default"}
    /\ head[Chan(t)] = Null
    /\ pc' = [pc EXCEPT ![t] = "missed"]
    /\ UNCHANGED <<chan, mutex, waiting, nodes, at, arm, node, got, spurious>>

Release(t) == mutex' = [mutex EXCEPT ![Chan(t)] = NoThread]

(* The call returns and the thread goes on with its script. *)
Return(t) ==
    /\ at' = [at EXCEPT ![t] = @ + 1]
    /\ arm' = [arm EXCEPT ![t] = 1]
    /\ pc' = [pc EXCEPT ![t] = Start(t, at[t] + 1)]

Unlock(t) ==
    /\ pc[t] = "unlock"
    /\ Release(t)
    /\ Return(t)
    /\ UNCHANGED <<chan, waiting, nodes, node, got, spurious>>

(* try_recv answers 0; a select goes on to its next arm, after the last    *)
(* one to its default or, without one, yields and starts again.            *)
UnlockMissed(t) ==
    /\ pc[t] = "missed"
    /\ Release(t)
    /\ LET last == arm[t] = Len(script[t][at[t]].ch) IN
        \/ Op(t) = "try" /\ Return(t)
        \/ Op(t) = "select_default" /\ last /\ Return(t)
        \/ /\ Op(t) = "select" \/ (Op(t) = "select_default" /\ ~last)
           /\ arm' = [arm EXCEPT ![t] = IF last THEN 1 ELSE @ + 1]
           /\ pc' = [pc EXCEPT ![t] = "lock"]
           /\ UNCHANGED at
    /\ UNCHANGED <<chan, waiting, nodes, node, got, spurious>>

(* Every thread has returned: the program is over. *)
Finished ==
    /\ \A t \in Threads : pc[t] = "done"
    /\ UNCHANGED vars

(* The steps the scheduler owes a thread; a spurious wake-up is not one.   *)
Step(t) ==
    \/ Malloc(t) \/ Lock(t) \/ Link(t) \/ Signal(t)
    \/ Wait(t) \/ Take(t) \/ Miss(t) \/ Unlock(t) \/ UnlockMissed(t)

Next ==
    /\ UNCHANGED script
    /\ (\E t \in Threads : Step(t) \/ Spurious(t)) \/ Finished

Spec == Init /\ [][Next]_vars
FairSpec == Spec /\ \A t \in Threads : WF_vars(Step(t) /\ UNCHANGED script)

-----------------------------------------------------------------------------
Pointer == Nodes \cup {Null}

(* Pointers, owners and program counters stay in range. *)
TypeOK ==
    /\ head \in [Chans -> Pointer] /\ tail \in [Chans -> Pointer]
    /\ mutex \in [Chans -> Threads \cup {NoThread}]
    /\ waiting \in [Chans -> SUBSET Threads]
    /\ heap \subseteq Nodes
    /\ value \in [Nodes -> Values \cup {Null}]
    /\ next \in [Nodes -> Pointer]
    /\ pc \in [Threads -> {"begin", "lock", "locked", "signal", "waiting",
                           "woken", "missed", "unlock", "done"}]
    /\ node \in [Threads -> Pointer]
    /\ spurious \in 0 .. MaxSpurious
    /\ \A t \in Threads : got[t] \in Seq(Values)

(* The i-th pointer of a channel's list, Null past its end. *)
Walk(c) ==
    LET w[i \in 0 .. Cardinality(Nodes)] ==
            IF i = 0 THEN head[c]
            ELSE IF w[i - 1] = Null THEN Null ELSE next[w[i - 1]]
    IN  w

ListNodes(c) == {Walk(c)[i] : i \in 0 .. Cardinality(Nodes)} \ {Null}
Size(c) == Cardinality(ListNodes(c))
Content(c) == [i \in 1 .. Size(c) |-> value[Walk(c)[i - 1]]]

(* The list a channel's pointers describe is sound whenever nobody holds   *)
(* its mutex: it ends, tail is its last node, and none of its nodes has    *)
(* been freed (and reused for another message).                            *)
ListSound ==
    \A c \in Chans : mutex[c] = NoThread =>
        /\ ListNodes(c) \subseteq heap
        /\ Walk(c)[Size(c)] = Null
        /\ tail[c] = IF Size(c) = 0 THEN Null ELSE Walk(c)[Size(c) - 1]

(* No node leaks and none is in two places: what is allocated is in        *)
(* exactly one list or held by one sender that has not linked it yet.      *)
HeapExact ==
    LET unlinked == {t \in Threads : pc[t] = "lock" /\ node[t] # Null}
                    \cup {t \in Threads : pc[t] = "locked" /\ Op(t) = "send"}
    IN  /\ heap = (UNION {ListNodes(c) : c \in Chans}) \cup {node[t] : t \in unlinked}
        /\ \A c, d \in Chans : c # d => ListNodes(c) \cap ListNodes(d) = {}
        /\ \A t, u \in unlinked : node[t] = node[u] => t = u

(* The pointers of all channels describe disjoint, well-formed lists that  *)
(* hold exactly the nodes that were linked and not yet taken.              *)
ChannelsSound == TypeOK /\ ListSound /\ HeapExact

(* No wake-up is lost: while a thread sleeps on a channel, every message   *)
(* in it is accounted for by a thread that is on its way to take one or by *)
(* a signal that is still to be sent.                                      *)
NoLostWakeup ==
    \A c \in Chans :
        LET coming == {t \in Threads :
                          /\ pc[t] # "done" /\ Chan(t) = c
                          /\ pc[t] \in {"woken", "signal"}
                             \/ (pc[t] = "locked" /\ Op(t) = "recv")}
        IN  waiting[c] # {} => Size(c) <= Cardinality(coming)

(* A select without default takes the mutexes of its arms over and over,   *)
(* and a pthread mutex does not promise that a thread waiting for one of   *)
(* them ever gets it.                                                      *)
Polls == \E t \in Threads : \E i \in DOMAIN script[t] : script[t][i].op = "select"

(* Every call returns in a program that does not poll: with as many sends  *)
(* as receives no thread sleeps forever in recv and nobody waits for a     *)
(* mutex that is never released.                                           *)
AllReturn == Polls \/ <>(\A t \in Threads : pc[t] = "done")

(* The values of the sends among the first i calls of a script. *)
SendsOf(calls) ==
    LET v[i \in 0 .. Len(calls)] ==
            IF i = 0 THEN << >>
            ELSE IF calls[i].op = "send" THEN Append(v[i - 1], calls[i].val) ELSE v[i - 1]
    IN  v

(* What a thread has sent so far: a send counts once its node is linked.   *)
Sent(t) == SendsOf(script[t])[IF pc[t] \in {"signal", "unlock"} THEN at[t] ELSE at[t] - 1]

(* The linked lists implement the FIFO queues of AbstractChannel: nothing  *)
(* is lost, duplicated or reordered.                                       *)
Abs == INSTANCE AbstractChannel WITH q <- [c \in Chans |-> Content(c)],
                                     sent <- [t \in Threads |-> Sent(t)]
ImplementsQueue == Abs!Spec
=============================================================================
