-------------------------- MODULE AbstractChannel --------------------------
(***************************************************************************)
(* What a Tinox Channel promises: each channel is a FIFO queue, a send     *)
(* appends to it and a receive takes its head.  sent and got record what   *)
(* each thread has sent and received, in order.                            *)
(***************************************************************************)
EXTENDS Sequences

CONSTANTS Threads, Chans, Values

VARIABLES q, sent, got

vars == <<q, sent, got>>

Init ==
    /\ q = [c \in Chans |-> << >>]
    /\ sent = [t \in Threads |-> << >>]
    /\ got = [t \in Threads |-> << >>]

Send(t, c, v) ==
    /\ q' = [q EXCEPT ![c] = Append(@, v)]
    /\ sent' = [sent EXCEPT ![t] = Append(@, v)]
    /\ UNCHANGED got

Recv(t, c) ==
    /\ q[c] # << >>
    /\ q' = [q EXCEPT ![c] = Tail(@)]
    /\ got' = [got EXCEPT ![t] = Append(@, Head(q[c]))]
    /\ UNCHANGED sent

Next == \E t \in Threads, c \in Chans :
            (\E v \in Values : Send(t, c, v)) \/ Recv(t, c)

Spec == Init /\ [][Next]_vars
=============================================================================
