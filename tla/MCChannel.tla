----------------------------- MODULE MCChannel -----------------------------
(* The programs TLC runs on Channel: four threads on two channels.         *)
EXTENDS Channel, TLC

CONSTANTS t1, t2, t3, t4, c1, c2

send(c, v) == [op |-> "send", ch |-> <<c>>, val |-> v]
recv(c) == [op |-> "recv", ch |-> <<c>>, val |-> 0]
call(op, cs) == [op |-> op, ch |-> cs, val |-> 0]

MCThreads == {t1, t2, t3, t4}
MCChans == {c1, c2}

(* Two producers and three blocking receives on one channel. *)
Pipe == t1 :> <<send(c1, 1), send(c1, 2)>> @@ t2 :> <<send(c1, 3), recv(c1)>>
        @@ t3 :> <<recv(c1)>> @@ t4 :> <<recv(c1)>>

(* A thread that takes messages without blocking beside one that blocks. *)
Thief == t1 :> <<send(c1, 1), send(c1, 2), send(c1, 1)>> @@ t2 :> <<recv(c1), recv(c1)>>
         @@ t3 :> <<call("try", <<c1>>)>> @@ t4 :> << >>

(* A select over two channels, with and without a default. *)
Select == t1 :> <<send(c1, 1), send(c2, 2)>> @@ t2 :> <<send(c2, 3)>>
          @@ t3 :> <<call("select_default", <<c1, c2>>), call("select", <<c1, c2>>)>>
          @@ t4 :> << >>

MCScripts == {Pipe, Thief, Select}
=============================================================================
