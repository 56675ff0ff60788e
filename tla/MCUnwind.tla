------------------------------ MODULE MCUnwind ------------------------------
(* The programs TLC runs: main calls f, which calls h. *)
EXTENDS Unwind

UpTo2(S) == {<< >>} \cup {<<a>> : a \in S} \cup {<<a, b>> : a, b \in S}

Main == {Block(<<Try(Block(<<Invoke("f"), Say("after f")>>), <<Say("main catches")>>, << >>),
                 Say("end")>>),
         Block(<<Defer(Say("main defer")), Invoke("f"), Say("after f")>>)}
Helper == {Block(<<Say("h")>>), Block(<<Defer(Say("h defer")), Throw("h")>>)}

Programs_(F, H) == {[f \in {"main", "f", "h"} |->
    IF f = "main" THEN m ELSE IF f = "f" THEN b ELSE h] : m \in Main, b \in F, h \in H}

(* Statements that end a program early or not at all. *)
Simple == {Say("a"), Invoke("h"), Throw("x"), Defer(Say("d")), Return(<< >>)}
NoReturn == Simple \ {Return(<< >>)}

(* A finally block that prints, clauses that print. *)
Tries(S) == {Try(Block(b), cs, fin) : b \in S, cs \in {<< >>, <<Say("c")>>},
                                      fin \in {<< >>, <<Say("f")>>}}
Loops == {While(Block(<<Say("i")>> \o b)) : b \in UpTo2(NoReturn)}
         \cup {ForC(Block(<<Say("i")>> \o b)) : b \in UpTo2(NoReturn)}
         \cup {While(Block(<<Say("i"), a, b, Say("j")>>)) :
                  a \in {Say("a"), Invoke("h")}, b \in {Break, Continue}}
Nested == Tries(UpTo2(NoReturn)) \cup {Block(b) : b \in UpTo2(NoReturn)} \cup Loops

(* f is a block of up to two statements, at least one of them a try or a   *)
(* block, between two statements that show what ran before and after.      *)
Core == Programs_({Block(<<Defer(Say("f defer")), a, b, Say("f end")>>) :
                      a \in Simple \cup Nested, b \in Simple}
                  \cup {Block(<<Defer(Say("f defer")), b, a, Say("f end")>>) :
                      a \in Nested, b \in Simple}, Helper)

(* A try inside a try, a loop inside a try and a try inside a loop. *)
Deep == Programs_({Block(<<Try(Block(<<Defer(Say("d")), l>>), <<Say("c")>>, <<Say("f")>>), Say("f end")>>) :
                      l \in Loops}
                  \cup {Block(<<Defer(Say("f defer")), While(Block(<<Say("i"), t>>)), Say("f end")>>) :
                      t \in Tries(UpTo2(NoReturn))}
                  \cup {Block(<<Defer(Say("f defer")), Try(Block(<<Defer(Say("outer")), a>>), cs, << >>),
                           Say("f end")>>) :
                      a \in Tries(UpTo2(NoReturn)), cs \in {<< >>, <<Say("c2")>>}}, Helper)

(* A return whose expression prints, after a defer (README.md, Defer). *)
ReturnValue == Programs_({Block(<<Defer(Say("close")), Return(<<Say("read")>>)>>)}, Helper)

(* A return out of an inner block. *)
EarlyReturn == Programs_({Block(<<Defer(Say("close")), Block(<<Return(<< >>)>>), Say("f end")>>)}, Helper)

(* A clause that throws, with a finally block. *)
ThrowingCatch == Programs_({Block(<<Try(Block(<<Throw("x")>>), <<Block(<<Throw("y")>>)>>, <<Say("f")>>)>>)},
                           Helper)

(* A deferred call of a function that handles its own errors. *)
Cleanup == Block(<<Try(Block(<<Throw("y")>>), <<Say("retry")>>, << >>), Say("closed")>>)
UnwoundCleanup == Programs_({Block(<<Defer(Invoke("h")), Throw("x")>>)}, {Cleanup})

(* A loop left by break after a defer. *)
BrokenLoop == Programs_({Block(<<While(Block(<<Defer(Say("close")), Break>>))>>)}, Helper)

(* A spawned function that throws and is awaited. *)
Awaited == {[f \in {"main", "f"} |-> IF f = "main" THEN Block(<<Await("f"), Say("end")>>)
                                     ELSE Block(<<Throw("x")>>)]}
AwaitedSafe == {[f \in {"main", "f"} |-> IF f = "main" THEN Block(<<Await("f"), Say("end")>>)
                                     ELSE Block(<<Say("x")>>)]}

(* f calls a function value g, through a variable or as an expression: on  *)
(* its own, in a loop, in a try and after other statements; deferred when  *)
(* g throws nothing.                                                       *)
WithValue(F, G) == {[f \in {"main", "f", "h", "g"} |->
    CASE f = "main" -> m [] f = "f" -> b [] f = "h" -> h [] f = "g" -> g] :
        m \in Main, b \in F, h \in Helper, g \in G}
Around(call) ==
    {Block(<<Defer(Say("f defer")), a, Say("f end")>>) :
        a \in {call, While(Block(<<call, Say("i")>>))}
              \cup Tries({<<call, Say("b")>>, <<Defer(Say("d")), call>>, <<Invoke("h"), call>>})}
    \cup {Block(<<a, call, Say("f end")>>) : a \in Simple}
Closing(call) == {Block(<<Defer(Say("f defer")), Block(<<Defer(call), Say("a")>>), Say("f end")>>)}

Calm == {Lambda(<<Say("g")>>), Lambda(<<Return(<<Say("g")>>), Say("after")>>),
         Lambda(<<Try(Block(<<Throw("y")>>), <<Say("g catches")>>, << >>), Say("g end")>>)}
Wild == {Lambda(<<Say("g"), Throw("y"), Say("after")>>),
         Lambda(<<Invoke("h"), Say("g end")>>),
         Lambda(<<Try(Block(<<Invoke("h"), Throw("y")>>), << >>, <<Say("g finally")>>)>>)}

Values == WithValue(UNION {Around(a) \cup Closing(a) : a \in {Apply("g"), ApplyIn("g")}}, Calm)
          \cup WithValue(Around(ApplyIn("g")), Wild)

(* Values that throw, called through a variable. *)
WildValues == WithValue(Around(Apply("g")), Wild)

CoreAndDeep == Core \cup Deep \cup AwaitedSafe \cup Values
=============================================================================
