------------------------------- MODULE Unwind -------------------------------
(***************************************************************************)
(* What the code generated for throw, try / catch / finally, defer and     *)
(* return does (crates/tinox-codegen/src/codegen.rs, gen_stmt_body,        *)
(* gen_try_stmt, emit_post_stmt_throw_check, the defer helpers and the     *)
(* throw-effect analysis).  An error travels in the thread-local slot      *)
(* __tinox_err; a statement that may throw is followed by a check of the   *)
(* slot, which jumps to the catch block of the enclosing try of the same   *)
(* function or returns a default value to the caller.                      *)
(*                                                                         *)
(* A program is a function from names to bodies, each a tree of            *)
(* statements; Run is the execution of the generated code, Ref what the    *)
(* language promises.                                                      *)
(***************************************************************************)
EXTENDS Naturals, Sequences, FiniteSets, SequencesExt

CONSTANT NoErr       \* the value 0 of an error slot

(* Statements.  The expression of a return is itself a statement.          *)
Say(l) == [k |-> "print", l |-> l]
Throw(e) == [k |-> "throw", e |-> e]
Invoke(f) == [k |-> "call", f |-> f]
Await(f) == [k |-> "await", f |-> f]            \* await spawn f()
Apply(g) == [k |-> "apply", g |-> g]            \* g() where g is a variable
ApplyIn(g) == [k |-> "dynamic", g |-> g]        \* gs[0](), an expression
Block(ss) == [k |-> "block", ss |-> ss]
Defer(s) == [k |-> "defer", s |-> s]
Try(b, cs, fin) == [k |-> "try", b |-> b, cs |-> cs, fin |-> fin]
Return(xs) == [k |-> "return", xs |-> xs]       \* xs: << >> or <<expression>>
While(b) == [k |-> "while", b |-> b]            \* a loop of two iterations
ForC(b) == [k |-> "for", b |-> b]               \* its C-style form
Break == [k |-> "break"]
Continue == [k |-> "continue"]

(* The body of a function value, { ss }.                                   *)
Lambda(ss) == [k |-> "lambda", ss |-> ss]
Declared(p) == {f \in DOMAIN p : p[f].k # "lambda"}

-----------------------------------------------------------------------------
(* The throw-effect analysis.  T is the set of functions known to throw.   *)
(***************************************************************************)
(* stmt_may_throw and expr_may_throw.  A call of a variable is judged by   *)
(* the variable's name, which no declared function has.                    *)
(***************************************************************************)
RECURSIVE MayThrow(_, _)
MayThrow(s, T) ==
    CASE s.k \in {"print", "break", "continue", "apply"} -> FALSE
      [] s.k \in {"throw", "await", "dynamic"} -> TRUE
      [] s.k = "call" -> s.f \in T
      [] s.k = "block" -> \E i \in DOMAIN s.ss : MayThrow(s.ss[i], T)
      [] s.k = "defer" -> MayThrow(s.s, T)
      [] s.k \in {"while", "for"} -> MayThrow(s.b, T)
      [] s.k = "return" -> \E i \in DOMAIN s.xs : MayThrow(s.xs[i], T)
      [] s.k = "try" -> \/ MayThrow(s.b, T)
                        \/ \E i \in DOMAIN s.cs : MayThrow(s.cs[i], T)
                        \/ \E i \in DOMAIN s.fin : MayThrow(s.fin[i], T)

(* Mutant: one pass over the functions instead of a fixpoint. *)
ThrowingOnePass(p, T) == T \cup {f \in Declared(p) : MayThrow(p[f], T)}

(* analyze_throw_effects: the fixpoint over the declared functions,        *)
(* starting from none.                                                     *)
RECURSIVE Throwing(_, _)
Throwing(p, T) ==
    LET more == {f \in Declared(p) : MayThrow(p[f], T)}
    IN  IF more \subseteq T THEN T ELSE Throwing(p, T \cup more)

-----------------------------------------------------------------------------
(***************************************************************************)
(* The state of a thread inside one function: the labels printed so far,   *)
(* the error slot, the stack of defer scopes, how control left the last    *)
(* statement ("next", "ret": the function returned, "catch": a jump to the *)
(* enclosing try, "break", "continue") and the error handed to that try.   *)
(*                                                                         *)
(* The context: whether a try of this function encloses the statement, the *)
(* depth of the defer stack at its entry, whether a loop that sets         *)
(* break_target encloses it, whether deferred statements are being         *)
(* replayed, and the program with its throwing functions.                  *)
(***************************************************************************)
Fresh(out, err) == [out |-> out, err |-> err, stack |-> << >>, end |-> "next",
                    caught |-> NoErr]
Top(p, T) == [try |-> FALSE, depth |-> 0, loop |-> FALSE, replay |-> FALSE,
              p |-> p, T |-> T]

RECURSIVE Run(_, _, _), RunAll(_, _, _), RunBlock(_, _, _), RunCatches(_, _, _),
          RunReturn(_, _, _), RunLoop(_, _, _, _)

(* Deferred statements are replayed last registered first; a jump out of   *)
(* one of them abandons the rest.                                          *)
RunAll(ss, st, c) ==
    IF ss = << >> \/ st.end # "next" THEN st
    ELSE RunAll(Tail(ss), Run(Head(ss), st, c), c)

(* The deferred statements of the scopes above depth, innermost first.     *)
Deferred(stack, depth) == Reverse(FlattenSeq(SubSeq(stack, depth + 1, Len(stack))))

Leave(st, how) == IF st.end = "next" THEN [st EXCEPT !.end = how] ELSE st

(* emit_unwind_defers_to: the scopes opened inside the try. *)
UnwindDefersTo(st, c) ==
    IF c.replay \/ Len(st.stack) <= c.depth THEN st
    ELSE RunAll(Deferred(st.stack, c.depth), st, [c EXCEPT !.replay = TRUE])

(* Mutant: only the innermost scope is unwound. *)
UnwindDefersInner(st, c) ==
    IF c.replay \/ st.stack = << >> THEN st
    ELSE RunAll(Reverse(Last(st.stack)), st, [c EXCEPT !.replay = TRUE])

(* emit_unwind_defers: every scope of the function. *)
UnwindDefers(st, c) ==
    IF c.replay THEN st
    ELSE RunAll(Deferred(st.stack, 0), st, [c EXCEPT !.replay = TRUE])

(* An error e leaves the statement: to the enclosing try, or parked in the *)
(* slot and out of the function.                                           *)
Escape(e, st, c) ==
    IF c.try
    THEN Leave(UnwindDefersTo([st EXCEPT !.caught = e], c), "catch")
    ELSE Leave(UnwindDefers([st EXCEPT !.err = e], c), "ret")

(* emit_post_stmt_throw_check: a try consumes the slot. *)
Check(st, c) ==
    IF st.end # "next" \/ st.err = NoErr THEN st
    ELSE IF c.try THEN Escape(st.err, [st EXCEPT !.err = NoErr], c)
                  ELSE Escape(st.err, st, c)

(* A call runs the callee on the same slot; gen_expr checks the slot right *)
(* after a call it counts as throwing.                                     *)
RunCall(f, throws, st, c) ==
    LET r == Run(c.p[f], Fresh(st.out, st.err), Top(c.p, c.T))
        back == [st EXCEPT !.out = r.out, !.err = r.err]
    IN  IF throws THEN Check(back, c) ELSE back

(* gen_lambda: the body is the expression of a return.  A block expression *)
(* opens no defer scope and has no checks between its statements.          *)
RunLambda(ss, st, c) == Leave(RunAll(ss, st, c), "ret")

(* await spawn f(): f runs on its own thread and so on its own slot, which *)
(* goes away with the thread.                                              *)
RunAwait(f, st, c) ==
    LET r == Run(c.p[f], Fresh(st.out, NoErr), Top(c.p, c.T))
    IN  Check([st EXCEPT !.out = r.out], c)

(* The statements of a block, each followed by a check if it may throw;    *)
(* no checks while deferred statements are replayed.                       *)
RunBlock(ss, st, c) ==
    IF ss = << >> \/ st.end # "next" THEN st
    ELSE LET r == Run(Head(ss), st, c)
             checked == IF ~c.replay /\ MayThrow(Head(ss), c.T) THEN Check(r, c) ELSE r
         IN  RunBlock(Tail(ss), checked, c)

(* gen_defer_scope: the innermost scope. *)
DeferScope(st, c) ==
    IF st.end # "next" \/ st.stack = << >> THEN st
    ELSE RunAll(Reverse(Last(st.stack)), st, [c EXCEPT !.replay = TRUE])

(* A return replays the innermost scope only; with an expression it clears *)
(* the scope and evaluates the expression after the replay.                *)
RunReturn(xs, st, c) ==
    IF xs = << >> THEN Leave(DeferScope(st, c), "ret")
    ELSE LET ds == IF st.stack = << >> THEN << >> ELSE Reverse(Last(st.stack))
             replayed == RunAll(ds, st, c)
             cleared == IF st.stack = << >> THEN replayed
                        ELSE [replayed EXCEPT !.stack = Append(Front(st.stack), << >>)]
         IN  Leave(RunAll(xs, cleared, c), "ret")

(* Every clause runs, in order: nothing compares the error with a type.    *)
RunCatches(cs, st, c) == RunAll(cs, st, c)

(* gen_try_stmt.  The clauses and the finally block run in the context     *)
(* around the try; without a catch clause the error goes on after finally. *)
RunTry(s, st, c) ==
    LET inner == [c EXCEPT !.try = TRUE, !.depth = Len(st.stack)]
        body == Check(Run(s.b, st, inner), inner)
        jumped == body.end = "catch"
        here == [body EXCEPT !.stack = st.stack,
                             !.end = IF jumped THEN "next" ELSE body.end]
        handled == IF jumped THEN RunCatches(s.cs, here, c) ELSE here
        done == RunAll(s.fin, handled, c)
    IN  IF jumped /\ s.cs = << >> /\ done.end = "next"
        THEN Escape(body.caught, done, c)
        ELSE done

(* n more iterations of a loop.  A C-style for leaves break_target and     *)
(* continue_target as they are around it.                                  *)
RunLoop(s, n, st, c) ==
    IF n = 0 \/ st.end # "next" THEN st
    ELSE IF s.k = "for" THEN RunLoop(s, n - 1, Run(s.b, st, c), c)
    ELSE LET r == Run(s.b, st, [c EXCEPT !.loop = TRUE])
         IN  IF r.end = "break" THEN [r EXCEPT !.end = "next"]
             ELSE RunLoop(s, n - 1, [r EXCEPT !.end = IF @ = "continue" THEN "next" ELSE @], c)

(* gen_stmt_body. *)
Run(s, st, c) ==
    CASE s.k = "print" -> [st EXCEPT !.out = Append(@, s.l)]
      [] s.k = "throw" -> Escape(s.e, st, c)
      [] s.k = "call" -> RunCall(s.f, s.f \in c.T, st, c)
      [] s.k = "apply" -> RunCall(s.g, FALSE, st, c)
      [] s.k = "dynamic" -> RunCall(s.g, TRUE, st, c)
      [] s.k = "lambda" -> RunLambda(s.ss, st, c)
      [] s.k = "await" -> RunAwait(s.f, st, c)
      [] s.k = "try" -> RunTry(s, st, c)
      [] s.k = "return" -> RunReturn(s.xs, st, c)
      [] s.k \in {"while", "for"} -> RunLoop(s, 2, st, c)
      [] s.k \in {"break", "continue"} -> IF c.loop THEN Leave(st, s.k) ELSE st
      [] s.k = "defer" ->
            IF st.stack = << >> THEN st
            ELSE [st EXCEPT !.stack = Append(Front(@), Append(Last(@), s.s))]
      [] s.k = "block" ->
            IF c.replay THEN RunBlock(s.ss, st, c)
            ELSE LET in == [st EXCEPT !.stack = Append(@, << >>)]
                     done == DeferScope(RunBlock(s.ss, in, c), c)
                 IN  [done EXCEPT !.stack = st.stack]

(* main of runtime.c: what was printed, and the error reported as uncaught *)
(* when tinox_main leaves one in the main thread's slot.                   *)
Outcome(p) ==
    LET r == Run(p["main"], Fresh(<< >>, NoErr), Top(p, Throwing(p, {})))
    IN  [out |-> r.out, uncaught |-> r.err]

-----------------------------------------------------------------------------
(***************************************************************************)
(* What the language promises for throw, try / catch / finally, defer and  *)
(* return (README.md, docs/SPEC.md, the defer, throw and try tests of      *)
(* tests/e2e): an error goes to the nearest enclosing try that has a catch *)
(* clause, through any number of frames; deferred statements run once,     *)
(* last registered first, when control leaves their block, however it      *)
(* leaves; a finally block runs after its try, however that ended; the     *)
(* value of a return is computed before the block is left.                 *)
(***************************************************************************)
(* How a statement ended: "next", "ret", "break", "continue" or "throw"    *)
(* with its error.                                                         *)
RefState(out) == [out |-> out, end |-> "next", e |-> NoErr]

RECURSIVE Ref(_, _, _), RefAll(_, _, _), RefBlock(_, _, _, _), RefLoop(_, _, _, _)

(* Statements one after the other, as long as control goes on.             *)
RefAll(ss, st, p) ==
    IF ss = << >> \/ st.end # "next" THEN st
    ELSE RefAll(Tail(ss), Ref(Head(ss), st, p), p)

(* s runs although control is leaving; it changes how only if it does not  *)
(* end normally itself.                                                    *)
Finally(s, st, p) ==
    LET r == Ref(s, RefState(st.out), p)
    IN  IF r.end = "next" THEN [st EXCEPT !.out = r.out] ELSE r

(* ds: the statements deferred so far in this block, last one first.       *)
RefBlock(ss, ds, st, p) ==
    IF st.end = "next" /\ ss # << >>
    THEN IF Head(ss).k = "defer" THEN RefBlock(Tail(ss), <<Head(ss).s>> \o ds, st, p)
         ELSE RefBlock(Tail(ss), ds, Ref(Head(ss), st, p), p)
    ELSE IF ds = << >> THEN st
    ELSE RefBlock(<< >>, Tail(ds), Finally(Head(ds), st, p), p)

RefCall(f, st, p) ==
    LET r == Ref(p[f], RefState(st.out), p)
    IN  IF r.end = "throw" THEN r ELSE RefState(r.out)

RefTry(s, st, p) ==
    LET body == Ref(s.b, st, p)
        handled == IF body.end = "throw" /\ s.cs # << >>
                   THEN Ref(Head(s.cs), RefState(body.out), p) ELSE body
    IN  IF s.fin = << >> THEN handled ELSE Finally(Head(s.fin), handled, p)

RefLoop(b, n, st, p) ==
    IF n = 0 \/ st.end # "next" THEN st
    ELSE LET r == Ref(b, st, p)
         IN  IF r.end = "break" THEN [r EXCEPT !.end = "next"]
             ELSE RefLoop(b, n - 1, [r EXCEPT !.end = IF @ = "continue" THEN "next" ELSE @], p)

Ref(s, st, p) ==
    CASE s.k = "print" -> [st EXCEPT !.out = Append(@, s.l)]
      [] s.k = "throw" -> [st EXCEPT !.end = "throw", !.e = s.e]
      [] s.k \in {"call", "await"} -> RefCall(s.f, st, p)
      [] s.k \in {"apply", "dynamic"} -> RefCall(s.g, st, p)
      [] s.k = "try" -> RefTry(s, st, p)
      [] s.k = "return" -> LET r == RefAll(s.xs, st, p)
                           IN  IF r.end = "next" THEN [r EXCEPT !.end = "ret"] ELSE r
      [] s.k \in {"while", "for"} -> RefLoop(s.b, 2, st, p)
      [] s.k \in {"break", "continue"} -> [st EXCEPT !.end = s.k]
      [] s.k = "defer" -> st
      [] s.k \in {"block", "lambda"} -> RefBlock(s.ss, << >>, st, p)

Promised(p) ==
    LET r == Ref(p["main"], RefState(<< >>), p)
    IN  [out |-> r.out, uncaught |-> r.e]

-----------------------------------------------------------------------------
(* The statement a occurs in s.                                            *)
RECURSIVE Occurs(_, _)
Occurs(s, a) ==
    \/ s = a
    \/ s.k \in {"block", "lambda"} /\ \E i \in DOMAIN s.ss : Occurs(s.ss[i], a)
    \/ s.k = "defer" /\ Occurs(s.s, a)
    \/ s.k \in {"while", "for"} /\ Occurs(s.b, a)
    \/ s.k = "return" /\ \E i \in DOMAIN s.xs : Occurs(s.xs[i], a)
    \/ /\ s.k = "try"
       /\ \/ Occurs(s.b, a)
          \/ \E i \in DOMAIN s.cs : Occurs(s.cs[i], a)
          \/ \E i \in DOMAIN s.fin : Occurs(s.fin[i], a)

(* One behaviour per program: it is compiled and run once.                 *)
CONSTANT Programs

VARIABLES prog, result

vars == <<prog, result>>

Init == prog \in Programs /\ result = << >>

Execute ==
    /\ result = << >>
    /\ result' = <<Outcome(prog)>>
    /\ UNCHANGED prog

Next == Execute

Spec == Init /\ [][Next]_vars

Ran == result # << >>

(* The generated code prints exactly what the language promises, in that   *)
(* order: no statement runs after an error, no deferred statement or       *)
(* finally block is skipped or run twice, and what reaches main's caller   *)
(* is the error the language says is uncaught.                             *)
RunsAsPromised == Ran => result[1] = Promised(prog)

(* The throw-effect analysis never misses a throw: a call that the code    *)
(* calls harmless, of a declared function or of a variable that holds a    *)
(* function value, leaves the slot clear.  UnwindCore runs programs with   *)
(* both kinds of calls, those of variables on values that throw nothing;   *)
(* for a value that throws (WildValues of MCUnwind) it fails.              *)
HarmlessIsHarmless ==
    LET T == Throwing(prog, {})
        Applied == {g \in DOMAIN prog \ Declared(prog) :
                      \E f \in DOMAIN prog : Occurs(prog[f], Apply(g))}
    IN  \A f \in (Declared(prog) \ T) \cup Applied :
            Run(prog[f], Fresh(<< >>, NoErr), Top(prog, T)).err = NoErr
=============================================================================
