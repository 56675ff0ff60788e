------------------------- MODULE ApplicationProofs -------------------------
(***************************************************************************)
(* What holds of the commands of the driver, of the builds they start and of *)
(* the programs they run, for every project and all contents of its files,   *)
(* every editor, and every number of workers, requests and events.           *)
(***************************************************************************)
EXTENDS Application, NatFacts

(* The fields of the two records of the driver. *)
Shape ==
  /\ {"name", "entry", "pc", "left", "tests", "passed", "failed"} \subseteq DOMAIN cmd
  /\ {"stored", "container", "handler", "watching", "queue", "edits", "unseen", "busy"} \subseteq DOMAIN dev

(* A command that has not been read has started nothing. *)
Fresh == cmd.pc = "start" => progs = <<>> /\ dev = NoDev /\ cmd.name = ""

(* There is a program or there is none; between the end of the old one and the
   start of the next there is none, and one that runs is remembered. *)
Single == progs = <<>> \/ \E x : progs = <<x>>
Remembered ==
  cmd.name = "dev" => /\ cmd.pc \in {"compile", "spawn"} => progs = <<>>
                      /\ progs # <<>> => dev.stored \/ cmd.pc \in {"store", "exited"}

(* What the handler of Ctrl-C has done so far stays done: the main thread waits
   for a change, or was in a rebuild (busy). *)
Quitting(steps) == cmd.name = "dev" /\ dev.handler \in steps /\ ~dev.busy
Waits == Quitting({"child", "files", "container", "exit"}) => cmd.pc \in {"recv", "exited"}
ProgramGone == Quitting({"files", "container", "exit"}) => progs = <<>>
FilesGone == Quitting({"container", "exit"}) => files \cap {"exe", "ll"} = {}
DashboardGone == Quitting({"exit"}) => ~dev.container

DevInv == Shape /\ Fresh /\ Single /\ Remembered /\ Waits /\ ProgramGone /\ FilesGone /\ DashboardGone

-----------------------------------------------------------------------------
(* A command begins: nothing is running yet. *)
LEMMA InvokeStep ==
  ASSUME DevInv, NEW name, NEW entry, Invoke(name, entry)
  PROVE  DevInv'
<1>1. cmd.pc = "start" /\ progs = <<>> /\ dev = NoDev /\ progs' = <<>> /\ dev' = NoDev
  BY DEF Invoke, DevInv, Fresh
<1>2. cmd'.pc # "start" /\ (cmd'.name = "dev" => cmd'.pc = "kill")
      /\ {"name", "entry", "pc", "left", "tests", "passed", "failed"} \subseteq DOMAIN cmd'
  <2>1. CASE name \in {"build", "run", "check"}
    <3>1. cmd' = Command(name, entry, "compile")
      BY <2>1 DEF Invoke
    <3> QED BY <3>1, <2>1 DEF Command
  <2>2. CASE name = "dev"
    <3>1. cmd' = Command(name, entry, "kill")
      BY <2>2 DEF Invoke
    <3> QED BY <3>1, <2>2 DEF Command
  <2>3. CASE name = "test"
    <3>1. cmd' = [Command(name, entry, "file") EXCEPT !.left = <<entry>>]
      BY <2>3 DEF Invoke
    <3> QED BY <3>1, <2>3 DEF Command
  <2> QED BY <2>1, <2>2, <2>3 DEF Invoke
<1>3. Shape' /\ Fresh' /\ Single' /\ Remembered'
  BY <1>1, <1>2 DEF Shape, Fresh, Single, Remembered, NoDev
<1>4. Waits' /\ ProgramGone' /\ FilesGone' /\ DashboardGone'
  BY <1>1 DEF Waits, ProgramGone, FilesGone, DashboardGone, Quitting, NoDev
<1> QED BY <1>3, <1>4 DEF DevInv

(* build, run, check and test: none of them has a handler of Ctrl-C. *)
LEMMA OtherCommandStep ==
  ASSUME DevInv, cmd.name # "dev", compile_end \/ run_file_end \/ TestStep
  PROVE  DevInv'
<1>1. dev' = dev /\ cmd'.name = cmd.name /\ DOMAIN cmd' = DOMAIN cmd /\ cmd'.pc # "start" /\ cmd.pc # "start"
  <2>1. CASE compile_end
    BY <2>1 DEF compile_end, Goto, DevInv, Shape
  <2>2. CASE run_file_end
    BY <2>2 DEF run_file_end, Goto, At, DevInv, Shape
  <2>3. CASE NextTestFile
    BY <2>3 DEF NextTestFile, Goto, At, DevInv, Shape
  <2>4. CASE collect_tests_end
    BY <2>4 DEF collect_tests_end, At, DevInv, Shape
  <2>5. CASE NextTest
    BY <2>5 DEF NextTest, Goto, At, DevInv, Shape
  <2>6. CASE TestEnds
    BY <2>6 DEF TestEnds, At, DevInv, Shape
  <2> QED BY <2>1, <2>2, <2>3, <2>4, <2>5, <2>6 DEF TestStep
<1>2. Single'
  <2>1. CASE compile_end
    BY <2>1 DEF compile_end, DevInv, Single
  <2>2. CASE run_file_end
    BY <2>2 DEF run_file_end, DevInv, Single
  <2>3. CASE TestStep
    <3>1. UNCHANGED progs
      BY <2>3 DEF TestStep, NextTestFile, collect_tests_end, NextTest, TestEnds
    <3> QED BY <3>1 DEF DevInv, Single
  <2> QED BY <2>1, <2>2, <2>3
<1>3. Shape' /\ Fresh' /\ Remembered'
  BY <1>1 DEF DevInv, Shape, Fresh, Remembered
<1>4. Waits' /\ ProgramGone' /\ FilesGone' /\ DashboardGone'
  BY <1>1 DEF Waits, ProgramGone, FilesGone, DashboardGone, Quitting
<1> QED BY <1>2, <1>3, <1>4 DEF DevInv

(* The build of a command goes on: a quiet handler has nothing to fear from it,
   for the main thread of dev mode would be waiting. *)
LEMMA CompileStep ==
  ASSUME DevInv, Compile
  PROVE  DevInv'
<1>1. UNCHANGED <<cmd, progs, dev>> /\ cmd.pc \in {"compile", "collect"}
  BY DEF Compile
<1>2. FilesGone'
  BY <1>1 DEF DevInv, Waits, FilesGone, Quitting
<1> QED
  BY <1>1, <1>2 DEF DevInv, Shape, Fresh, Single, Remembered, Waits, ProgramGone, DashboardGone, Quitting

(* compile_and_run: the old program is seen to its end before the next starts. *)
LEMMA CompileAndRunStep ==
  ASSUME DevInv, compile_and_run
  PROVE  DevInv'
<1> USE DEF At, Goto, Quitting
<1>1. CASE KillOld
  <2>1. /\ cmd.name = "dev" /\ cmd.pc = "kill" /\ cmd' = [cmd EXCEPT !.pc = "compile"]
        /\ dev' = [dev EXCEPT !.stored = FALSE] /\ files' = files
    BY <1>1 DEF KillOld
  <2>2. progs' = <<>>
    BY <1>1, <2>1 DEF KillOld, Killed, DevInv, Remembered
  <2> QED
    BY <2>1, <2>2 DEF DevInv, Shape, Fresh, Single, Remembered, Waits, ProgramGone, FilesGone, DashboardGone
<1>2. CASE Built
  <2>1. /\ cmd.name = "dev" /\ cmd.pc = "compile" /\ dev' = dev /\ progs' = progs /\ files' = files
        /\ \E pc \in {"exited", "spawn", "recv", "container"} : cmd' = [cmd EXCEPT !.pc = pc]
    BY <1>2 DEF Built, AfterRun, build_vars
  <2>2. progs = <<>>
    BY <2>1 DEF DevInv, Remembered
  <2> QED
    BY <2>1, <2>2 DEF DevInv, Shape, Fresh, Single, Remembered, Waits, ProgramGone, FilesGone, DashboardGone
<1>3. CASE Spawn
  <2>1. /\ cmd.name = "dev" /\ cmd.pc = "spawn" /\ dev' = dev /\ files' = files
        /\ \E pc \in {"store", "recv", "container"} :
             /\ cmd' = [cmd EXCEPT !.pc = pc]
             /\ progs' = progs \/ (pc = "store" /\ progs' = Append(progs, job.read))
    BY <1>3 DEF Spawn, AfterRun, build_vars
  <2>2. progs = <<>>
    BY <2>1 DEF DevInv, Remembered
  <2>3. Append(<<>>, job.read) = <<job.read>>
    OBVIOUS
  <2> QED
    BY <2>1, <2>2, <2>3 DEF DevInv, Shape, Fresh, Single, Remembered, Waits, ProgramGone, FilesGone, DashboardGone
<1>4. CASE Store
  <2>1. /\ cmd.name = "dev" /\ cmd.pc = "store" /\ dev' = [dev EXCEPT !.stored = TRUE] /\ files' = files /\ progs' = progs
        /\ \E pc \in {"recv", "container"} : cmd' = [cmd EXCEPT !.pc = pc]
    BY <1>4 DEF Store, AfterRun, build_vars
  <2> QED
    BY <2>1 DEF DevInv, Shape, Fresh, Single, Remembered, Waits, ProgramGone, FilesGone, DashboardGone
<1> QED BY <1>1, <1>2, <1>3, <1>4 DEF compile_and_run

(* The other steps of the main thread of dev mode. *)
LEMMA DevModeStep ==
  ASSUME DevInv, dev_mode
  PROVE  DevInv'
<1> USE DEF At, Goto, Quitting
<1>1. CASE compile_and_run
  BY <1>1, CompileAndRunStep
<1>2. CASE launch_devui_container
  <2>1. /\ cmd.name = "dev" /\ cmd.pc = "container" /\ cmd' = [cmd EXCEPT !.pc = "handler"] /\ progs' = progs /\ files' = files
        /\ \E up \in {FALSE, DevUi} : dev' = [dev EXCEPT !.container = up]
    BY <1>2 DEF launch_devui_container, build_vars
  <2> QED BY <2>1 DEF DevInv, Shape, Fresh, Single, Remembered, Waits, ProgramGone, FilesGone, DashboardGone
<1>3. CASE set_handler
  <2>1. /\ cmd.name = "dev" /\ cmd.pc = "handler" /\ cmd' = [cmd EXCEPT !.pc = "watch"] /\ progs' = progs /\ files' = files
        /\ dev' = [dev EXCEPT !.handler = "ready"]
    BY <1>3 DEF set_handler, build_vars
  <2> QED BY <2>1 DEF DevInv, Shape, Fresh, Single, Remembered, Waits, ProgramGone, FilesGone, DashboardGone
<1>4. CASE Watch
  <2>1. /\ cmd.name = "dev" /\ cmd.pc = "watch" /\ cmd' = [cmd EXCEPT !.pc = "recv"] /\ progs' = progs /\ files' = files
        /\ dev' = [dev EXCEPT !.watching = TRUE]
    BY <1>4 DEF Watch, build_vars
  <2> QED BY <2>1 DEF DevInv, Shape, Fresh, Single, Remembered, Waits, ProgramGone, FilesGone, DashboardGone
<1>5. CASE Receive
  <2>1. /\ cmd.name = "dev" /\ cmd.pc = "recv" /\ cmd' = [cmd EXCEPT !.pc = "drain"] /\ progs' = progs /\ files' = files
        /\ dev' = [dev EXCEPT !.queue = dev.queue - 1, !.busy = dev.handler # "ready"]
    BY <1>5 DEF Receive, build_vars
  <2> QED BY <2>1 DEF DevInv, Shape, Fresh, Single, Remembered, Waits, ProgramGone, FilesGone, DashboardGone
<1>6. CASE Drain
  <2>1. /\ cmd.name = "dev" /\ cmd.pc = "drain" /\ cmd' = [cmd EXCEPT !.pc = "kill"] /\ progs' = progs /\ files' = files
        /\ dev' = [dev EXCEPT !.queue = 0]
    BY <1>6 DEF Drain, build_vars
  <2> QED BY <2>1 DEF DevInv, Shape, Fresh, Single, Remembered, Waits, ProgramGone, FilesGone, DashboardGone
<1> QED BY <1>1, <1>2, <1>3, <1>4, <1>5, <1>6 DEF dev_mode

(* Ctrl-C, and the handler that cleans up after it. *)
LEMMA InterruptStep ==
  ASSUME DevInv, NEW terminal, Interrupt(terminal)
  PROVE  DevInv'
<1> USE DEF Quitting
<1>1. cmd.name = "dev" /\ files' = files /\ (progs' = <<>> \/ progs' = progs) /\ dev.handler \in {"none", "ready"} /\ cmd.pc # "start"
  <2>1. cmd.name = "dev" /\ files' = files /\ (progs' = <<>> \/ progs' = progs) /\ dev.handler \in {"none", "ready"}
    BY DEF Interrupt, build_vars
  <2> QED BY <2>1 DEF DevInv, Fresh
<1>2. CASE dev.handler = "none"
  <2>1. cmd' = [cmd EXCEPT !.pc = "exited"] /\ dev' = dev
    BY <1>2 DEF Interrupt, Goto
  <2> QED BY <1>1, <1>2, <2>1 DEF DevInv, Shape, Fresh, Single, Remembered, Waits, ProgramGone, FilesGone, DashboardGone
<1>3. CASE dev.handler = "ready"
  <2>1. cmd' = cmd /\ dev' = [dev EXCEPT !.handler = "child", !.busy = cmd.pc # "recv"]
    BY <1>3 DEF Interrupt
  <2> QED BY <1>1, <1>3, <2>1 DEF DevInv, Shape, Fresh, Single, Remembered, Waits, ProgramGone, FilesGone, DashboardGone
<1> QED BY <1>1, <1>2, <1>3

(* The thread of Ctrl-C takes the program, its files and the dashboard away one by one. *)
LEMMA CleanupStep ==
  ASSUME DevInv, cleanup
  PROVE  DevInv'
<1> USE DEF Quitting
<1>1. cmd.name = "dev" /\ cmd.pc # "exited" /\ cmd.pc # "start"
  BY DEF cleanup, Down, At, DevInv, Fresh
<1>2. CASE dev.handler = "child"
  <2>1. cmd' = cmd /\ files' = files /\ progs' = Killed /\ dev' = [dev EXCEPT !.handler = "files"]
    BY <1>2 DEF cleanup, build_vars
  <2>2. progs' = <<>> \/ (progs' = progs /\ (dev.busy \/ progs = <<>>))
    BY <1>1, <1>2, <2>1 DEF Killed, DevInv, Remembered, Waits
  <2> QED BY <1>1, <1>2, <2>1, <2>2 DEF DevInv, Shape, Fresh, Single, Remembered, Waits, ProgramGone, FilesGone, DashboardGone
<1>3. CASE dev.handler = "files"
  <2>1. cmd' = cmd /\ files' = files \ {"exe", "ll"} /\ progs' = progs /\ dev' = [dev EXCEPT !.handler = "container"]
    BY <1>3 DEF cleanup, build_vars
  <2> QED BY <1>1, <1>3, <2>1 DEF DevInv, Shape, Fresh, Single, Remembered, Waits, ProgramGone, FilesGone, DashboardGone
<1>4. CASE dev.handler = "container"
  <2>1. cmd' = cmd /\ files' = files /\ progs' = progs /\ dev' = [dev EXCEPT !.handler = "exit", !.container = FALSE]
    BY <1>4 DEF cleanup, build_vars, cleanup_devui
  <2> QED BY <1>1, <1>4, <2>1 DEF DevInv, Shape, Fresh, Single, Remembered, Waits, ProgramGone, FilesGone, DashboardGone
<1>5. CASE dev.handler = "exit"
  <2>1. cmd' = [cmd EXCEPT !.pc = "exited"] /\ files' = files /\ progs' = progs /\ dev' = dev
    BY <1>5 DEF cleanup, build_vars, Goto
  <2> QED BY <1>1, <1>5, <2>1 DEF DevInv, Shape, Fresh, Single, Remembered, Waits, ProgramGone, FilesGone, DashboardGone
<1> QED BY <1>2, <1>3, <1>4, <1>5 DEF cleanup

(* A program ends by itself, or a file is saved. *)
LEMMA WorldStep ==
  ASSUME DevInv, ProgramEnds \/ \E p \in DOMAIN disk \cap DOMAIN Versions : Save(p)
  PROVE  DevInv'
<1> USE DEF Quitting
<1>1. CASE ProgramEnds
  <2>1. cmd' = cmd /\ files' = files /\ dev' = dev /\ progs # <<>> /\ progs' = Tail(progs)
    BY <1>1 DEF ProgramEnds, build_vars
  <2>2. PICK x : progs = <<x>>
    BY <2>1 DEF DevInv, Single
  <2>3. Tail(<<x>>) = <<>>
    OBVIOUS
  <2>4. progs' = <<>>
    BY <2>1, <2>2, <2>3
  <2> QED BY <2>1, <2>4 DEF DevInv, Shape, Fresh, Single, Remembered, Waits, ProgramGone, FilesGone, DashboardGone
<1>2. ASSUME NEW p, Save(p) PROVE DevInv'
  <2>1. /\ cmd.name = "dev" /\ cmd' = cmd /\ files' = files /\ progs' = progs
        /\ \E e, q, u : dev' = [dev EXCEPT !.edits = e, !.queue = q, !.unseen = u]
    BY <1>2 DEF Save
  <2> QED BY <2>1 DEF DevInv, Shape, Fresh, Single, Remembered, Waits, ProgramGone, FilesGone, DashboardGone
<1> QED BY <1>1, <1>2

(* The inductive invariant of dev mode. *)
LEMMA DevInvariant == Spec => []DevInv
<1>1. Init => DevInv
  <2> SUFFICES ASSUME Init PROVE DevInv
    OBVIOUS
  <2>1. cmd = Command("", <<>>, "start") /\ progs = <<>> /\ dev = NoDev
    BY DEF Init, DriverInit
  <2>2. cmd.name = ""
    BY <2>1 DEF Command
  <2>3. Shape
    BY <2>1 DEF Shape, Command, NoDev
  <2> QED
    BY <2>1, <2>2, <2>3 DEF DevInv, Fresh, Single, Remembered, Waits, ProgramGone, FilesGone, DashboardGone, Quitting
<1>2. DevInv /\ [Next]_vars => DevInv'
  <2> SUFFICES ASSUME DevInv, [Next]_vars PROVE DevInv'
    OBVIOUS
  <2>1. CASE Begin
    BY <2>1, InvokeStep DEF Begin
  <2>2. CASE Start \/ Finish \/ TestStep
    <3>1. compile_end \/ run_file_end \/ TestStep
      BY <2>2 DEF Start, Finish
    <3>2. cmd.name # "dev"
      BY <3>1 DEF compile_end, run_file_end, TestStep, NextTestFile, collect_tests_end, NextTest, TestEnds, At
    <3> QED BY <3>1, <3>2, OtherCommandStep
  <2>3. CASE MainThread
    BY <2>3, CompileStep, DevModeStep DEF MainThread
  <2>4. CASE HandlerThread
    BY <2>4, CleanupStep DEF HandlerThread
  <2>5. CASE Compile
    BY <2>5, CompileStep
  <2>6. CASE \E terminal \in BOOLEAN : Interrupt(terminal)
    BY <2>6, InterruptStep
  <2>7. CASE ProgramEnds \/ \E p \in DOMAIN disk \cap DOMAIN Versions : Save(p)
    BY <2>7, WorldStep
  <2>8. CASE RunCommand \/ (ServerStep /\ UNCHANGED <<driver_vars, cli>>) \/ UNCHANGED vars
    <3>1. UNCHANGED <<cmd, progs, dev, files>>
      BY <2>8 DEF RunCommand, vars, driver_vars, build_vars
    <3> QED BY <3>1 DEF DevInv, Shape, Fresh, Single, Remembered, Waits, ProgramGone, FilesGone, DashboardGone, Quitting
  <2> QED BY <2>1, <2>2, <2>3, <2>4, <2>5, <2>6, <2>7, <2>8 DEF Next
<1> QED BY <1>1, <1>2, PTL DEF Spec

(* dev mode never runs two programs at a time, and Ctrl-C that meets no rebuild
   leaves no program, no dashboard and neither of the program's files behind:
   compile_and_run, the handler and the editor may be interleaved at will. *)
THEOREM DevModeCleansUp == Spec => []DevCleansUp
<1>1. DevInv => DevCleansUp
  <2> SUFFICES ASSUME DevInv PROVE DevCleansUp
    OBVIOUS
  <2>1. OneProgram
    <3>1. CASE progs = <<>>
      BY <3>1 DEF OneProgram
    <3>2. CASE \E x : progs = <<x>>
      <4>1. PICK x : progs = <<x>>
        BY <3>2
      <4>2. Len(<<x>>) = 1
        OBVIOUS
      <4> QED BY <4>1, <4>2 DEF OneProgram
    <3> QED BY <3>1, <3>2 DEF DevInv, Single
  <2>2. QuitClean
    BY DEF QuitClean, Down, At, DevInv, ProgramGone, FilesGone, DashboardGone, Quitting
  <2> QED BY <2>1, <2>2 DEF DevCleansUp
<1> QED BY <1>1, DevInvariant, PTL

-----------------------------------------------------------------------------
(* Sequences, whatever they are sequences of. *)
IsSeq(s) == Len(s) \in Nat /\ s = [i \in 1..Len(s) |-> s[i]]

(* What is in a Seq is a sequence, and the other way round. *)
LEMMA SeqIs ==
  ASSUME NEW S, NEW s \in Seq(S)
  PROVE  IsSeq(s)
BY DEF IsSeq

(* A sequence in this sense is one over the set of its elements. *)
LEMMA SeqIn ==
  ASSUME NEW s, IsSeq(s)
  PROVE  s \in Seq({s[i] : i \in 1..Len(s)})
<1> DEFINE S == {s[i] : i \in 1..Len(s)}
<1>1. PICK n \in Nat : n = Len(s)
  BY DEF IsSeq
<1>2. s \in [1..n -> S]
  BY <1>1 DEF IsSeq
<1> QED BY <1>2

(* A function on the first n numbers is a sequence of that length. *)
LEMMA MadeSeq ==
  ASSUME NEW n \in Nat, NEW s, s = [i \in 1..n |-> s[i]]
  PROVE  IsSeq(s) /\ Len(s) = n
<1>1. s \in [1..n -> {s[i] : i \in 1..n}]
  OBVIOUS
<1>2. s \in Seq({s[i] : i \in 1..n})
  BY <1>1
<1>3. Len(s) = n
  BY <1>1, <1>2
<1> QED BY <1>3 DEF IsSeq

(* Concatenation. *)
LEMMA ConcatIs ==
  ASSUME NEW s, NEW u, IsSeq(s), IsSeq(u)
  PROVE  /\ IsSeq(s \o u) /\ Len(s \o u) = Len(s) + Len(u)
         /\ \A i \in 1..Len(s) : (s \o u)[i] = s[i]
         /\ \A i \in 1..Len(u) : (s \o u)[Len(s) + i] = u[i]
<1>1. PICK S : S = {s[i] : i \in 1..Len(s)} \cup {u[i] : i \in 1..Len(u)}
  OBVIOUS
<1>2. s \in Seq(S) /\ u \in Seq(S)
  <2>1. PICK n \in Nat : n = Len(s)
    BY DEF IsSeq
  <2>2. PICK m \in Nat : m = Len(u)
    BY DEF IsSeq
  <2>3. s \in [1..n -> S]
    BY <1>1, <2>1 DEF IsSeq
  <2>4. u \in [1..m -> S]
    BY <1>1, <2>2 DEF IsSeq
  <2> QED BY <2>3, <2>4
<1>3. s \o u \in Seq(S)
  BY <1>2
<1>4. IsSeq(s \o u)
  BY <1>3, SeqIs
<1> QED BY <1>2, <1>4

(* The first element and the others. *)
LEMMA TailIs ==
  ASSUME NEW s, IsSeq(s), s # <<>>
  PROVE  /\ Len(s) >= 1 /\ IsSeq(Tail(s)) /\ Len(Tail(s)) = Len(s) - 1 /\ Head(s) = s[1]
         /\ \A i \in 1..(Len(s) - 1) : Tail(s)[i] = s[i + 1]
<1>1. PICK S : S = {s[i] : i \in 1..Len(s)}
  OBVIOUS
<1>2. s \in Seq(S)
  BY <1>1, SeqIn
<1>3. Tail(s) \in Seq(S)
  BY <1>2
<1>4. IsSeq(Tail(s))
  BY <1>3, SeqIs
<1> QED BY <1>2, <1>4

(* One element. *)
LEMMA OneIs ==
  ASSUME NEW x
  PROVE  IsSeq(<<x>>) /\ Len(<<x>>) = 1 /\ <<x>>[1] = x
<1>1. <<x>> \in Seq({x})
  OBVIOUS
<1>2. IsSeq(<<x>>)
  BY <1>1, SeqIs
<1> QED BY <1>1, <1>2

(* An element in front. *)
LEMMA ConsIs ==
  ASSUME NEW x, NEW s, IsSeq(s)
  PROVE  /\ IsSeq(<<x>> \o s) /\ Len(<<x>> \o s) = Len(s) + 1
         /\ (<<x>> \o s)[1] = x
         /\ \A i \in 1..Len(s) : (<<x>> \o s)[i + 1] = s[i]
<1>1. IsSeq(<<x>>) /\ Len(<<x>>) = 1 /\ <<x>>[1] = x
  BY OneIs
<1>2. PICK e : e = <<x>>
  OBVIOUS
<1>3. IsSeq(e) /\ Len(e) = 1 /\ e[1] = x
  BY <1>1, <1>2
<1>4. /\ IsSeq(e \o s) /\ Len(e \o s) = Len(e) + Len(s)
      /\ \A i \in 1..Len(e) : (e \o s)[i] = e[i]
      /\ \A i \in 1..Len(s) : (e \o s)[Len(e) + i] = s[i]
  <2>1. IsSeq(e)
    BY <1>3
  <2>2. IsSeq(e \o s)
    BY <2>1, ConcatIs
  <2>3. Len(e \o s) = Len(e) + Len(s)
    BY <2>1, ConcatIs
  <2>4. \A i \in 1..Len(e) : (e \o s)[i] = e[i]
    BY <2>1, ConcatIs
  <2>5. \A i \in 1..Len(s) : (e \o s)[Len(e) + i] = s[i]
    BY <2>1, ConcatIs
  <2> QED BY <2>2, <2>3, <2>4, <2>5
<1>5. PICK n \in Nat : n = Len(s)
  BY DEF IsSeq
<1>6. Len(e \o s) = Len(s) + 1 /\ (e \o s)[1] = x
  BY <1>3, <1>4, <1>5
<1>7. \A i \in 1..Len(s) : (e \o s)[i + 1] = s[i]
  BY <1>3, <1>4, <1>5
<1> QED BY <1>2, <1>4, <1>6, <1>7

(* Sequences one after the other make a sequence: the recursive function of
   FlattenSeq exists, and it yields a sequence in each round. *)
LEMMA FlattenIs ==
  ASSUME NEW S, NEW ss \in Seq(Seq(S))
  PROVE  FlattenSeq(ss) \in Seq(S)
<1> DEFINE Is(v, n) == v = [k \in 1..n |-> IF k = 1 THEN ss[k] ELSE v[k - 1] \o ss[k]]
           Good(n) == \E v \in [1..n -> Seq(S)] : Is(v, n)
           Bad == {n \in 1..Len(ss) : ~Good(n)}
<1>1. CASE Len(ss) = 0
  <2>1. FlattenSeq(ss) = ss
    BY <1>1 DEF FlattenSeq
  <2>2. ss = <<>>
    BY <1>1
  <2> QED BY <2>1, <2>2
<1>2. CASE Len(ss) # 0
  <2>1. PICK N \in Nat : N = Len(ss) /\ N >= 1
    BY <1>2
  <2>2. Bad = {}
    <3> SUFFICES ASSUME Bad # {} PROVE FALSE
      OBVIOUS
    <3>1. Bad \in SUBSET Nat
      <4> HIDE DEF Good
      <4> QED OBVIOUS
    <3> HIDE DEF Bad
    <3>2. PICK m \in Bad : \A x \in Bad : m <= x
      BY <3>1, LeastElement
    <3> USE DEF Bad
    <3>3. m \in 1..N /\ ~Good(m)
      BY <2>1, <3>2
    <3>4. m # 1
      <4>1. Is([k \in 1..1 |-> ss[1]], 1)
        OBVIOUS
      <4>2. [k \in 1..1 |-> ss[1]] \in [1..1 -> Seq(S)]
        BY <2>1
      <4> QED BY <3>3, <4>1, <4>2
    <3>5. m - 1 \in 1..N /\ ~(m <= m - 1)
      BY <2>1, <3>3, <3>4
    <3>6. Good(m - 1)
      BY <2>1, <3>2, <3>5
    <3>7. PICK v \in [1..(m - 1) -> Seq(S)] : Is(v, m - 1)
      BY <3>6
    <3> DEFINE x == v[m - 1] \o ss[m]
               w == [k \in 1..m |-> IF k = m THEN x ELSE v[k]]
    <3>8. x \in Seq(S)
      <4>1. v[m - 1] \in Seq(S)
        BY <3>3, <3>5, <3>7
      <4>2. ss[m] \in Seq(S)
        BY <2>1, <3>3
      <4> QED BY <4>1, <4>2
    <3>9. w \in [1..m -> Seq(S)]
      <4> HIDE DEF x
      <4>1. \A k \in 1..m : k # m => k \in 1..(m - 1)
        BY <3>3
      <4>2. \A k \in 1..(m - 1) : v[k] \in Seq(S)
        BY <3>7
      <4>3. \A k \in 1..m : (IF k = m THEN x ELSE v[k]) \in Seq(S)
        BY <3>8, <4>1, <4>2
      <4> QED BY <4>3
    <3>10. \A k \in 1..m : k # 1 => k - 1 \in 1..(m - 1) /\ w[k - 1] = v[k - 1]
      <4> HIDE DEF x
      <4> QED BY <3>3
    <3>11. ASSUME NEW k \in 1..m PROVE w[k] = IF k = 1 THEN ss[k] ELSE w[k - 1] \o ss[k]
      <4>1. CASE k = m
        <5>1. w[k] = x /\ w[k - 1] = v[m - 1]
          <6> HIDE DEF x
          <6> QED BY <3>3, <3>4, <3>10, <4>1
        <5> QED BY <3>4, <4>1, <5>1
      <4>2. CASE k # m
        <5>1. k \in 1..(m - 1)
          BY <3>3, <4>2
        <5>2. v[k] = IF k = 1 THEN ss[k] ELSE v[k - 1] \o ss[k]
          BY <3>7, <5>1
        <5>3. w[k] = v[k]
          BY <4>2
        <5> QED BY <3>10, <5>2, <5>3
      <4> QED BY <4>1, <4>2
    <3>12. Is(w, m)
      <4> HIDE DEF x
      <4> QED BY <3>11
    <3> QED BY <3>3, <3>9, <3>12
  <2>3. PICK v \in [1..N -> Seq(S)] : Is(v, N)
    <3>1. N \in 1..Len(ss) /\ N \notin Bad
      <4> HIDE DEF Bad
      <4> QED BY <2>1, <2>2
    <3>2. Good(N)
      <4> HIDE DEF Good
      <4> QED BY <3>1
    <3> QED BY <3>2
  <2>4. \A u : Is(u, N) => u[N] \in Seq(S)
    <3> SUFFICES ASSUME NEW u, Is(u, N) PROVE u[N] \in Seq(S)
      OBVIOUS
    <3> DEFINE Off == {k \in 1..N : u[k] \notin Seq(S)}
    <3>1. Off = {}
      <4> SUFFICES ASSUME Off # {} PROVE FALSE
        OBVIOUS
      <4>1. Off \in SUBSET Nat
        OBVIOUS
      <4> HIDE DEF Off
      <4>2. PICK m \in Off : \A x \in Off : m <= x
        BY <4>1, LeastElement
      <4> USE DEF Off
      <4>3. m \in 1..N /\ u[m] \notin Seq(S)
        BY <4>2
      <4>4. u[m] = IF m = 1 THEN ss[m] ELSE u[m - 1] \o ss[m]
        BY <4>3
      <4>5. ss[m] \in Seq(S)
        BY <2>1, <4>3
      <4>6. m # 1
        BY <4>3, <4>4, <4>5
      <4>7. m - 1 \in 1..N /\ ~(m <= m - 1)
        BY <4>3, <4>6
      <4>8. u[m - 1] \in Seq(S)
        BY <4>2, <4>7
      <4>9. u[m] = u[m - 1] \o ss[m]
        BY <4>4, <4>6
      <4>10. u[m - 1] \o ss[m] \in Seq(S)
        BY <4>5, <4>8
      <4> QED BY <4>3, <4>9, <4>10
    <3>2. N \in 1..N /\ N \notin Off
      <4> HIDE DEF Off
      <4> QED BY <2>1, <3>1
    <3> QED BY <3>2
  <2>5. PICK u : u = CHOOSE f : Is(f, N)
    OBVIOUS
  <2>6. Is(u, N)
    BY <2>3, <2>5
  <2>7. FlattenSeq(ss) = u[N]
    BY <1>2, <2>1, <2>5 DEF FlattenSeq
  <2> QED BY <2>4, <2>6, <2>7
<1> QED BY <1>1, <1>2

-----------------------------------------------------------------------------
(* What a file imports, and what it declares itself. *)
LEMMA ImportsIs ==
  ASSUME NEW c \in DOMAIN Content
  PROVE  IsSeq(ImportsOf(c))
<1>1. PICK ds : ds = Content[c].decls
  OBVIOUS
<1>2. PICK n \in Nat : n = Len(ds)
  BY <1>1, ContentAssumption
<1> DEFINE Get(d) == IF d[5][1] = "Import" THEN <<d[5][2]>> ELSE <<>>
           S == {ds[i][5][2] : i \in 1..n}
           ss == [i \in 1..n |-> Get(ds[i])]
<1>3. \A i \in 1..n : Get(ds[i]) \in Seq(S)
  OBVIOUS
<1>4. ss \in Seq(Seq(S))
  <2> HIDE DEF Get, S
  <2>1. ss \in [1..n -> Seq(S)]
    BY <1>3
  <2> HIDE DEF ss
  <2> QED BY <2>1
<1>5. FlattenSeq(ss) \in Seq(S)
  <2> HIDE DEF Get, S, ss
  <2> QED BY <1>4, FlattenIs
<1>6. ImportsOf(c) = FlattenSeq(ss)
  BY <1>1, <1>2 DEF ImportsOf, Collect
<1> HIDE DEF S, ss
<1> QED BY <1>5, <1>6, SeqIs

(* The declarations a file adds of its own carry the name of the file, and the
   place they have in it. *)
LEMMA OwnIs ==
  ASSUME NEW c \in DOMAIN Content, NEW p
  PROVE  /\ IsSeq(OwnDecls(p, c))
         /\ \A i \in 1..Len(OwnDecls(p, c)) : OwnDecls(p, c)[i][1] = p /\ OwnDecls(p, c)[i][2] \in 1..Len(Content[c].decls)
<1>1. PICK n \in Nat : n = Len(Content[c].decls)
  BY ContentAssumption
<1> DEFINE Get(i) == IF Content[c].decls[i][5][1] \in {"Import", "Module"} THEN <<>> ELSE <<<<p, i>>>>
           S == {p} \X (1..n)
           at == [i \in 1..n |-> i]
           ss == [i \in 1..n |-> Get(at[i])]
<1>2. ASSUME NEW i \in 1..n PROVE Get(i) \in Seq(S)
  <2>1. PICK x : x = <<p, i>>
    OBVIOUS
  <2>2. x \in S
    BY <2>1
  <2> HIDE DEF S
  <2>3. <<>> \in Seq(S) /\ <<x>> \in Seq(S)
    BY <2>2
  <2> QED BY <2>1, <2>3
<1>3. ss \in Seq(Seq(S))
  <2> HIDE DEF Get, S
  <2>1. ss \in [1..n -> Seq(S)]
    BY <1>2
  <2> HIDE DEF ss
  <2> QED BY <2>1
<1>4. FlattenSeq(ss) \in Seq(S)
  <2> HIDE DEF Get, S, ss
  <2> QED BY <1>3, FlattenIs
<1>5. Len(at) = n
  OBVIOUS
<1>6. OwnDecls(p, c) = FlattenSeq(ss)
  BY <1>1, <1>5 DEF OwnDecls, Collect
<1>7. PICK own : own = OwnDecls(p, c)
  OBVIOUS
<1>8. own \in Seq(S)
  <2> HIDE DEF S, ss
  <2> QED BY <1>4, <1>6, <1>7
<1>9. IsSeq(own)
  <2> HIDE DEF S
  <2> QED BY <1>8, SeqIs
<1>10. \A i \in 1..Len(own) : own[i][1] = p /\ own[i][2] \in 1..n
  BY <1>8
<1> QED BY <1>1, <1>7, <1>9, <1>10

(* A module is found as a list of files. *)
LEMMA ModuleIs ==
  ASSUME NEW tree, IsFiniteSet(tree.names), NEW base, NEW rel, resolve_module_paths(tree, base, rel)[1] = "found"
  PROVE  IsSeq(resolve_module_paths(tree, base, rel)[2])
<1>1. PICK at : at = base \o rel
  OBVIOUS
<1>2. CASE at \in tree.names
  <2>1. resolve_module_paths(tree, base, rel) = <<"found", <<at>>>>
    BY <1>1, <1>2 DEF resolve_module_paths
  <2>2. resolve_module_paths(tree, base, rel)[2] = <<at>>
    BY <2>1
  <2> QED BY <2>2, OneIs
<1>3. CASE at \notin tree.names /\ IsDir(tree, at) /\ InDir(tree, at) # {}
  <2>1. resolve_module_paths(tree, base, rel) = <<"found", InOrder(InDir(tree, at))>>
    BY <1>1, <1>3 DEF resolve_module_paths
  <2>2. PICK ps : ps = InDir(tree, at)
    OBVIOUS
  <2>3. IsFiniteSet(ps)
    <3>1. ps \subseteq tree.names
      BY <2>2 DEF InDir
    <3> QED BY <3>1, FS_Subset
  <2>4. PICK n \in Nat : n = Cardinality(ps)
    BY <2>3, FS_CardinalityType
  <2>5. PICK s : s = InOrder(ps)
    OBVIOUS
  <2>6. s = [k \in 1..n |-> s[k]]
    <3> DEFINE F(k) == CHOOSE p \in ps : Cardinality({q \in ps : Rank[Stem(q)] < Rank[Stem(p)]}) = k - 1
    <3>1. s = [k \in 1..n |-> F(k)]
      BY <2>4, <2>5 DEF InOrder
    <3> HIDE DEF F
    <3> QED BY <3>1
  <2>7. IsSeq(s)
    BY <2>6, MadeSeq
  <2>8. resolve_module_paths(tree, base, rel)[2] = s
    BY <2>1, <2>2, <2>5
  <2> QED BY <2>7, <2>8
<1>4. CASE at \notin tree.names /\ IsDir(tree, at) /\ InDir(tree, at) = {}
  BY <1>1, <1>4 DEF resolve_module_paths
<1>5. CASE at \notin tree.names /\ ~IsDir(tree, at)
  BY <1>1, <1>5 DEF resolve_module_paths
<1> QED BY <1>2, <1>3, <1>4, <1>5

(* What an import is resolved to is a list of files. *)
LEMMA ResolvedIs ==
  ASSUME NEW tree, IsFiniteSet(tree.names), NEW dir, NEW rel, resolve_import(tree, dir, rel)[1] = "found"
  PROVE  IsSeq(resolve_import(tree, dir, rel)[2])
<1> DEFINE own == resolve_module_paths(tree, dir, rel)
           dep == resolve_in_dep_dirs(tree, rel)
<1>1. CASE own[1] # "none"
  <2>1. resolve_import(tree, dir, rel) = own
    BY <1>1 DEF resolve_import
  <2> QED BY <2>1, ModuleIs
<1>2. CASE own[1] = "none" /\ dep[1] # "none"
  <2>1. resolve_import(tree, dir, rel) = dep
    BY <1>2 DEF resolve_import
  <2>2. PICK offers : offers = Offering(tree, rel)
    OBVIOUS
  <2>3. dep \in {<<"none">>, <<"error">>, resolve_module_paths(tree, offers[1], rel)}
    BY <2>2 DEF resolve_in_dep_dirs
  <2>4. dep[1] = "found"
    BY <2>1
  <2>5. dep = resolve_module_paths(tree, offers[1], rel)
    <3> HIDE DEF dep
    <3> QED BY <2>3, <2>4
  <2> QED BY <2>1, <2>4, <2>5, ModuleIs
<1>3. CASE own[1] = "none" /\ dep[1] = "none" /\ rel[1] = "tinox"
  <2>1. resolve_import(tree, dir, rel) = resolve_in_stdlib(tree, rel)
    BY <1>3 DEF resolve_import
  <2>2. resolve_in_stdlib(tree, rel)[1] = "found"
    BY <2>1
  <2>3. PICK lib : lib = resolve_in_stdlib(tree, rel)
    OBVIOUS
  <2>4. \E why : lib = <<"error", why>> \/ lib = <<"error">> \/ \E tail : lib = resolve_module_paths(tree, stdlib_dir, tail)
    BY <2>3 DEF resolve_in_stdlib
  <2>5. PICK tail : lib = resolve_module_paths(tree, stdlib_dir, tail)
    BY <2>2, <2>3, <2>4
  <2> QED BY <2>1, <2>2, <2>3, <2>5, ModuleIs
<1>4. CASE own[1] = "none" /\ dep[1] = "none" /\ rel[1] # "tinox"
  <2>1. resolve_import(tree, dir, rel) = <<"error">>
    BY <1>4 DEF resolve_import
  <2> QED BY <2>1
<1> QED BY <1>1, <1>2, <1>3, <1>4

(* An import that is found, and not beside the file, is not offered by two
   dependencies of different coordinates. *)
LEMMA OneOffer ==
  ASSUME NEW tree, NEW dir, NEW rel, resolve_import(tree, dir, rel)[1] = "found", resolve_module_paths(tree, dir, rel)[1] = "none"
  PROVE  Cardinality({dep_dir_coordinate(d) : d \in ToSet(Offering(tree, rel))}) <= 1
<1>1. PICK offers : offers = Offering(tree, rel)
  OBVIOUS
<1>2. offers = <<>> \/ \A i \in DOMAIN offers : dep_dir_coordinate(offers[i]) = dep_dir_coordinate(offers[1])
  <2> SUFFICES ASSUME ~(offers = <<>> \/ \A i \in DOMAIN offers : dep_dir_coordinate(offers[i]) = dep_dir_coordinate(offers[1])) PROVE FALSE
    OBVIOUS
  <2>1. resolve_in_dep_dirs(tree, rel) = <<"error">>
    BY <1>1 DEF resolve_in_dep_dirs
  <2>2. resolve_in_dep_dirs(tree, rel)[1] # "none" /\ resolve_in_dep_dirs(tree, rel)[1] # "found"
    BY <2>1
  <2>3. resolve_import(tree, dir, rel) = resolve_in_dep_dirs(tree, rel)
    BY <2>2 DEF resolve_import
  <2> QED BY <2>2, <2>3
<1>3. PICK cs : cs = {dep_dir_coordinate(d) : d \in ToSet(offers)}
  OBVIOUS
<1>4. cs \subseteq {dep_dir_coordinate(offers[1])}
  <2>1. CASE offers = <<>>
    <3>1. DOMAIN offers = {}
      BY <2>1
    <3> QED BY <1>3, <3>1 DEF ToSet
  <2>2. CASE \A i \in DOMAIN offers : dep_dir_coordinate(offers[i]) = dep_dir_coordinate(offers[1])
    BY <1>3, <2>2 DEF ToSet
  <2> QED BY <1>2, <2>1, <2>2
<1>5. PICK x : x = dep_dir_coordinate(offers[1])
  OBVIOUS
<1>6. IsFiniteSet({x}) /\ Cardinality({x}) = 1
  BY FS_Singleton
<1>7. Cardinality(cs) <= Cardinality({x})
  BY <1>4, <1>5, <1>6, FS_Subset
<1> QED BY <1>1, <1>3, <1>6, <1>7

-----------------------------------------------------------------------------
(* resolve_imports.  rd is what has been read, st the files being put together,
   the innermost first; all others that were read are done. *)

(* File q leads to file p: a set that has what q imports, and with a file that
   was read all that it imports, has p. *)
Leads(tree, rd, q, p) ==
  \A T : /\ ImportedBy(tree, q, rd[q]) \subseteq T
         /\ \A r \in T \cap DOMAIN rd : ImportedBy(tree, r, rd[r]) \subseteq T
         => p \in T

(* An import of a file was found, and its files are among those given. *)
Taken(tree, p, rel, ps) == resolve_import(tree, Dir(p), rel)[1] = "found" /\ FilesOf(tree, p, rel) \subseteq ps

(* A file on the stack: each of its imports is still to be looked up, or was
   found, and its files were read or are still to be. *)
FrameOk(tree, rd, f) ==
  /\ {"path", "imports", "paths", "got", "own"} \subseteq DOMAIN f
  /\ IsSeq(f.imports) /\ IsSeq(f.paths) /\ IsSeq(f.got)
  /\ f.path \in DOMAIN rd /\ f.own = OwnDecls(f.path, rd[f.path])
  /\ ToSet(f.imports) \subseteq ToSet(ImportsOf(rd[f.path]))
  /\ ToSet(f.paths) \subseteq ImportedBy(tree, f.path, rd[f.path])
  /\ \A rel \in ToSet(ImportsOf(rd[f.path])) : rel \in ToSet(f.imports) \/ Taken(tree, f.path, rel, DOMAIN rd \cup ToSet(f.paths))

(* Each file is on the stack once, and those further out lead to it. *)
StackOk(tree, rd, st) ==
  /\ IsSeq(st) /\ st # <<>>
  /\ \A k \in 1..Len(st) : FrameOk(tree, rd, st[k])
  /\ \A k, m \in 1..Len(st) : k < m => st[k].path # st[m].path /\ Leads(tree, rd, st[m].path, st[k].path)
OnStack(st) == {st[k].path : k \in 1..Len(st)}

(* V, the declarations put together so far in the order they will keep: those of
   each file that is done, behind those of the files it imports, unless such a
   file leads back to it. *)
Behind(V, p, q) == \A i, j \in 1..Len(V) : V[i][1] = p /\ V[j][1] = q => j < i
FileOk(tree, rd, done, V, p) ==
  /\ Cardinality({i \in 1..Len(V) : V[i][1] = p}) = Len(OwnDecls(p, rd[p]))
  /\ \A rel \in ToSet(ImportsOf(rd[p])) : Taken(tree, p, rel, DOMAIN rd)
  /\ \A q \in ImportedBy(tree, p, rd[p]) : Leads(tree, rd, q, p) \/ (q \in done /\ Behind(V, p, q))
Stands(rd, e) == e[2] \in 1..Len(Content[rd[e[1]]].decls)
Merged(tree, rd, done, V) ==
  /\ IsSeq(V) /\ \A i \in 1..Len(V) : V[i][1] \in done /\ Stands(rd, V[i])
  /\ \A p \in done : FileOk(tree, rd, done, V, p)

(* V is what the stack has got, from the outermost file to the innermost. *)
Spread(st, V, start) ==
  /\ start \in [1..Len(st) -> 0..Len(V)] /\ start[Len(st)] = 0
  /\ \A k \in 1..Len(st) :
        /\ start[k] + Len(st[k].got) = IF k = 1 THEN Len(V) ELSE start[k - 1]
        /\ \A i \in 1..Len(st[k].got) : st[k].got[i] = V[start[k] + i]

Resolving(tree, rd, st) ==
  /\ \A p \in DOMAIN rd : rd[p] \in DOMAIN Content
  /\ StackOk(tree, rd, st)
  /\ \E V, start : Merged(tree, rd, DOMAIN rd \ OnStack(st), V) /\ Spread(st, V, start)

(* The elements of a sequence. *)
LEMMA SetIs ==
  ASSUME NEW s, IsSeq(s)
  PROVE  /\ ToSet(s) = {s[i] : i \in 1..Len(s)}
         /\ s # <<>> => Head(s) \in ToSet(s) /\ ToSet(s) = {Head(s)} \cup ToSet(Tail(s))
<1>1. PICK n \in Nat : n = Len(s)
  BY DEF IsSeq
<1>2. DOMAIN s = 1..n
  BY <1>1 DEF IsSeq
<1>3. ToSet(s) = {s[i] : i \in 1..n}
  BY <1>2 DEF ToSet
<1>4. ASSUME s # <<>> PROVE Head(s) \in ToSet(s) /\ ToSet(s) = {Head(s)} \cup ToSet(Tail(s))
  <2>1. n >= 1 /\ IsSeq(Tail(s)) /\ Len(Tail(s)) = n - 1 /\ Head(s) = s[1] /\ \A i \in 1..(n - 1) : Tail(s)[i] = s[i + 1]
    BY <1>1, <1>4, TailIs
  <2>2. PICK u : u = Tail(s)
    OBVIOUS
  <2>3. DOMAIN u = 1..(n - 1) /\ \A i \in 1..(n - 1) : u[i] = s[i + 1]
    BY <2>1, <2>2 DEF IsSeq
  <2>4. ToSet(u) = {s[i + 1] : i \in 1..(n - 1)}
    BY <2>3 DEF ToSet
  <2>5. Head(s) \in ToSet(s)
    BY <1>3, <2>1
  <2>6. \A i \in 1..n : i = 1 \/ (i - 1 \in 1..(n - 1) /\ i = (i - 1) + 1)
    OBVIOUS
  <2>7. ToSet(s) \subseteq {Head(s)} \cup ToSet(u)
    <3>1. ASSUME NEW i \in 1..n PROVE s[i] \in {Head(s)} \cup ToSet(u)
      <4>1. CASE i = 1
        BY <2>1, <4>1
      <4>2. CASE i # 1
        <5>1. PICK k \in 1..(n - 1) : i = k + 1
          BY <2>6, <4>2
        <5>2. s[k + 1] \in ToSet(u)
          BY <2>4, <5>1
        <5> QED BY <5>1, <5>2
      <4> QED BY <4>1, <4>2
    <3> QED BY <1>3, <3>1
  <2>8. ToSet(u) \subseteq ToSet(s)
    BY <1>3, <2>4
  <2> QED BY <2>2, <2>5, <2>7, <2>8
<1> QED BY <1>1, <1>3, <1>4

(* Another top of the stack. *)
TopIs(w, st, f) ==
  IsSeq(w) /\ w # <<>> /\ Len(w) = Len(st) /\ Len(st) >= 1 /\ w[1] = f /\ \A k \in 1..Len(st) : k # 1 => w[k] = st[k]
(* Only the file on top of the stack is replaced. *)
LEMMA NewTop ==
  ASSUME NEW st, IsSeq(st), st # <<>>, NEW f, NEW w, w = <<f>> \o Tail(st)
  PROVE  TopIs(w, st, f)
<1>1. PICK n \in Nat : n = Len(st)
  BY DEF IsSeq
<1>2. n >= 1 /\ IsSeq(Tail(st)) /\ Len(Tail(st)) = n - 1 /\ \A i \in 1..(n - 1) : Tail(st)[i] = st[i + 1]
  BY <1>1, TailIs
<1>3. PICK u : u = Tail(st)
  OBVIOUS
<1>4. IsSeq(u) /\ Len(u) = n - 1 /\ \A i \in 1..(n - 1) : u[i] = st[i + 1]
  BY <1>2, <1>3
<1>5. IsSeq(w) /\ Len(w) = Len(u) + 1 /\ w[1] = f /\ \A i \in 1..Len(u) : w[i + 1] = u[i]
  BY <1>3, <1>4, ConsIs
<1>6. ASSUME NEW k \in 1..n, k # 1 PROVE w[k] = st[k]
  <2>1. k - 1 \in 1..(n - 1) /\ (k - 1) + 1 = k
    BY <1>6
  <2>2. w[(k - 1) + 1] = u[k - 1] /\ u[k - 1] = st[(k - 1) + 1]
    BY <1>4, <1>5, <2>1
  <2> QED BY <2>1, <2>2
<1>7. Len(w) = n
  BY <1>2, <1>4, <1>5
<1>8. w # <<>>
  BY <1>2, <1>7
<1> QED BY <1>1, <1>2, <1>5, <1>6, <1>7, <1>8 DEF TopIs

(* The top of the stack changes, but neither its path nor what it has got. *)
LEMMA TopChanges ==
  ASSUME NEW tree, NEW rd, NEW st, Resolving(tree, rd, st), NEW f, f.path = st[1].path, f.got = st[1].got, FrameOk(tree, rd, f),
         NEW w, w = <<f>> \o Tail(st)
  PROVE  Resolving(tree, rd, w)
<1>1. PICK n \in Nat : n = Len(st)
  BY DEF Resolving, StackOk, IsSeq
<1>2. IsSeq(w) /\ w # <<>> /\ Len(w) = n /\ n >= 1 /\ w[1] = f /\ \A k \in 1..n : k # 1 => w[k] = st[k]
  <2>1. IsSeq(st) /\ st # <<>>
    BY DEF Resolving, StackOk
  <2>2. TopIs(w, st, f)
    BY <2>1, NewTop
  <2> QED BY <1>1, <2>2 DEF TopIs
<1>3. \A k \in 1..n : w[k].path = st[k].path /\ w[k].got = st[k].got /\ FrameOk(tree, rd, w[k])
  BY <1>1, <1>2 DEF Resolving, StackOk
<1>4. StackOk(tree, rd, w)
  BY <1>1, <1>2, <1>3 DEF Resolving, StackOk
<1>5. OnStack(w) = OnStack(st)
  BY <1>1, <1>2, <1>3 DEF OnStack
<1>6. PICK V, start : Merged(tree, rd, DOMAIN rd \ OnStack(st), V) /\ Spread(st, V, start)
  BY DEF Resolving
<1>7. Spread(w, V, start)
  <2>1. start \in [1..n -> 0..Len(V)] /\ start[n] = 0
    BY <1>1, <1>6 DEF Spread
  <2>2. ASSUME NEW k \in 1..n
        PROVE  /\ start[k] + Len(w[k].got) = IF k = 1 THEN Len(V) ELSE start[k - 1]
               /\ \A i \in 1..Len(w[k].got) : w[k].got[i] = V[start[k] + i]
    <3>1. w[k].got = st[k].got
      BY <1>3
    <3>2. /\ start[k] + Len(st[k].got) = IF k = 1 THEN Len(V) ELSE start[k - 1]
          /\ \A i \in 1..Len(st[k].got) : st[k].got[i] = V[start[k] + i]
      BY <1>1, <1>6 DEF Spread
    <3> QED BY <3>1, <3>2
  <2> QED BY <1>2, <2>1, <2>2 DEF Spread
<1> QED BY <1>4, <1>5, <1>6, <1>7 DEF Resolving

(* The next import of the top was found. *)
Looked(f, found, g) ==
  /\ DOMAIN g = DOMAIN f /\ g.path = f.path /\ g.got = f.got /\ g.own = f.own
  /\ g.imports = Tail(f.imports) /\ g.paths = found[2]

(* Its files are to be read, and the others of the frame are as before. *)
LEMMA ImportFound ==
  ASSUME NEW tree, IsFiniteSet(tree.names), NEW rd, NEW f, FrameOk(tree, rd, f), f.paths = <<>>, f.imports # <<>>,
         NEW found, found = resolve_import(tree, Dir(f.path), Head(f.imports)), found[1] = "found",
         NEW g, Looked(f, found, g)
  PROVE  FrameOk(tree, rd, g) /\ g.path = f.path /\ g.got = f.got
<1>1. /\ DOMAIN g = DOMAIN f /\ g.path = f.path /\ g.got = f.got /\ g.own = f.own
      /\ g.imports = Tail(f.imports) /\ g.paths = found[2]
  BY DEF Looked
<1>2. IsSeq(f.imports)
  BY DEF FrameOk
<1>3. IsSeq(g.imports) /\ IsSeq(g.paths)
  BY <1>1, <1>2, TailIs, ResolvedIs
<1>4. PICK h : h = Head(f.imports)
  OBVIOUS
<1>5. h \in ToSet(f.imports) /\ ToSet(f.imports) = {h} \cup ToSet(g.imports)
  BY <1>1, <1>2, <1>4, SetIs
<1>6. FilesOf(tree, f.path, h) = ToSet(g.paths)
  BY <1>1, <1>4 DEF FilesOf
<1>7. h \in ToSet(ImportsOf(rd[f.path]))
  BY <1>5 DEF FrameOk
<1>8. ToSet(g.paths) \subseteq ImportedBy(tree, f.path, rd[f.path])
  BY <1>6, <1>7 DEF ImportedBy
<1>9. ToSet(f.paths) = {}
  BY DEF ToSet
<1>10. ASSUME NEW rel \in ToSet(ImportsOf(rd[f.path]))
       PROVE  rel \in ToSet(g.imports) \/ Taken(tree, f.path, rel, DOMAIN rd \cup ToSet(g.paths))
  <2>1. CASE rel = h
    BY <1>4, <1>6, <2>1 DEF Taken
  <2>2. CASE rel # h
    <3>1. rel \in ToSet(f.imports) \/ Taken(tree, f.path, rel, DOMAIN rd \cup ToSet(f.paths))
      BY DEF FrameOk
    <3> QED BY <1>5, <1>9, <2>2, <3>1 DEF Taken
  <2> QED BY <2>1, <2>2
<1>11. ToSet(g.imports) \subseteq ToSet(ImportsOf(rd[f.path]))
  BY <1>5 DEF FrameOk
<1>12. FrameOk(tree, rd, g)
  BY <1>1, <1>3, <1>8, <1>10, <1>11 DEF FrameOk
<1> QED BY <1>1, <1>12

(* The next file of an import has been read. *)
LEMMA FileTaken ==
  ASSUME NEW tree, NEW rd, NEW f, FrameOk(tree, rd, f), f.paths # <<>>, Head(f.paths) \in DOMAIN rd,
         NEW g, g = [f EXCEPT !.paths = Tail(@)]
  PROVE  FrameOk(tree, rd, g) /\ g.path = f.path /\ g.got = f.got
<1>1. /\ DOMAIN g = DOMAIN f /\ g.path = f.path /\ g.got = f.got /\ g.own = f.own
      /\ g.imports = f.imports /\ g.paths = Tail(f.paths)
  BY DEF FrameOk
<1>2. IsSeq(f.paths)
  BY DEF FrameOk
<1>3. IsSeq(g.paths)
  BY <1>1, <1>2, TailIs
<1>4. ToSet(f.paths) = {Head(f.paths)} \cup ToSet(g.paths)
  BY <1>1, <1>2, SetIs
<1>5. \A rel : Taken(tree, f.path, rel, DOMAIN rd \cup ToSet(f.paths)) => Taken(tree, f.path, rel, DOMAIN rd \cup ToSet(g.paths))
  BY <1>4 DEF Taken
<1>6. ToSet(g.paths) \subseteq ImportedBy(tree, f.path, rd[f.path])
  BY <1>4 DEF FrameOk
<1>7. FrameOk(tree, rd, g)
  BY <1>1, <1>3, <1>5, <1>6 DEF FrameOk
<1> QED BY <1>1, <1>7

(* More files are read: what was known of those read before still holds. *)
Extends(rd, more) == DOMAIN rd \subseteq DOMAIN more /\ \A x \in DOMAIN rd : more[x] = rd[x]

(* A frame stays as it should be. *)
LEMMA FrameStays ==
  ASSUME NEW tree, NEW rd, NEW more, Extends(rd, more), NEW f, FrameOk(tree, rd, f)
  PROVE  FrameOk(tree, more, f)
<1>1. f.path \in DOMAIN more /\ more[f.path] = rd[f.path]
  BY DEF Extends, FrameOk
<1>2. \A rel : Taken(tree, f.path, rel, DOMAIN rd \cup ToSet(f.paths)) => Taken(tree, f.path, rel, DOMAIN more \cup ToSet(f.paths))
  BY DEF Extends, Taken
<1> QED BY <1>1, <1>2 DEF FrameOk

(* What leads to a file goes on to do so. *)
LEMMA LeadsStay ==
  ASSUME NEW tree, NEW rd, NEW more, Extends(rd, more), NEW q \in DOMAIN rd, NEW p, Leads(tree, rd, q, p)
  PROVE  Leads(tree, more, q, p)
<1> SUFFICES ASSUME NEW T, ImportedBy(tree, q, more[q]) \subseteq T, \A r \in T \cap DOMAIN more : ImportedBy(tree, r, more[r]) \subseteq T
             PROVE  p \in T
  BY DEF Leads
<1>1. ImportedBy(tree, q, rd[q]) \subseteq T
  BY DEF Extends
<1>2. ASSUME NEW r \in T \cap DOMAIN rd PROVE ImportedBy(tree, r, rd[r]) \subseteq T
  <2>1. r \in T \cap DOMAIN more /\ more[r] = rd[r]
    BY DEF Extends
  <2> QED BY <2>1
<1> QED BY <1>1, <1>2 DEF Leads

(* The files a file imports have been read when all its imports were taken. *)
LEMMA ImportsRead ==
  ASSUME NEW tree, NEW p, NEW c, NEW ps, \A rel \in ToSet(ImportsOf(c)) : Taken(tree, p, rel, ps)
  PROVE  ImportedBy(tree, p, c) \subseteq ps
BY DEF ImportedBy, Taken

(* What is put together stays in order. *)
LEMMA MergedStays ==
  ASSUME NEW tree, NEW rd, NEW more, Extends(rd, more), NEW done, done \subseteq DOMAIN rd, NEW V, Merged(tree, rd, done, V)
  PROVE  Merged(tree, more, done, V)
<1>1. ASSUME NEW p \in done PROVE FileOk(tree, more, done, V, p)
  <2>1. FileOk(tree, rd, done, V, p)
    BY DEF Merged
  <2>2. more[p] = rd[p]
    BY DEF Extends
  <2>3. \A rel \in ToSet(ImportsOf(more[p])) : Taken(tree, p, rel, DOMAIN more)
    BY <2>1, <2>2 DEF FileOk, Taken, Extends
  <2>4. ImportedBy(tree, p, rd[p]) \subseteq DOMAIN rd
    BY <2>1, ImportsRead DEF FileOk
  <2>5. ASSUME NEW q \in ImportedBy(tree, p, more[p]) PROVE Leads(tree, more, q, p) \/ (q \in done /\ Behind(V, p, q))
    <3>1. q \in DOMAIN rd
      BY <2>2, <2>4
    <3>2. Leads(tree, rd, q, p) \/ (q \in done /\ Behind(V, p, q))
      BY <2>1, <2>2 DEF FileOk
    <3>3. Leads(tree, rd, q, p) => Leads(tree, more, q, p)
      BY <3>1, LeadsStay
    <3> QED BY <3>2, <3>3
  <2> QED BY <2>1, <2>2, <2>3, <2>5 DEF FileOk
<1>2. ASSUME NEW i \in 1..Len(V) PROVE V[i][1] \in done /\ Stands(more, V[i])
  <2>1. V[i][1] \in done /\ Stands(rd, V[i])
    BY DEF Merged
  <2>2. more[V[i][1]] = rd[V[i][1]]
    BY <2>1 DEF Extends
  <2> QED BY <2>1, <2>2 DEF Stands
<1> QED BY <1>1, <1>2 DEF Merged

(* File p has just been read (more), and its frame F was put on top of b, the
   stack with its top further on. *)
OnTop(tree, rd, st, p, more, F, b, w) ==
  /\ p \notin DOMAIN rd /\ p \in ImportedBy(tree, st[1].path, rd[st[1].path])
  /\ Extends(rd, more) /\ DOMAIN more = DOMAIN rd \cup {p} /\ more[p] \in DOMAIN Content
  /\ FrameOk(tree, more, F) /\ F.path = p /\ F.got = <<>>
  /\ IsSeq(b) /\ Len(b) = Len(st)
  /\ \A k \in 1..Len(st) : FrameOk(tree, more, b[k]) /\ b[k].path = st[k].path /\ b[k].got = st[k].got
  /\ IsSeq(w) /\ Len(w) = Len(b) + 1 /\ w[1] = F /\ \A i \in 1..Len(b) : w[i + 1] = b[i]

(* A file that has just been read gets a frame on top of those there are. *)
LEMMA Pushed ==
  ASSUME NEW tree, NEW rd, NEW st, Resolving(tree, rd, st), NEW p, NEW more, NEW F, NEW b, NEW w, OnTop(tree, rd, st, p, more, F, b, w)
  PROVE  Resolving(tree, more, w)
<1> USE DEF OnTop
<1>1. PICK n \in Nat : n = Len(st)
  BY DEF Resolving, StackOk, IsSeq
<1>2. IsSeq(st) /\ st # <<>> /\ \A k \in 1..n : FrameOk(tree, rd, st[k])
  BY <1>1 DEF Resolving, StackOk
<1>4. n >= 1
  <2>1. Len(st) >= 1
    BY <1>2, TailIs
  <2> QED BY <1>1, <2>1
<1>5. Len(w) = n + 1 /\ w[1] = F /\ \A i \in 1..n : w[i + 1] = b[i]
  BY <1>1
<1>6. \A k \in 1..(n + 1) : k = 1 \/ (k - 1 \in 1..n /\ w[k] = b[k - 1])
  <2>1. \A k \in 1..(n + 1) : k = 1 \/ (k - 1 \in 1..n /\ (k - 1) + 1 = k)
    OBVIOUS
  <2> QED BY <1>5, <2>1
<1>8. FrameOk(tree, rd, st[1])
  BY <1>2, <1>4
<1>10. \A k \in 1..n : FrameOk(tree, more, b[k]) /\ b[k].path = st[k].path /\ b[k].got = st[k].got
  BY <1>1
<1>14. \A k \in 1..(n + 1) : FrameOk(tree, more, w[k])
  BY <1>5, <1>6, <1>10
<1>15. \A k \in 1..n : st[k].path \in DOMAIN rd
  BY <1>2 DEF FrameOk
<1>17. \A k, m \in 1..n : k < m => Leads(tree, more, st[m].path, st[k].path)
  <2>1. \A k, m \in 1..n : k < m => Leads(tree, rd, st[m].path, st[k].path)
    BY <1>1 DEF Resolving, StackOk
  <2> QED BY <1>15, <2>1, LeadsStay
<1>18. ASSUME NEW m \in 1..n PROVE Leads(tree, more, st[m].path, p)
  <2> SUFFICES ASSUME NEW T, ImportedBy(tree, st[m].path, more[st[m].path]) \subseteq T,
                      \A r \in T \cap DOMAIN more : ImportedBy(tree, r, more[r]) \subseteq T
               PROVE  p \in T
    BY DEF Leads
  <2>1. st[1].path \in DOMAIN rd /\ st[1].path \in DOMAIN more /\ more[st[1].path] = rd[st[1].path]
    BY <1>8 DEF FrameOk, Extends
  <2>2. CASE m = 1
    BY <2>1, <2>2
  <2>3. CASE m # 1
    <3>1. 1 \in 1..n /\ 1 < m
      BY <1>4, <2>3
    <3>2. Leads(tree, more, st[m].path, st[1].path)
      BY <1>17, <3>1
    <3>3. st[1].path \in T
      BY <3>2 DEF Leads
    <3> QED BY <2>1, <3>3
  <2> QED BY <2>2, <2>3
<1>19. ASSUME NEW k \in 1..(n + 1), NEW m \in 1..(n + 1), k < m
       PROVE  w[k].path # w[m].path /\ Leads(tree, more, w[m].path, w[k].path)
  <2>1. m # 1 /\ m - 1 \in 1..n /\ w[m] = b[m - 1]
    BY <1>6, <1>19
  <2>2. w[m].path = st[m - 1].path
    BY <1>10, <2>1
  <2>3. CASE k = 1
    <3>1. w[k].path = p
      BY <1>5, <2>3
    <3>2. st[m - 1].path # p
      BY <1>15, <2>1
    <3> QED BY <1>18, <2>1, <2>2, <3>1, <3>2
  <2>4. CASE k # 1
    <3>1. k - 1 \in 1..n /\ w[k] = b[k - 1] /\ k - 1 < m - 1
      BY <1>6, <1>19, <2>4
    <3>2. w[k].path = st[k - 1].path
      BY <1>10, <3>1
    <3>3. \A x, y \in 1..n : x < y => st[x].path # st[y].path
      BY <1>1 DEF Resolving, StackOk
    <3> QED BY <1>17, <2>1, <2>2, <3>1, <3>2, <3>3
  <2> QED BY <2>3, <2>4
<1>20. StackOk(tree, more, w)
  <2>1. w # <<>>
    BY <1>5
  <2> QED BY <1>5, <1>14, <1>19, <2>1 DEF StackOk
<1>21. OnStack(w) = {p} \cup OnStack(st)
  <2>1. ASSUME NEW k \in 1..(n + 1) PROVE w[k].path \in {p} \cup OnStack(st)
    <3>1. CASE k = 1
      BY <1>5, <3>1
    <3>2. CASE k # 1
      <4>1. k - 1 \in 1..n /\ w[k].path = st[k - 1].path
        BY <1>6, <1>10, <3>2
      <4> QED BY <1>1, <4>1 DEF OnStack
    <3> QED BY <3>1, <3>2
  <2>2. \A k \in 1..n : k + 1 \in 1..(n + 1) /\ w[k + 1].path = st[k].path
    BY <1>5, <1>10
  <2>3. 1 \in 1..(n + 1) /\ w[1].path = p
    BY <1>5
  <2>4. OnStack(w) \subseteq {p} \cup OnStack(st)
    BY <1>5, <2>1 DEF OnStack
  <2>5. p \in OnStack(w)
    BY <1>5, <2>3 DEF OnStack
  <2>6. ASSUME NEW k \in 1..n PROVE st[k].path \in OnStack(w)
    <3>1. PICK j \in 1..(n + 1) : w[j].path = st[k].path
      BY <2>2
    <3> QED BY <1>5, <3>1 DEF OnStack
  <2>7. OnStack(st) \subseteq OnStack(w)
    BY <1>1, <2>6 DEF OnStack
  <2> QED BY <2>4, <2>5, <2>7
<1>22. OnStack(st) \subseteq DOMAIN rd
  BY <1>1, <1>15 DEF OnStack
<1>23. DOMAIN more \ OnStack(w) = DOMAIN rd \ OnStack(st)
  BY <1>21, <1>22
<1>24. PICK V, start : Merged(tree, rd, DOMAIN rd \ OnStack(st), V) /\ Spread(st, V, start)
  BY DEF Resolving
<1>25. Merged(tree, more, DOMAIN more \ OnStack(w), V)
  BY <1>23, <1>24, MergedStays
<1>26. PICK v \in Nat : v = Len(V)
  BY <1>24 DEF Merged, IsSeq
<1> DEFINE start2 == [k \in 1..(n + 1) |-> IF k = 1 THEN v ELSE start[k - 1]]
<1>27. start \in [1..n -> 0..v] /\ start[n] = 0
  BY <1>1, <1>24, <1>26 DEF Spread
<1>28. start2 \in [1..(n + 1) -> 0..v] /\ start2[n + 1] = 0
  <2>1. n + 1 # 1 /\ n + 1 \in 1..(n + 1) /\ (n + 1) - 1 = n
    BY <1>4
  <2>2. \A k \in 1..(n + 1) : k = 1 \/ (k - 1 \in 1..n)
    OBVIOUS
  <2> QED BY <1>27, <2>1, <2>2
<1>29. ASSUME NEW k \in 1..(n + 1)
       PROVE  /\ start2[k] + Len(w[k].got) = IF k = 1 THEN Len(V) ELSE start2[k - 1]
              /\ \A i \in 1..Len(w[k].got) : w[k].got[i] = V[start2[k] + i]
  <2>1. CASE k = 1
    <3>1. w[k].got = <<>>
      BY <1>5, <2>1
    <3>2. Len(<<>>) = 0
      OBVIOUS
    <3> QED BY <1>26, <2>1, <3>1, <3>2
  <2>2. CASE k # 1
    <3>1. k - 1 \in 1..n /\ w[k].got = st[k - 1].got
      BY <1>6, <1>10, <2>2
    <3>2. start2[k] = start[k - 1]
      BY <2>2
    <3>3. /\ start[k - 1] + Len(st[k - 1].got) = IF k - 1 = 1 THEN Len(V) ELSE start[(k - 1) - 1]
          /\ \A i \in 1..Len(st[k - 1].got) : st[k - 1].got[i] = V[start[k - 1] + i]
      BY <1>1, <1>24, <3>1 DEF Spread
    <3>4. start2[k - 1] = IF k - 1 = 1 THEN v ELSE start[(k - 1) - 1]
      BY <2>2
    <3> HIDE DEF start2
    <3> QED BY <1>26, <2>2, <3>1, <3>2, <3>3, <3>4
  <2> QED BY <2>1, <2>2
<1>30. Spread(w, V, start2)
  <2> HIDE DEF start2
  <2> QED BY <1>5, <1>26, <1>28, <1>29 DEF Spread
<1>31. \A q \in DOMAIN more : more[q] \in DOMAIN Content
  BY DEF Resolving, Extends
<1> HIDE DEF start2
<1> QED BY <1>20, <1>25, <1>30, <1>31 DEF Resolving

(* The next file of an import is read. *)
LEMMA FileRead ==
  ASSUME NEW tree, NEW rd, NEW st, Resolving(tree, rd, st), NEW f, f = st[1], f.paths # <<>>,
         Head(f.paths) \notin DOMAIN rd, NEW c \in DOMAIN Content,
         NEW more, more = [q \in DOMAIN rd \cup {Head(f.paths)} |-> IF q = Head(f.paths) THEN c ELSE rd[q]],
         NEW g, g = [f EXCEPT !.paths = Tail(@)],
         NEW b, b = <<g>> \o Tail(st), NEW w, w = <<Frame(Head(f.paths), c)>> \o b
  PROVE  Resolving(tree, more, w)
<1>1. PICK n \in Nat : n = Len(st)
  BY DEF Resolving, StackOk, IsSeq
<1>2. IsSeq(st) /\ st # <<>> /\ \A k \in 1..n : FrameOk(tree, rd, st[k])
  BY <1>1 DEF Resolving, StackOk
<1>3. TopIs(b, st, g)
  BY <1>2, NewTop
<1>4. IsSeq(b) /\ Len(b) = n /\ n >= 1 /\ b[1] = g /\ \A k \in 1..n : k # 1 => b[k] = st[k]
  BY <1>1, <1>3 DEF TopIs
<1>5. PICK p : p = Head(f.paths)
  OBVIOUS
<1>6. PICK F : F = Frame(p, c)
  OBVIOUS
<1>7. IsSeq(w) /\ Len(w) = Len(b) + 1 /\ w[1] = F /\ \A i \in 1..Len(b) : w[i + 1] = b[i]
  <2>1. w = <<F>> \o b
    BY <1>5, <1>6
  <2> QED BY <1>4, <2>1, ConsIs
<1>8. Extends(rd, more) /\ DOMAIN more = DOMAIN rd \cup {p} /\ more[p] = c /\ p \notin DOMAIN rd
  <2>1. DOMAIN more = DOMAIN rd \cup {p} /\ p \notin DOMAIN rd
    BY <1>5
  <2>2. more[p] = c /\ \A q \in DOMAIN rd : more[q] = rd[q]
    BY <1>5, <2>1
  <2> QED BY <2>1, <2>2 DEF Extends
<1>9. FrameOk(tree, rd, f)
  <2>1. 1 \in 1..n
    BY <1>4
  <2>2. FrameOk(tree, rd, st[1])
    BY <1>2, <2>1
  <2> QED BY <2>2
<1>10. FrameOk(tree, more, g) /\ g.path = f.path /\ g.got = f.got
  <2>1. FrameOk(tree, more, f)
    BY <1>8, <1>9, FrameStays
  <2>2. Head(f.paths) \in DOMAIN more
    BY <1>5, <1>8
  <2>3. FrameOk(tree, more, g)
    BY <2>1, <2>2, FileTaken
  <2>4. g.path = f.path /\ g.got = f.got
    BY <1>9 DEF FrameOk
  <2> QED BY <2>3, <2>4
<1>11. \A k \in 1..n : FrameOk(tree, more, st[k])
  BY <1>2, <1>8, FrameStays
<1>12. ASSUME NEW k \in 1..n PROVE FrameOk(tree, more, b[k]) /\ b[k].path = st[k].path /\ b[k].got = st[k].got
  <2>1. CASE k = 1
    BY <1>4, <1>10, <2>1
  <2>2. CASE k # 1
    BY <1>4, <1>11, <2>2
  <2> QED BY <2>1, <2>2
<1>13. F.path = p /\ F.got = <<>> /\ F.paths = <<>> /\ F.imports = ImportsOf(c) /\ F.own = OwnDecls(p, c)
       /\ DOMAIN F = {"path", "imports", "paths", "got", "own"}
  BY <1>6 DEF Frame
<1>14. FrameOk(tree, more, F)
  <2>1. IsSeq(ImportsOf(c))
    BY ImportsIs
  <2>2. IsSeq(<<>>)
    <3>1. <<>> \in Seq({})
      OBVIOUS
    <3> QED BY <3>1, SeqIs
  <2>3. ToSet(F.paths) = {}
    BY <1>13 DEF ToSet
  <2> QED BY <1>8, <1>13, <2>1, <2>2, <2>3 DEF FrameOk
<1>15. p \in ImportedBy(tree, st[1].path, rd[st[1].path])
  <2>1. IsSeq(f.paths) /\ ToSet(f.paths) \subseteq ImportedBy(tree, f.path, rd[f.path])
    BY <1>9 DEF FrameOk
  <2>2. Head(f.paths) \in ToSet(f.paths)
    BY <2>1, SetIs
  <2> QED BY <1>5, <2>1, <2>2
<1>16. more[p] \in DOMAIN Content
  BY <1>8
<1>17. \A k \in 1..Len(st) : FrameOk(tree, more, b[k]) /\ b[k].path = st[k].path /\ b[k].got = st[k].got
  BY <1>1, <1>12
<1>18. Len(b) = Len(st)
  BY <1>1, <1>4
<1>19. IsSeq(b) /\ IsSeq(w)
  BY <1>4, <1>7
<1>20. Len(w) = Len(b) + 1 /\ w[1] = F /\ \A i \in 1..Len(b) : w[i + 1] = b[i]
  BY <1>7
<1>21. Extends(rd, more) /\ DOMAIN more = DOMAIN rd \cup {p} /\ p \notin DOMAIN rd /\ F.path = p /\ F.got = <<>>
  BY <1>8, <1>13
<1>22. OnTop(tree, rd, st, p, more, F, b, w)
  BY <1>14, <1>15, <1>16, <1>17, <1>18, <1>19, <1>20, <1>21, Zenon DEF OnTop
<1> QED BY <1>22, Pushed, Zenon

(* A file is complete when its imports are: what it declares goes behind all that
   is there, and with that behind the files it imports. *)
LEMMA FileComplete ==
  ASSUME NEW tree, NEW rd, NEW st, Resolving(tree, rd, st), st[1].paths = <<>>, st[1].imports = <<>>,
         NEW V, Merged(tree, rd, DOMAIN rd \ OnStack(st), V), NEW p, p = st[1].path, NEW done, done = DOMAIN rd \ OnStack(st),
         NEW own, own = OwnDecls(p, rd[p]), NEW W, W = V \o own
  PROVE  Merged(tree, rd, done \cup {p}, W)
<1>1. PICK n \in Nat : n = Len(st)
  BY DEF Resolving, StackOk, IsSeq
<1>2. n >= 1 /\ FrameOk(tree, rd, st[1])
  <2>1. Len(st) >= 1
    BY TailIs DEF Resolving, StackOk
  <2> QED BY <1>1, <2>1 DEF Resolving, StackOk
<1>3. p \in DOMAIN rd /\ p \notin done /\ rd[p] \in DOMAIN Content
  <2>1. 1 \in 1..n
    BY <1>2
  <2>2. p \in OnStack(st)
    BY <1>1, <2>1 DEF OnStack
  <2> QED BY <1>2, <2>2 DEF FrameOk, Resolving
<1>4. IsSeq(own) /\ \A i \in 1..Len(own) : own[i][1] = p /\ Stands(rd, own[i])
  <2>1. IsSeq(own) /\ \A i \in 1..Len(own) : own[i][1] = p /\ own[i][2] \in 1..Len(Content[rd[p]].decls)
    BY <1>3, OwnIs
  <2> QED BY <2>1 DEF Stands
<1>5. IsSeq(V) /\ \A i \in 1..Len(V) : V[i][1] \in done /\ Stands(rd, V[i])
  BY DEF Merged
<1>6. PICK v \in Nat : v = Len(V)
  BY <1>5 DEF IsSeq
<1>7. PICK o \in Nat : o = Len(own)
  BY <1>4 DEF IsSeq
<1>8. IsSeq(W) /\ Len(W) = v + o /\ (\A i \in 1..v : W[i] = V[i]) /\ (\A i \in 1..o : W[v + i] = own[i])
  BY <1>4, <1>5, <1>6, <1>7, ConcatIs
<1>9. ASSUME NEW i \in 1..(v + o)
      PROVE  Stands(rd, W[i]) /\ IF i <= v THEN i \in 1..v /\ W[i] = V[i] /\ W[i][1] \in done ELSE W[i][1] = p
  <2>1. CASE i <= v
    <3>1. i \in 1..v
      BY <2>1
    <3> QED BY <1>5, <1>6, <1>8, <2>1, <3>1
  <2>2. CASE ~(i <= v)
    <3>1. PICK j \in 1..o : i = v + j
      <4>1. i - v \in 1..o /\ i = v + (i - v)
        BY <2>2
      <4> QED BY <4>1
    <3>2. W[i] = own[j] /\ own[j][1] = p /\ Stands(rd, own[j])
      BY <1>4, <1>7, <1>8, <3>1
    <3> QED BY <2>2, <3>2
  <2> QED BY <2>1, <2>2
<1> DEFINE Places(U, x) == {i \in 1..Len(U) : U[i][1] = x}
<1>10. ASSUME NEW x \in done PROVE FileOk(tree, rd, done \cup {p}, W, x)
  <2>1. FileOk(tree, rd, done, V, x)
    BY DEF Merged
  <2>2. x # p
    BY <1>3
  <2>3. Places(W, x) = Places(V, x)
    <3>1. \A i \in 1..(v + o) : W[i][1] = x => i \in 1..v /\ V[i][1] = x
      BY <1>9, <2>2
    <3>2. \A i \in 1..v : i \in 1..(v + o) /\ W[i] = V[i]
      BY <1>8
    <3> QED BY <1>6, <1>8, <3>1, <3>2
  <2>4. Cardinality(Places(W, x)) = Len(OwnDecls(x, rd[x]))
    BY <2>1, <2>3 DEF FileOk
  <2>5. ASSUME NEW q \in done, Behind(V, x, q) PROVE Behind(W, x, q)
    <3> SUFFICES ASSUME NEW i \in 1..(v + o), NEW j \in 1..(v + o), W[i][1] = x, W[j][1] = q PROVE j < i
      BY <1>8 DEF Behind
    <3>1. q # p
      BY <1>3
    <3>2. i \in 1..v /\ V[i][1] = x /\ j \in 1..v /\ V[j][1] = q
      BY <1>9, <2>2, <3>1
    <3> QED BY <1>6, <2>5, <3>2 DEF Behind
  <2>6. \A q \in ImportedBy(tree, x, rd[x]) : Leads(tree, rd, q, x) \/ (q \in done \cup {p} /\ Behind(W, x, q))
    BY <2>1, <2>5 DEF FileOk
  <2> QED BY <2>1, <2>4, <2>6 DEF FileOk
<1>11. FileOk(tree, rd, done \cup {p}, W, p)
  <2>1. Cardinality(Places(W, p)) = Len(OwnDecls(p, rd[p]))
    <3>1. ASSUME NEW i \in 1..(v + o) PROVE (W[i][1] = p) <=> (i >= v + 1)
      <4>1. CASE i <= v
        <5>1. W[i][1] \in done
          BY <1>9, <4>1
        <5>2. W[i][1] # p
          BY <1>3, <5>1
        <5>3. ~(i >= v + 1)
          BY <4>1
        <5> QED BY <5>2, <5>3
      <4>2. CASE ~(i <= v)
        <5>1. W[i][1] = p
          BY <1>9, <4>2
        <5> QED BY <4>2, <5>1
      <4> QED BY <4>1, <4>2
    <3>2. Places(W, p) = (v + 1)..(v + o)
      BY <1>8, <3>1
    <3>3. Cardinality((v + 1)..(v + o)) = IF v + 1 > v + o THEN 0 ELSE (v + o) - (v + 1) + 1
      <4>1. v + 1 \in Int /\ v + o \in Int
        OBVIOUS
      <4> QED BY <4>1, FS_Interval
    <3>4. Cardinality((v + 1)..(v + o)) = o
      BY <3>3
    <3> QED BY <1>7, <3>2, <3>4
  <2>2. ToSet(st[1].imports) = {} /\ ToSet(st[1].paths) = {}
    BY DEF ToSet
  <2>3. \A rel \in ToSet(ImportsOf(rd[p])) : Taken(tree, p, rel, DOMAIN rd)
    BY <1>2, <2>2 DEF FrameOk, Taken
  <2>4. ImportedBy(tree, p, rd[p]) \subseteq DOMAIN rd
    BY <2>3, ImportsRead
  <2>5. ASSUME NEW q \in ImportedBy(tree, p, rd[p]) PROVE Leads(tree, rd, q, p) \/ (q \in done \cup {p} /\ Behind(W, p, q))
    <3>1. CASE q \in OnStack(st)
      <4>1. PICK m \in 1..n : q = st[m].path
        BY <1>1, <3>1 DEF OnStack
      <4>2. CASE m = 1
        <5>1. q = p
          BY <4>1, <4>2
        <5> QED BY <5>1 DEF Leads
      <4>3. CASE m # 1
        <5>1. 1 \in 1..n /\ 1 < m
          BY <4>3
        <5>2. Leads(tree, rd, st[m].path, st[1].path)
          BY <1>1, <4>1, <5>1 DEF Resolving, StackOk
        <5> QED BY <4>1, <5>2
      <4> QED BY <4>2, <4>3
    <3>2. CASE q \notin OnStack(st)
      <4>1. q \in done /\ q # p
        BY <1>3, <2>4, <3>2
      <4>2. ASSUME NEW i \in 1..(v + o), NEW j \in 1..(v + o), W[i][1] = p, W[j][1] = q PROVE j < i
        <5>1. ~(i <= v)
          BY <1>3, <1>9, <4>2
        <5>2. j <= v
          BY <1>9, <4>1, <4>2
        <5> QED BY <5>1, <5>2
      <4>3. Behind(W, p, q)
        BY <1>8, <4>2 DEF Behind
      <4> QED BY <4>1, <4>3
    <3> QED BY <3>1, <3>2
  <2> QED BY <2>1, <2>3, <2>5 DEF FileOk
<1>12. \A i \in 1..Len(W) : W[i][1] \in done \cup {p} /\ Stands(rd, W[i])
  BY <1>8, <1>9
<1> QED BY <1>8, <1>10, <1>11, <1>12 DEF Merged

(* The stack without its top, whose declarations the next one has got. *)
Popped(st, w) ==
  /\ IsSeq(w) /\ w # <<>> /\ Len(w) = Len(st) - 1
  /\ w[1].path = st[2].path /\ w[1].got = st[2].got \o (st[1].got \o st[1].own)
  /\ \A k \in 1..Len(w) : k # 1 => w[k] = st[k + 1]

(* A complete file gives what it has to the file that imports it. *)
LEMMA Handed ==
  ASSUME NEW tree, NEW rd, NEW st, Resolving(tree, rd, st), Len(st) # 1, st[1].paths = <<>>, st[1].imports = <<>>,
         NEW w, Popped(st, w), FrameOk(tree, rd, w[1])
  PROVE  Resolving(tree, rd, w)
<1>1. PICK n \in Nat : n = Len(st)
  BY DEF Resolving, StackOk, IsSeq
<1>2. n >= 2 /\ Len(w) = n - 1 /\ \A k \in 1..n : FrameOk(tree, rd, st[k])
  <2>1. Len(st) >= 1
    BY TailIs DEF Resolving, StackOk
  <2> QED BY <1>1, <2>1 DEF Resolving, StackOk, Popped
<1>3. \A k \in 1..(n - 1) : k + 1 \in 1..n /\ w[k].path = st[k + 1].path /\ FrameOk(tree, rd, w[k])
  <2> SUFFICES ASSUME NEW k \in 1..(n - 1) PROVE k + 1 \in 1..n /\ w[k].path = st[k + 1].path /\ FrameOk(tree, rd, w[k])
    OBVIOUS
  <2>1. k + 1 \in 1..n
    OBVIOUS
  <2>2. CASE k = 1
    BY <2>1, <2>2 DEF Popped
  <2>3. CASE k # 1
    <3>1. w[k] = st[k + 1]
      BY <1>2, <2>3 DEF Popped
    <3> QED BY <1>2, <2>1, <3>1
  <2> QED BY <2>2, <2>3
<1>4. StackOk(tree, rd, w)
  <2>1. ASSUME NEW k \in 1..(n - 1), NEW m \in 1..(n - 1), k < m
        PROVE  w[k].path # w[m].path /\ Leads(tree, rd, w[m].path, w[k].path)
    <3>1. k + 1 \in 1..n /\ m + 1 \in 1..n /\ k + 1 < m + 1
      BY <2>1
    <3>2. st[k + 1].path # st[m + 1].path /\ Leads(tree, rd, st[m + 1].path, st[k + 1].path)
      BY <1>1, <3>1 DEF Resolving, StackOk
    <3> QED BY <1>3, <3>2
  <2> QED BY <1>2, <1>3, <2>1 DEF StackOk, Popped
<1>5. PICK p : p = st[1].path
  OBVIOUS
<1>6. p \in DOMAIN rd /\ rd[p] \in DOMAIN Content /\ st[1].own = OwnDecls(p, rd[p])
  <2>1. FrameOk(tree, rd, st[1])
    BY <1>2
  <2> QED BY <1>5, <2>1 DEF FrameOk, Resolving
<1>7. OnStack(w) = OnStack(st) \ {p}
  <2>1. \A k \in 1..n : k = 1 \/ (k - 1 \in 1..(n - 1) /\ (k - 1) + 1 = k)
    OBVIOUS
  <2>2. ASSUME NEW k \in 1..(n - 1) PROVE w[k].path \in OnStack(st) \ {p}
    <3>1. k + 1 \in 1..n /\ w[k].path = st[k + 1].path
      BY <1>3
    <3>2. 1 \in 1..n /\ 1 < k + 1
      BY <1>2
    <3>3. st[1].path # st[k + 1].path
      BY <1>1, <3>1, <3>2 DEF Resolving, StackOk
    <3> QED BY <1>1, <1>5, <3>1, <3>3 DEF OnStack
  <2>3. ASSUME NEW k \in 1..n, st[k].path # p PROVE st[k].path \in OnStack(w)
    <3>1. k # 1
      BY <1>5, <2>3
    <3>2. PICK j \in 1..(n - 1) : j + 1 = k
      BY <2>1, <3>1
    <3>3. w[j].path = st[k].path
      BY <1>3, <3>2
    <3> QED BY <1>2, <3>3 DEF OnStack
  <2>4. OnStack(w) \subseteq OnStack(st) \ {p}
    BY <1>2, <2>2 DEF OnStack
  <2>5. OnStack(st) \ {p} \subseteq OnStack(w)
    <3> SUFFICES ASSUME NEW x \in OnStack(st), x # p PROVE x \in OnStack(w)
      OBVIOUS
    <3>1. PICK k \in 1..n : x = st[k].path
      BY <1>1 DEF OnStack
    <3> QED BY <2>3, <3>1
  <2> QED BY <2>4, <2>5
<1>8. PICK V, start : Merged(tree, rd, DOMAIN rd \ OnStack(st), V) /\ Spread(st, V, start)
  BY DEF Resolving
<1>9. PICK own : own = OwnDecls(p, rd[p])
  OBVIOUS
<1>10. PICK W : W = V \o own
  OBVIOUS
<1>11. Merged(tree, rd, DOMAIN rd \ OnStack(w), W)
  <2>1. PICK done : done = DOMAIN rd \ OnStack(st)
    OBVIOUS
  <2>2. Merged(tree, rd, done \cup {p}, W)
    BY <1>5, <1>8, <1>9, <1>10, <2>1, FileComplete
  <2>3. p \in OnStack(st)
    <3>1. 1 \in 1..n
      BY <1>2
    <3> QED BY <1>1, <1>5, <3>1 DEF OnStack
  <2>4. done \cup {p} = DOMAIN rd \ OnStack(w)
    BY <1>6, <1>7, <2>1, <2>3
  <2> QED BY <2>2, <2>4
<1>12. IsSeq(V) /\ IsSeq(own) /\ IsSeq(st[1].got) /\ IsSeq(st[2].got)
  <2>1. FrameOk(tree, rd, st[1]) /\ FrameOk(tree, rd, st[2])
    <3>1. 1 \in 1..n /\ 2 \in 1..n
      BY <1>2
    <3> QED BY <1>2, <3>1
  <2>2. IsSeq(own)
    BY <1>6, <1>9, OwnIs
  <2>3. IsSeq(V)
    BY <1>8 DEF Merged
  <2> QED BY <2>1, <2>2, <2>3 DEF FrameOk
<1>13. PICK v \in Nat : v = Len(V)
  BY <1>12 DEF IsSeq
<1>14. PICK o \in Nat : o = Len(own)
  BY <1>12 DEF IsSeq
<1>15. PICK a \in Nat : a = Len(st[1].got)
  BY <1>12 DEF IsSeq
<1>16. PICK b \in Nat : b = Len(st[2].got)
  BY <1>12 DEF IsSeq
<1>17. Len(W) = v + o /\ (\A i \in 1..v : W[i] = V[i]) /\ (\A i \in 1..o : W[v + i] = own[i])
  BY <1>10, <1>12, <1>13, <1>14, ConcatIs
<1>18. start \in [1..n -> 0..v] /\ start[n] = 0
  BY <1>1, <1>8, <1>13 DEF Spread
<1>19. \A k \in 1..n : /\ start[k] + Len(st[k].got) = IF k = 1 THEN v ELSE start[k - 1]
                       /\ \A i \in 1..Len(st[k].got) : st[k].got[i] = V[start[k] + i]
  BY <1>1, <1>8, <1>13 DEF Spread
<1>20. start[1] + a = v /\ start[2] + b = start[1] /\ start[1] \in 0..v /\ start[2] \in 0..v
       /\ (\A i \in 1..a : st[1].got[i] = V[start[1] + i]) /\ (\A i \in 1..b : st[2].got[i] = V[start[2] + i])
  <2>1. 1 \in 1..n /\ 2 \in 1..n /\ 2 # 1 /\ 2 - 1 = 1
    BY <1>2
  <2> QED BY <1>15, <1>16, <1>18, <1>19, <2>1
<1>201. PICK s1 \in Nat : s1 = start[1]
  BY <1>20
<1>202. PICK s2 \in Nat : s2 = start[2]
  BY <1>20
<1>203. s1 + a = v /\ s2 + b = s1
  BY <1>20, <1>201, <1>202
<1>204. v = s2 + b + a
  BY <1>203
<1>21. PICK u : u = st[1].got \o own
  OBVIOUS
<1>22. IsSeq(u) /\ Len(u) = a + o /\ (\A i \in 1..a : u[i] = st[1].got[i]) /\ (\A i \in 1..o : u[a + i] = own[i])
  BY <1>12, <1>14, <1>15, <1>21, ConcatIs
<1>23. PICK h : h = st[2].got \o u
  OBVIOUS
<1>24. Len(h) = b + (a + o) /\ (\A i \in 1..b : h[i] = st[2].got[i]) /\ (\A i \in 1..(a + o) : h[b + i] = u[i])
  <2>1. PICK g : g = st[2].got
    OBVIOUS
  <2>2. IsSeq(g) /\ IsSeq(u) /\ Len(g) = b /\ Len(u) = a + o /\ h = g \o u
    BY <1>12, <1>16, <1>22, <1>23, <2>1
  <2>3. Len(h) = Len(g) + Len(u) /\ (\A i \in 1..Len(g) : h[i] = g[i]) /\ (\A i \in 1..Len(u) : h[Len(g) + i] = u[i])
    <3>1. IsSeq(g) /\ IsSeq(u) /\ h = g \o u
      BY <2>2
    <3> QED BY <3>1, ConcatIs
  <2> QED BY <2>1, <2>2, <2>3
<1>25. w[1].got = h
  BY <1>6, <1>9, <1>21, <1>23 DEF Popped
<1>26. start[2] + Len(h) = v + o
  <2>1. s2 + (b + (a + o)) = v + o
    BY <1>204
  <2> QED BY <1>202, <1>24, <2>1
<1>27. ASSUME NEW i \in 1..(b + (a + o)) PROVE h[i] = W[start[2] + i]
  <2>1. CASE i <= b
    <3>1. i \in 1..b /\ s2 + i \in 1..v
      BY <1>203, <2>1
    <3> QED BY <1>17, <1>20, <1>202, <1>24, <3>1
  <2>2. CASE i > b /\ i <= b + a
    <3>1. PICK j \in 1..a : i = b + j
      <4>1. i - b \in 1..a /\ i = b + (i - b)
        BY <2>2
      <4> QED BY <4>1
    <3>2. j \in 1..(a + o) /\ s1 + j \in 1..v /\ s1 + j = s2 + i
      BY <1>203, <3>1
    <3>3. h[i] = u[j] /\ u[j] = st[1].got[j] /\ st[1].got[j] = V[s1 + j]
      BY <1>20, <1>201, <1>22, <1>24, <3>1, <3>2
    <3> QED BY <1>17, <1>202, <3>2, <3>3
  <2>3. CASE i > b + a
    <3>1. PICK j \in 1..o : i = b + (a + j)
      <4>1. i - b - a \in 1..o /\ i = b + (a + (i - b - a))
        BY <2>3
      <4> QED BY <4>1
    <3>2. a + j \in 1..(a + o) /\ v + j = s2 + i
      BY <1>204, <3>1
    <3>3. h[i] = u[a + j] /\ u[a + j] = own[j]
      BY <1>22, <1>24, <3>1, <3>2
    <3> QED BY <1>17, <1>202, <3>1, <3>2, <3>3
  <2> QED BY <2>1, <2>2, <2>3
<1> DEFINE start2 == [k \in 1..(n - 1) |-> start[k + 1]]
<1>28. start2 \in [1..(n - 1) -> 0..(v + o)] /\ start2[n - 1] = 0
  <2>1. \A k \in 1..(n - 1) : k + 1 \in 1..n
    OBVIOUS
  <2>2. n - 1 \in 1..(n - 1) /\ (n - 1) + 1 = n
    BY <1>2
  <2>3. \A k \in 1..n : start[k] \in 0..(v + o)
    BY <1>18
  <2> QED BY <1>18, <2>1, <2>2, <2>3
<1>29. ASSUME NEW k \in 1..(n - 1)
       PROVE  /\ start2[k] + Len(w[k].got) = IF k = 1 THEN v + o ELSE start2[k - 1]
              /\ \A i \in 1..Len(w[k].got) : w[k].got[i] = W[start2[k] + i]
  <2>1. CASE k = 1
    <3>1. start2[k] = start[2] /\ w[k].got = h
      BY <1>25, <2>1
    <3> HIDE DEF start2
    <3> QED BY <1>24, <1>26, <1>27, <2>1, <3>1
  <2>2. CASE k # 1
    <3>1. w[k].got = st[k + 1].got /\ k + 1 \in 1..n /\ k + 1 # 1 /\ (k + 1) - 1 = k /\ k \in 1..n
      BY <1>2, <2>2 DEF Popped
    <3>2. start2[k] = start[k + 1] /\ start2[k - 1] = start[k]
      BY <2>2
    <3>3. start[k + 1] + Len(st[k + 1].got) = start[k] /\ \A i \in 1..Len(st[k + 1].got) : st[k + 1].got[i] = V[start[k + 1] + i]
      BY <1>19, <3>1
    <3>4. PICK m \in Nat : m = Len(st[k + 1].got)
      BY <1>2, <3>1 DEF FrameOk, IsSeq
    <3>5. start[k] \in 0..v /\ start[k + 1] \in 0..v
      BY <1>18, <3>1
    <3>6. \A i \in 1..m : start[k + 1] + i \in 1..v
      BY <3>3, <3>4, <3>5
    <3>7. \A i \in 1..m : st[k + 1].got[i] = W[start[k + 1] + i]
      BY <1>17, <3>3, <3>4, <3>6
    <3> HIDE DEF start2
    <3> QED BY <2>2, <3>1, <3>2, <3>3, <3>4, <3>7
  <2> QED BY <2>1, <2>2
<1>30. Spread(w, W, start2)
  <2> HIDE DEF start2
  <2> QED BY <1>2, <1>17, <1>28, <1>29 DEF Spread
<1> HIDE DEF start2
<1> QED BY <1>4, <1>11, <1>30 DEF Resolving
(* The step of the code that hands over. *)
LEMMA Handing ==
  ASSUME NEW tree, NEW rd, NEW st, Resolving(tree, rd, st), Len(st) # 1, NEW w,
         w = <<[st[2] EXCEPT !.got = @ \o whole(st[1])]>> \o SubSeq(st, 3, Len(st))
  PROVE  Popped(st, w) /\ FrameOk(tree, rd, w[1])
<1>1. PICK n \in Nat : n = Len(st)
  BY DEF Resolving, StackOk, IsSeq
<1>2. IsSeq(st) /\ n >= 2 /\ FrameOk(tree, rd, st[1]) /\ FrameOk(tree, rd, st[2])
  <2>1. IsSeq(st) /\ Len(st) >= 1
    BY TailIs DEF Resolving, StackOk
  <2>2. n >= 2
    BY <1>1, <2>1
  <2>3. 1 \in 1..n /\ 2 \in 1..n
    BY <2>2
  <2>4. \A k \in 1..n : FrameOk(tree, rd, st[k])
    BY <1>1 DEF Resolving, StackOk
  <2> QED BY <2>1, <2>2, <2>3, <2>4
<1>3. PICK u : u = SubSeq(st, 3, Len(st))
  OBVIOUS
<1>4. IsSeq(u) /\ Len(u) = n - 2 /\ \A i \in 1..(n - 2) : u[i] = st[i + 2]
  <2>1. PICK S : S = {st[i] : i \in 1..Len(st)}
    OBVIOUS
  <2>2. st \in Seq(S)
    BY <1>2, <2>1, SeqIn
  <2>3. u = SubSeq(st, 3, n)
    BY <1>1, <1>3
  <2>4. u \in Seq(S) /\ Len(u) = n - 2 /\ \A i \in 1..(n - 2) : u[i] = st[i + 2]
    BY <1>1, <1>2, <2>2, <2>3
  <2> QED BY <2>4, SeqIs
<1>5. PICK f : f = [st[2] EXCEPT !.got = @ \o whole(st[1])]
  OBVIOUS
<1>6. IsSeq(w) /\ Len(w) = Len(u) + 1 /\ w[1] = f /\ \A i \in 1..Len(u) : w[i + 1] = u[i]
  <2>1. w = <<f>> \o u
    BY <1>3, <1>5
  <2>2. PICK x : x = <<f>> \o u
    OBVIOUS
  <2>3. IsSeq(u)
    BY <1>4
  <2>4. IsSeq(x) /\ Len(x) = Len(u) + 1 /\ x[1] = f
    BY <2>2, <2>3, ConsIs
  <2>5. \A i \in 1..Len(u) : x[i + 1] = u[i]
    BY <2>2, <2>3, ConsIs
  <2>6. w = x
    BY <2>1, <2>2
  <2> QED BY <2>4, <2>5, <2>6, Zenon
<1>7. /\ DOMAIN f = DOMAIN st[2] /\ f.path = st[2].path /\ f.imports = st[2].imports /\ f.paths = st[2].paths /\ f.own = st[2].own
      /\ f.got = st[2].got \o (st[1].got \o st[1].own)
  BY <1>2, <1>5 DEF FrameOk, whole
<1>8. IsSeq(f.got)
  <2>1. IsSeq(st[2].got) /\ IsSeq(st[1].got) /\ st[1].path \in DOMAIN rd /\ st[1].own = OwnDecls(st[1].path, rd[st[1].path])
    BY <1>2 DEF FrameOk
  <2>2. IsSeq(st[1].own)
    <3>1. rd[st[1].path] \in DOMAIN Content
      BY <2>1 DEF Resolving
    <3> QED BY <2>1, <3>1, OwnIs
  <2>3. PICK e : e = st[1].got \o st[1].own
    OBVIOUS
  <2>4. IsSeq(e)
    BY <2>1, <2>2, <2>3, ConcatIs
  <2>5. PICK g : g = st[2].got
    OBVIOUS
  <2>6. IsSeq(g \o e)
    BY <2>1, <2>4, <2>5, ConcatIs
  <2> QED BY <1>7, <2>3, <2>5, <2>6
<1>9. FrameOk(tree, rd, f)
  BY <1>2, <1>7, <1>8 DEF FrameOk
<1>10. ASSUME NEW k \in 1..(n - 1), k # 1 PROVE w[k] = st[k + 1]
  <2>1. k - 1 \in 1..(n - 2) /\ (k - 1) + 1 = k /\ (k - 1) + 2 = k + 1
    BY <1>10
  <2>2. w[(k - 1) + 1] = u[k - 1] /\ u[k - 1] = st[(k - 1) + 2]
    BY <1>4, <1>6, <2>1
  <2> QED BY <2>1, <2>2
<1>11. Len(w) = n - 1
  BY <1>4, <1>6
<1>12. w # <<>>
  BY <1>2, <1>11
<1>13. Popped(st, w)
  BY <1>1, <1>6, <1>7, <1>10, <1>11, <1>12 DEF Popped
<1> QED BY <1>6, <1>9, <1>13

(* The file the build began with is complete: all that was read is put together. *)
LEMMA LastDone ==
  ASSUME NEW tree, NEW rd, NEW st, Resolving(tree, rd, st), Len(st) = 1, st[1].paths = <<>>, st[1].imports = <<>>
  PROVE  Merged(tree, rd, DOMAIN rd, whole(st[1]))
<1>1. FrameOk(tree, rd, st[1])
  <2>1. 1 \in 1..Len(st)
    OBVIOUS
  <2> QED BY <2>1 DEF Resolving, StackOk
<1>2. PICK V, start : Merged(tree, rd, DOMAIN rd \ OnStack(st), V) /\ Spread(st, V, start)
  BY DEF Resolving
<1>3. PICK g : g = st[1].got
  OBVIOUS
<1>4. IsSeq(g) /\ IsSeq(V)
  BY <1>1, <1>2, <1>3 DEF FrameOk, Merged
<1>5. PICK a \in Nat : a = Len(g)
  BY <1>4 DEF IsSeq
<1>6. PICK v \in Nat : v = Len(V)
  BY <1>4 DEF IsSeq
<1>7. g = V
  <2>1. start[1] = 0 /\ start[1] + Len(st[1].got) = Len(V) /\ \A i \in 1..Len(st[1].got) : st[1].got[i] = V[start[1] + i]
    <3>1. 1 \in 1..Len(st)
      OBVIOUS
    <3> QED BY <1>2, <3>1 DEF Spread
  <2>2. a = v /\ \A i \in 1..a : g[i] = V[i]
    BY <1>3, <1>5, <1>6, <2>1
  <2>3. g = [i \in 1..a |-> g[i]] /\ V = [i \in 1..a |-> V[i]]
    BY <1>4, <1>5, <1>6, <2>2 DEF IsSeq
  <2> QED BY <2>2, <2>3
<1>8. PICK p : p = st[1].path
  OBVIOUS
<1>9. p \in DOMAIN rd /\ st[1].own = OwnDecls(p, rd[p])
  BY <1>1, <1>8 DEF FrameOk
<1>10. OnStack(st) = {p}
  <2>1. 1..Len(st) = {1}
    OBVIOUS
  <2> QED BY <1>8, <2>1 DEF OnStack
<1>11. PICK done : done = DOMAIN rd \ OnStack(st)
  OBVIOUS
<1>12. PICK own : own = OwnDecls(p, rd[p])
  OBVIOUS
<1>13. PICK W : W = V \o own
  OBVIOUS
<1>14. Merged(tree, rd, done \cup {p}, W)
  BY <1>2, <1>8, <1>11, <1>12, <1>13, FileComplete
<1>15. done \cup {p} = DOMAIN rd
  BY <1>9, <1>10, <1>11
<1>16. W = whole(st[1])
  BY <1>3, <1>7, <1>9, <1>12, <1>13 DEF whole
<1> QED BY <1>14, <1>15, <1>16
-----------------------------------------------------------------------------
(* The program the code generator is told of. *)

(* Opening the namespaces of declarations leaves declarations. *)
LEMMA FlatIs ==
  ASSUME NEW ds \in Seq(Declared)
  PROVE  Flat(ds) \in Seq(Declared)
<1>1. PICK n \in Nat : n = Len(ds)
  OBVIOUS
<1> DEFINE Get(d) == IF d[5][1] = "Namespace" THEN d[5][3] ELSE <<d>>
           ss == [i \in 1..n |-> Get(ds[i])]
<1>2. ASSUME NEW d \in Declared PROVE Get(d) \in Seq(Declared)
  <2>1. <<d>> \in Seq(Declared)
    OBVIOUS
  <2>2. d[5][1] = "Namespace" => d[5][3] \in Seq(Declared)
    BY ContentAssumption
  <2> QED BY <2>1, <2>2, Zenon
<1>3. \A i \in 1..n : ds[i] \in Declared
  BY <1>1
<1>4. ss \in Seq(Seq(Declared))
  <2> HIDE DEF Get
  <2>1. ss \in [1..n -> Seq(Declared)]
    BY <1>2, <1>3
  <2> HIDE DEF ss
  <2> QED BY <2>1
<1>5. FlattenSeq(ss) \in Seq(Declared)
  <2> HIDE DEF Get, ss
  <2> QED BY <1>4, FlattenIs
<1> QED BY <1>1, <1>5 DEF Flat, Collect

(* Opening them until there are none as well. *)
LEMMA InsideIs ==
  ASSUME NEW decls \in Seq(Declared)
  PROVE  Inside(decls) \in Seq(Declared)
<1> DEFINE Round(x) == CHOOSE after \in {Flat(before) : before \in {x}} : TRUE
           Is(v, n) == v = [i \in 0..n |-> IF i = 0 THEN decls ELSE Round(v[i - 1])]
           Bad == {n \in Nat : ~ \E v : Is(v, n)}
<1>1. ASSUME NEW x PROVE Round(x) = Flat(x)
  <2>1. \E after \in {Flat(before) : before \in {x}} : TRUE
    OBVIOUS
  <2>2. Round(x) \in {Flat(before) : before \in {x}}
    BY <2>1, Zenon
  <2> QED BY <2>2
<1> HIDE DEF Round
<1>2. Bad = {}
  <2> SUFFICES ASSUME Bad # {} PROVE FALSE
    OBVIOUS
  <2>1. Bad \in SUBSET Nat
    OBVIOUS
  <2> HIDE DEF Bad
  <2>2. PICK m \in Bad : \A x \in Bad : m <= x
    BY <2>1, LeastElement
  <2> USE DEF Bad
  <2>3. m \in Nat /\ ~ \E v : Is(v, m)
    BY <2>2
  <2>4. m # 0
    <3>1. Is([i \in 0 .. 0 |-> decls], 0)
      OBVIOUS
    <3> QED BY <2>3, <3>1
  <2>5. m - 1 \in Nat /\ ~(m <= m - 1)
    BY <2>3, <2>4
  <2>6. PICK v : Is(v, m - 1)
    BY <2>2, <2>5
  <2> DEFINE x == Round(v[m - 1])
             w == [i \in 0 .. m |-> IF i = m THEN x ELSE v[i]]
  <2>7. \A i \in 0 .. m : i # 0 => i - 1 \in 0 .. m - 1 /\ w[i - 1] = v[i - 1]
    BY <2>3
  <2>8. ASSUME NEW i \in 0 .. m
        PROVE  w[i] = IF i = 0 THEN decls ELSE Round(w[i - 1])
    <3>1. CASE i = m
      BY <2>4, <2>7, <3>1
    <3>2. CASE i # m
      <4>1. i \in 0 .. m - 1
        BY <2>3, <3>2
      <4>2. v[i] = IF i = 0 THEN decls ELSE Round(v[i - 1])
        BY <2>6, <4>1
      <4>3. w[i] = v[i]
        BY <3>2
      <4> QED BY <2>7, <4>2, <4>3
    <3> QED BY <3>1, <3>2
  <2> HIDE DEF x
  <2>9. Is(w, m)
    BY <2>8
  <2> QED BY <2>3, <2>9
<1>3. PICK N \in Nat : N = MaxNesting /\ Len(Depths) = N
  <2>1. PICK N \in Nat : N = MaxNesting
    BY NestingAssumption
  <2>2. PICK s : s = [n \in 1..N |-> n]
    OBVIOUS
  <2>3. s = [n \in 1..N |-> s[n]]
    BY <2>2
  <2>4. Len(s) = N
    BY <2>3, MadeSeq
  <2> QED BY <2>1, <2>2, <2>4 DEF Depths
<1>4. \E v : Is(v, N)
  BY <1>2
<1>5. PICK u : u = CHOOSE v : Is(v, N)
  OBVIOUS
<1>6. Is(u, N)
  BY <1>4, <1>5
<1>7. u[N] \in Seq(Declared)
  <2> DEFINE Off == {k \in 0..N : u[k] \notin Seq(Declared)}
  <2>1. Off = {}
    <3> SUFFICES ASSUME Off # {} PROVE FALSE
      OBVIOUS
    <3>1. Off \in SUBSET Nat
      OBVIOUS
    <3> HIDE DEF Off
    <3>2. PICK m \in Off : \A x \in Off : m <= x
      BY <3>1, LeastElement
    <3> USE DEF Off
    <3>3. m \in 0..N /\ u[m] \notin Seq(Declared)
      BY <3>2
    <3>4. m # 0
      BY <1>6, <3>3
    <3>5. m - 1 \in 0..N /\ ~(m <= m - 1)
      BY <3>3, <3>4
    <3>6. u[m - 1] \in Seq(Declared)
      BY <3>2, <3>5
    <3>7. u[m] = Flat(u[m - 1])
      BY <1>1, <1>6, <3>3, <3>4
    <3> QED BY <3>3, <3>6, <3>7, FlatIs
  <2>2. N \in 0..N /\ N \notin Off
    <3> HIDE DEF Off
    <3> QED BY <2>1
  <2> QED BY <2>2
<1>8. Inside(decls) = u[N]
  BY <1>3, <1>5 DEF Inside, Scan, Round
<1> QED BY <1>7, <1>8

(* Sequences one after the other, whatever they are sequences of: the elements
   are those of the parts. *)
LEMMA FlatSeq ==
  ASSUME NEW ss, IsSeq(ss), \A i \in 1..Len(ss) : IsSeq(ss[i])
  PROVE  /\ IsSeq(FlattenSeq(ss))
         /\ \A j \in 1..Len(FlattenSeq(ss)) : \E i \in 1..Len(ss) : \E m \in 1..Len(ss[i]) : FlattenSeq(ss)[j] = ss[i][m]
<1>1. PICK n \in Nat : n = Len(ss)
  BY DEF IsSeq
<1>2. PICK S : S = UNION {{ss[i][m] : m \in 1..Len(ss[i])} : i \in 1..n}
  OBVIOUS
<1>3. ASSUME NEW i \in 1..n PROVE ss[i] \in Seq(S)
  <2>1. PICK t : t = ss[i]
    OBVIOUS
  <2>2. IsSeq(t)
    BY <1>1, <2>1
  <2>3. PICK k \in Nat : k = Len(t)
    BY <2>2 DEF IsSeq
  <2>4. \A m \in 1..k : t[m] \in S
    BY <1>2, <2>1, <2>3
  <2>5. t = [m \in 1..k |-> t[m]]
    BY <2>2, <2>3 DEF IsSeq
  <2>6. t \in [1..k -> S]
    BY <2>4, <2>5
  <2>7. t \in Seq(S)
    BY <2>6
  <2> QED BY <2>1, <2>7
<1>4. ss \in Seq(Seq(S))
  <2>1. ss = [i \in 1..n |-> ss[i]]
    BY <1>1 DEF IsSeq
  <2>2. ss \in [1..n -> Seq(S)]
    BY <1>3, <2>1
  <2> QED BY <2>2
<1>5. PICK f : f = FlattenSeq(ss)
  OBVIOUS
<1>6. f \in Seq(S)
  BY <1>4, <1>5, FlattenIs
<1>7. IsSeq(f)
  BY <1>6, SeqIs
<1>8. \A j \in 1..Len(f) : f[j] \in S
  BY <1>6
<1>9. \A j \in 1..Len(f) : \E i \in 1..Len(ss) : \E m \in 1..Len(ss[i]) : f[j] = ss[i][m]
  <2> SUFFICES ASSUME NEW j \in 1..Len(f) PROVE \E i \in 1..Len(ss) : \E m \in 1..Len(ss[i]) : f[j] = ss[i][m]
    OBVIOUS
  <2>1. f[j] \in S
    BY <1>8
  <2>2. PICK i \in 1..n : f[j] \in {ss[i][m] : m \in 1..Len(ss[i])}
    BY <1>2, <2>1
  <2>3. PICK m \in 1..Len(ss[i]) : f[j] = ss[i][m]
    BY <2>2
  <2> QED BY <1>1, <2>3
<1>10. IsSeq(FlattenSeq(ss))
  BY <1>5, <1>7
<1>11. \A j \in 1..Len(FlattenSeq(ss)) : \E i \in 1..Len(ss) : \E m \in 1..Len(ss[i]) : FlattenSeq(ss)[j] = ss[i][m]
  BY <1>5, <1>9, Zenon
<1> QED BY <1>10, <1>11

(* The empty sequence. *)
LEMMA NoneIs == IsSeq(<<>>) /\ Len(<<>>) = 0
<1>1. <<>> \in Seq({})
  OBVIOUS
<1> QED BY <1>1, SeqIs

(* What an argument says, and what the last annotation that says anything does. *)
LEMMA LitIs ==
  ASSUME NEW a, NEW i, NEW kind
  PROVE  IsSeq(LitArg(a, i, kind)) /\ IsSeq(StringArg(a, i))
<1>1. ASSUME NEW q PROVE IsSeq(LitArg(a, i, q))
  <2>1. LitArg(a, i, q) = <<>> \/ \E x : LitArg(a, i, q) = <<x>>
    BY DEF LitArg
  <2> QED BY <2>1, NoneIs, OneIs
<1> QED BY <1>1 DEF StringArg

(* The path of an endpoint is one or none. *)
LEMMA PathSaid ==
  ASSUME NEW anns, NEW names
  PROVE  IsSeq(LastSaid(anns, names, LAMBDA a : StringArg(a, 1)))
BY LitIs, NoneIs DEF LastSaid

(* So does the scope of a component. *)
LEMMA ScopeSaid ==
  ASSUME NEW anns, NEW names
  PROVE  IsSeq(LastSaid(anns, names, LAMBDA a : <<Scopes[a[2]]>>))
BY OneIs, NoneIs DEF LastSaid

(* So do the arguments of a consumer. *)
LEMMA ArgsSaid ==
  ASSUME NEW anns, NEW n, NEW kinds
  PROVE  IsSeq(AllArgs(anns, n, kinds))
BY OneIs, NoneIs DEF LastSaid, AllArgs

(* One entry for each. *)
LEMMA OneEach ==
  ASSUME NEW s, IsSeq(s), NEW ss, ss = [i \in 1..Len(s) |-> ss[i]], \A i \in 1..Len(s) : \E x : ss[i] = <<x>>
  PROVE  /\ IsSeq(FlattenSeq(ss))
         /\ \A j \in 1..Len(FlattenSeq(ss)) : \E i \in 1..Len(s) : FlattenSeq(ss)[j] = ss[i][1]
<1>1. PICK n \in Nat : n = Len(s)
  BY DEF IsSeq
<1>2. IsSeq(ss) /\ Len(ss) = n
  BY <1>1, MadeSeq
<1>3. ASSUME NEW i \in 1..n PROVE IsSeq(ss[i]) /\ Len(ss[i]) = 1
  <2>1. PICK x : ss[i] = <<x>>
    BY <1>1
  <2>2. IsSeq(<<x>>) /\ Len(<<x>>) = 1
    BY OneIs
  <2> QED BY <2>1, <2>2
<1>4. PICK f : f = FlattenSeq(ss)
  OBVIOUS
<1>5. IsSeq(f) /\ \A j \in 1..Len(f) : \E i \in 1..Len(ss) : \E m \in 1..Len(ss[i]) : f[j] = ss[i][m]
  <2>1. \A i \in 1..Len(ss) : IsSeq(ss[i])
    BY <1>2, <1>3
  <2>2. IsSeq(FlattenSeq(ss)) /\ \A j \in 1..Len(FlattenSeq(ss)) : \E i \in 1..Len(ss) : \E m \in 1..Len(ss[i]) : FlattenSeq(ss)[j] = ss[i][m]
    BY <1>2, <2>1, FlatSeq
  <2> QED BY <1>4, <2>2
<1>6. \A j \in 1..Len(f) : \E i \in 1..n : f[j] = ss[i][1]
  <2> SUFFICES ASSUME NEW j \in 1..Len(f) PROVE \E i \in 1..n : f[j] = ss[i][1]
    OBVIOUS
  <2>1. PICK i \in 1..n : \E m \in 1..Len(ss[i]) : f[j] = ss[i][m]
    BY <1>2, <1>5
  <2> QED BY <1>3, <2>1
<1> QED BY <1>1, <1>4, <1>5, <1>6

(* What a class is to be injected with is a list. *)
LEMMA InjectIs ==
  ASSUME NEW d \in Declared, d[5][1] = "Class"
  PROVE  IsSeq(collect_inject_fields(d[5]))
<1>1. PICK fs : fs = Fields(d[5])
  OBVIOUS
<1>2. PICK n \in Nat : n = Len(fs)
  BY <1>1, ContentAssumption DEF Fields
<1> DEFINE Get(f) == IF Has(Anns(f), "Inject") /\ Body(f)[3][1] = "TName" /\ Body(f)[3][2] \notin PrimitiveNames
                     THEN <<[field |-> Body(f)[2], type |-> Body(f)[3][2]]>> ELSE <<>>
           ss == [i \in 1..n |-> Get(fs[i])]
<1>3. \A f : IsSeq(Get(f))
  BY OneIs, NoneIs
<1>4. collect_inject_fields(d[5]) = FlattenSeq(ss)
  BY <1>1, <1>2 DEF collect_inject_fields, Collect
<1> HIDE DEF Get
<1>5. ss = [i \in 1..n |-> ss[i]] /\ \A i \in 1..n : IsSeq(ss[i])
  BY <1>3
<1> HIDE DEF ss
<1>6. IsSeq(ss) /\ Len(ss) = n
  BY <1>5, MadeSeq
<1> QED BY <1>4, <1>5, <1>6, FlatSeq

(* What the annotations of a class say of components: at most one, with the list
   of what it is injected with. *)
LEMMA ComponentIs ==
  ASSUME NEW d \in Declared, d[5][1] = "Class", NEW es, es = process_class_annotations(d[5], d[2], "di_components")
  PROVE  IsSeq(es) /\ \A i \in 1..Len(es) : IsSeq(es[i].inject)
<1> DEFINE L == LastSaid(d[2], DOMAIN Scopes, LAMBDA a : <<Scopes[a[2]]>>)
           Made(s) == [class |-> d[5][2], scope |-> s, inject |-> collect_inject_fields(d[5])]
           ss == [i \in 1..Len(L) |-> <<Made(L[i])>>]
<1>1. IsSeq(L)
  BY ScopeSaid
<1>2. es = FlattenSeq(ss)
  BY DEF process_class_annotations, Collect, Endpoints, Marked
<1>3. \A s : Made(s).inject = collect_inject_fields(d[5])
  OBVIOUS
<1> HIDE DEF L, Made
<1>4. ss = [i \in 1..Len(L) |-> ss[i]] /\ \A i \in 1..Len(L) : ss[i] = <<Made(L[i])>>
  OBVIOUS
<1> HIDE DEF ss
<1>5. \A i \in 1..Len(L) : \E x : ss[i] = <<x>>
  BY <1>4
<1>6. IsSeq(es) /\ \A j \in 1..Len(es) : \E i \in 1..Len(L) : es[j] = ss[i][1]
  BY <1>1, <1>2, <1>4, <1>5, OneEach
<1>7. \A j \in 1..Len(es) : \E s : es[j] = Made(s)
  BY <1>4, <1>6
<1> QED BY <1>3, <1>6, <1>7, InjectIs

(* The endpoints of a class that run by themselves: at most one of each kind. *)
LEMMA EndpointIs ==
  ASSUME NEW d, d[5][1] = "Class", NEW k \in {"ws_endpoints", "amqp10_consumers", "amqp091_consumers"}
  PROVE  IsSeq(process_class_annotations(d[5], d[2], k))
<1>1. process_class_annotations(d[5], d[2], k) = process_endpoints(d[5], d[2], k)
  BY DEF process_class_annotations, Endpoints, Marked
<1>2. CASE k = "ws_endpoints"
  <2> DEFINE L == LastSaid(d[2], {"WebsocketEndpoint"}, LAMBDA a : StringArg(a, 1))
             Made(path) == [class |-> d[5][2], path |-> path,
                            port |-> LastSaid(d[2], {"WebsocketEndpoint"}, LAMBDA a : LitArg(a, 2, "Integer")),
                            on_open |-> Callback(d[5], "OnOpen"), on_message |-> Callback(d[5], "OnMessage"),
                            on_close |-> Callback(d[5], "OnClose")]
             ss == [i \in 1..Len(L) |-> <<Made(L[i])>>]
  <2>1. IsSeq(L)
    BY PathSaid
  <2>2. process_endpoints(d[5], d[2], k) = FlattenSeq(ss)
    BY <1>2 DEF process_endpoints, Collect
  <2> HIDE DEF L, Made
  <2>3. ss = [i \in 1..Len(L) |-> ss[i]] /\ \A i \in 1..Len(L) : ss[i] = <<Made(L[i])>>
    OBVIOUS
  <2> HIDE DEF ss
  <2>4. \A i \in 1..Len(L) : \E x : ss[i] = <<x>>
    BY <2>3
  <2>5. IsSeq(FlattenSeq(ss))
    BY <2>1, <2>3, <2>4, OneEach
  <2> QED BY <1>1, <2>2, <2>5
<1>3. ASSUME NEW n, NEW kinds,
             process_endpoints(d[5], d[2], k) = Collect(AllArgs(d[2], n, kinds), LAMBDA as :
                 <<[class |-> d[5][2], args |-> as, on_message |-> Callback(d[5], "OnMessage")]>>)
      PROVE  IsSeq(process_endpoints(d[5], d[2], k))
  <2> DEFINE L == AllArgs(d[2], n, kinds)
             Made(as) == [class |-> d[5][2], args |-> as, on_message |-> Callback(d[5], "OnMessage")]
             ss == [i \in 1..Len(L) |-> <<Made(L[i])>>]
  <2>1. IsSeq(L)
    BY ArgsSaid
  <2>2. process_endpoints(d[5], d[2], k) = FlattenSeq(ss)
    BY <1>3 DEF Collect
  <2> HIDE DEF L, Made
  <2>3. ss = [i \in 1..Len(L) |-> ss[i]] /\ \A i \in 1..Len(L) : ss[i] = <<Made(L[i])>>
    OBVIOUS
  <2> HIDE DEF ss
  <2>4. \A i \in 1..Len(L) : \E x : ss[i] = <<x>>
    BY <2>3
  <2>5. IsSeq(FlattenSeq(ss))
    BY <2>1, <2>3, <2>4, OneEach
  <2> QED BY <2>2, <2>5
<1>4. CASE k = "amqp10_consumers"
  BY <1>1, <1>3, <1>4 DEF process_endpoints
<1>5. CASE k = "amqp091_consumers"
  BY <1>1, <1>3, <1>5 DEF process_endpoints
<1> QED BY <1>2, <1>4, <1>5

(* What the declarations of a program say of services and components are lists. *)
LEMMA CollectedIs ==
  ASSUME NEW decls \in Seq(Declared), NEW k \in {"ws_endpoints", "amqp10_consumers", "amqp091_consumers", "di_components"}, NEW es,
         es = process_annotations(decls)[k]
  PROVE  IsSeq(es) /\ (k = "di_components" => \A i \in 1..Len(es) : IsSeq(es[i].inject))
<1>1. PICK ds : ds = Inside(decls)
  OBVIOUS
<1>2. ds \in Seq(Declared)
  BY <1>1, InsideIs
<1>3. PICK n \in Nat : n = Len(ds)
  BY <1>2
<1>4. ASSUME NEW d \in Declared
      PROVE  IsSeq(Entries(d, k)) /\ (k = "di_components" => \A i \in 1..Len(Entries(d, k)) : IsSeq(Entries(d, k)[i].inject))
  <2>1. CASE d[5][1] = "Class"
    <3>1. Entries(d, k) = process_class_annotations(d[5], d[2], k)
      BY <2>1 DEF Entries
    <3>2. CASE k = "di_components"
      BY <2>1, <3>1, <3>2, ComponentIs
    <3>3. CASE k # "di_components"
      BY <2>1, <3>1, <3>3, EndpointIs
    <3> QED BY <3>2, <3>3
  <2>2. CASE d[5][1] # "Class"
    <3>1. Entries(d, k) = <<>>
      BY <2>2 DEF Entries, Marked
    <3>2. PICK e : e = Entries(d, k)
      OBVIOUS
    <3>3. IsSeq(e) /\ Len(e) = 0
      BY <3>1, <3>2, NoneIs
    <3>4. 1..Len(e) = {}
      BY <3>3
    <3> QED BY <3>2, <3>3, <3>4
  <2> QED BY <2>1, <2>2
<1> DEFINE ss == [i \in 1..n |-> Entries(ds[i], k)]
<1>5. es = FlattenSeq(ss)
  <2>1. k \in Lists
    BY DEF Lists, Endpoints, Marked
  <2> QED BY <1>1, <1>3, <2>1 DEF process_annotations, Collect
<1>6. \A i \in 1..n : ds[i] \in Declared
  BY <1>2, <1>3
<1>7. ss = [i \in 1..n |-> ss[i]] /\ \A i \in 1..n : ss[i] = Entries(ds[i], k)
  OBVIOUS
<1> HIDE DEF ss
<1>8. IsSeq(ss) /\ Len(ss) = n
  BY <1>7, MadeSeq
<1>9. \A i \in 1..Len(ss) : IsSeq(ss[i]) /\ (k = "di_components" => \A m \in 1..Len(ss[i]) : IsSeq(ss[i][m].inject))
  BY <1>4, <1>6, <1>7, <1>8
<1>10. IsSeq(es) /\ \A j \in 1..Len(es) : \E i \in 1..Len(ss) : \E m \in 1..Len(ss[i]) : es[j] = ss[i][m]
  BY <1>5, <1>8, <1>9, FlatSeq
<1> QED BY <1>9, <1>10

(* A program as the code generator is told of it: its services and components
   are lists, and so is what a component is injected with. *)
Listed(program) ==
  /\ IsSeq(program.background) /\ IsSeq(program.components)
  /\ \A i \in 1..Len(program.components) : IsSeq(program.components[i].inject)

(* So it is with every program. *)
LEMMA ProgramListed ==
  ASSUME NEW decls \in Seq(Declared), NEW test
  PROVE  Listed(Program(process_annotations(decls), decls, test))
<1>1. PICK ann : ann = process_annotations(decls)
  OBVIOUS
<1>2. PICK P : P = Program(ann, decls, test)
  OBVIOUS
<1>3. P.background = Background(ann) /\ P.components = ann.di_components
  BY <1>2 DEF Program
<1>4. IsSeq(ann.ws_endpoints) /\ IsSeq(ann.amqp10_consumers) /\ IsSeq(ann.amqp091_consumers) /\ IsSeq(ann.di_components)
  <2>1. \A k \in {"ws_endpoints", "amqp10_consumers", "amqp091_consumers", "di_components"} : IsSeq(ann[k])
    BY <1>1, CollectedIs
  <2> QED BY <2>1
<1>5. \A i \in 1..Len(ann.di_components) : IsSeq(ann.di_components[i].inject)
  <2>1. PICK es : es = ann["di_components"]
    OBVIOUS
  <2>2. \A i \in 1..Len(es) : IsSeq(es[i].inject)
    BY <1>1, <2>1, CollectedIs
  <2> QED BY <2>1, <2>2
<1>6. IsSeq(Background(ann))
  <2> DEFINE http == IF ann.route_entries = <<>> THEN <<>>
                     ELSE IF ann.http3_rest_controllers = <<>> THEN <<<<"http">>>> ELSE <<<<"http3">>>>
             ws == [i \in 1..Len(ann.ws_endpoints) |-> <<"ws", ann.ws_endpoints[i]>>]
             amqp10 == [i \in 1..Len(ann.amqp10_consumers) |-> <<"amqp10", ann.amqp10_consumers[i]>>]
             amqp091 == [i \in 1..Len(ann.amqp091_consumers) |-> <<"amqp091", ann.amqp091_consumers[i]>>]
  <2>1. IsSeq(http)
    BY NoneIs, OneIs
  <2>2. PICK n \in Nat, m \in Nat, k \in Nat : n = Len(ann.ws_endpoints) /\ m = Len(ann.amqp10_consumers) /\ k = Len(ann.amqp091_consumers)
    BY <1>4 DEF IsSeq
  <2>3. ws = [i \in 1..n |-> ws[i]] /\ amqp10 = [i \in 1..m |-> amqp10[i]] /\ amqp091 = [i \in 1..k |-> amqp091[i]]
    BY <2>2
  <2>4. Background(ann) = http \o ws \o amqp10 \o amqp091
    BY DEF Background
  <2> HIDE DEF http, ws, amqp10, amqp091
  <2>5. IsSeq(ws) /\ IsSeq(amqp10) /\ IsSeq(amqp091)
    BY <2>3, MadeSeq
  <2>6. IsSeq(http \o ws)
    BY <2>1, <2>5, ConcatIs
  <2>7. IsSeq(http \o ws \o amqp10)
    BY <2>5, <2>6, ConcatIs
  <2>8. IsSeq(http \o ws \o amqp10 \o amqp091)
    BY <2>5, <2>7, ConcatIs
  <2> QED BY <2>4, <2>8
<1> QED BY <1>1, <1>2, <1>3, <1>4, <1>5, <1>6 DEF Listed
-----------------------------------------------------------------------------
(* The build under way, and what it reads. *)
HasFields(j) == {"at", "why", "kind", "test", "opt", "stack", "read", "merged", "app"} \subseteq DOMAIN j
DiskOk == IsFiniteSet(DOMAIN disk) /\ \A p \in DOMAIN disk : disk[p] \in DOMAIN Content
(* Up to the code generator the files are put together as they should be. *)
InOrderSoFar(tree, j) ==
  /\ j.at = "resolve" => Resolving(tree, j.read, j.stack)
  /\ j.at = "generate" => Merged(tree, j.read, DOMAIN j.read, j.merged) /\ \A p \in DOMAIN j.read : j.read[p] \in DOMAIN Content

(* A build begins: its entry file is the only one on the stack. *)
LEMMA StartOk ==
  ASSUME DiskOk, NEW kind, NEW entry, NEW test, StartJob(kind, entry, test)
  PROVE  HasFields(job') /\ InOrderSoFar(Tree, job') /\ job'.test = test /\ job'.kind = kind /\ job'.at \in {"resolve", "failed"}
<1>1. PICK c : c = disk[entry]
  OBVIOUS
<1>2. PICK F : F = Frame(entry, c)
  OBVIOUS
<1>3. PICK rd : rd = [q \in {entry} |-> disk[q]]
  OBVIOUS
<1>4. /\ HasFields(job') /\ job'.test = test /\ job'.kind = kind /\ job'.at = (IF Readable(entry) THEN "resolve" ELSE "failed")
      /\ job'.stack = <<F>> /\ job'.read = rd
  BY <1>1, <1>2, <1>3 DEF StartJob, HasFields
<1>5. ASSUME Readable(entry) PROVE Resolving(Tree, rd, <<F>>)
  <2>1. PICK tree : tree = Tree
    OBVIOUS
  <2>2. PICK st : st = <<F>>
    OBVIOUS
  <2>3. IsSeq(st) /\ Len(st) = 1 /\ st[1] = F /\ st # <<>>
    BY <2>2, OneIs
  <2>4. DOMAIN rd = {entry} /\ rd[entry] = c /\ c \in DOMAIN Content
    BY <1>1, <1>3, <1>5 DEF Readable, DiskOk
  <2>5. F.path = entry /\ F.got = <<>> /\ F.paths = <<>> /\ F.imports = ImportsOf(c) /\ F.own = OwnDecls(entry, c)
        /\ DOMAIN F = {"path", "imports", "paths", "got", "own"}
    BY <1>2 DEF Frame
  <2>6. IsSeq(<<>>)
    <3>1. <<>> \in Seq({})
      OBVIOUS
    <3> QED BY <3>1, SeqIs
  <2>7. FrameOk(tree, rd, F)
    <3>1. IsSeq(ImportsOf(c))
      BY <2>4, ImportsIs
    <3>2. ToSet(F.paths) = {}
      BY <2>5 DEF ToSet
    <3> QED BY <2>4, <2>5, <2>6, <3>1, <3>2 DEF FrameOk
  <2>8. \A k \in 1..Len(st) : k = 1
    BY <2>3
  <2>9. StackOk(tree, rd, st)
    BY <2>3, <2>7, <2>8 DEF StackOk
  <2>10. OnStack(st) = {entry}
    <3>1. 1 \in 1..Len(st) /\ st[1].path = entry
      BY <2>3, <2>5
    <3> QED BY <2>8, <3>1 DEF OnStack
  <2>11. PICK V : V = <<>>
    OBVIOUS
  <2>12. IsSeq(V) /\ Len(V) = 0
    BY <2>6, <2>11
  <2>13. Merged(tree, rd, DOMAIN rd \ OnStack(st), V)
    BY <2>4, <2>10, <2>12 DEF Merged
  <2>14. PICK start : start = [k \in 1..1 |-> 0]
    OBVIOUS
  <2>15. start \in [1..1 -> 0..0] /\ start[1] = 0
    BY <2>14
  <2>16. F.got = V
    BY <2>5, <2>11
  <2>17. Spread(st, V, start)
    <3>1. \A k \in 1..1 : start[k] + Len(st[k].got) = IF k = 1 THEN Len(V) ELSE start[k - 1]
      BY <2>3, <2>12, <2>15, <2>16
    <3>2. \A k \in 1..1 : \A i \in 1..Len(st[k].got) : st[k].got[i] = V[start[k] + i]
      BY <2>3, <2>12, <2>16
    <3> QED BY <2>3, <2>12, <2>15, <3>1, <3>2 DEF Spread
  <2>18. \A q \in DOMAIN rd : rd[q] \in DOMAIN Content
    BY <2>4
  <2>19. Resolving(tree, rd, st)
    BY <2>9, <2>13, <2>17, <2>18 DEF Resolving
  <2> QED BY <2>1, <2>2, <2>19
<1>6. InOrderSoFar(Tree, job')
  BY <1>4, <1>5 DEF InOrderSoFar
<1> QED BY <1>4, <1>6

(* Each step of resolve_imports keeps the order. *)
LEMMA ResolveOk ==
  ASSUME DiskOk, HasFields(job), job.at = "resolve", Resolving(Tree, job.read, job.stack), NextImport \/ NextFile \/ FinishFile
  PROVE  HasFields(job') /\ InOrderSoFar(Tree, job') /\ job'.test = job.test /\ job'.kind = job.kind /\ job'.at \in {"resolve", "generate", "failed"}
<1>1. PICK tree : tree = Tree
  OBVIOUS
<1>2. PICK rd : rd = job.read
  OBVIOUS
<1>3. PICK st : st = job.stack
  OBVIOUS
<1>4. Resolving(tree, rd, st) /\ IsFiniteSet(tree.names) /\ Top = st[1]
  BY <1>1, <1>2, <1>3 DEF Tree, DiskOk, Top
<1>5. PICK f : f = st[1]
  OBVIOUS
<1>6. FrameOk(tree, rd, f)
  <2>1. IsSeq(st) /\ Len(st) >= 1
    BY <1>4, TailIs DEF Resolving, StackOk
  <2>2. 1 \in 1..Len(st)
    BY <2>1 DEF IsSeq
  <2> QED BY <1>4, <1>5, <2>2 DEF Resolving, StackOk
<1>7. CASE NextImport
  <2>1. PICK found : found = resolve_import(tree, Dir(f.path), Head(f.imports))
    OBVIOUS
  <2>2. /\ f.paths = <<>> /\ f.imports # <<>>
        /\ IF found[1] = "found" THEN SetTop([Top EXCEPT !.imports = Tail(@), !.paths = found[2]])
           ELSE job' = [job EXCEPT !.at = "failed", !.why = "import"]
    BY <1>1, <1>4, <1>5, <1>7, <2>1 DEF NextImport, Failed
  <2>3. CASE found[1] = "found"
    <3>1. PICK g : g = [f EXCEPT !.imports = Tail(@), !.paths = found[2]]
      OBVIOUS
    <3>11. g = [Top EXCEPT !.imports = Tail(@), !.paths = found[2]]
      BY <1>4, <1>5, <3>1
    <3>2. PICK w : w = <<g>> \o Tail(st)
      OBVIOUS
    <3>3. job' = [job EXCEPT !.stack = w]
      <4>1. SetTop(g)
        BY <2>2, <2>3, <3>11
      <4> QED BY <1>3, <3>2, <4>1 DEF SetTop
    <3>4. FrameOk(tree, rd, g) /\ g.path = f.path /\ g.got = f.got
      <4>1. f.paths = <<>> /\ f.imports # <<>>
        BY <2>2
      <4>2. Looked(f, found, g)
        BY <1>6, <3>1 DEF FrameOk, Looked
      <4> QED BY <1>4, <1>6, <2>1, <2>3, <4>1, <4>2, ImportFound
    <3>5. Resolving(tree, rd, w)
      BY <1>4, <1>5, <3>2, <3>4, TopChanges
    <3>6. job'.at = "resolve" /\ job'.read = rd /\ job'.stack = w /\ job'.test = job.test /\ job'.kind = job.kind /\ HasFields(job')
      BY <1>2, <3>3 DEF HasFields
    <3> QED BY <1>1, <3>5, <3>6 DEF InOrderSoFar
  <2>4. CASE found[1] # "found"
    <3>1. job'.at = "failed" /\ job'.test = job.test /\ job'.kind = job.kind /\ HasFields(job')
      BY <2>2, <2>4 DEF HasFields
    <3> QED BY <3>1 DEF InOrderSoFar
  <2> QED BY <2>3, <2>4
<1>8. CASE NextFile
  <2>1. PICK p : p = Head(f.paths)
    OBVIOUS
  <2>2. PICK g : g = [f EXCEPT !.paths = Tail(@)]
    OBVIOUS
  <2>3. PICK b : b = <<g>> \o Tail(st)
    OBVIOUS
  <2>4. f.paths # <<>>
    BY <1>4, <1>5, <1>8 DEF NextFile
  <2>5. CASE p \in DOMAIN rd
    <3>1. job' = [job EXCEPT !.stack = b]
      BY <1>2, <1>3, <1>4, <1>5, <1>8, <2>1, <2>2, <2>3, <2>5 DEF NextFile
    <3>2. FrameOk(tree, rd, g) /\ g.path = f.path /\ g.got = f.got
      BY <1>6, <2>1, <2>2, <2>4, <2>5, FileTaken
    <3>3. Resolving(tree, rd, b)
      BY <1>4, <1>5, <2>3, <3>2, TopChanges
    <3>4. job'.at = "resolve" /\ job'.read = rd /\ job'.stack = b /\ job'.test = job.test /\ job'.kind = job.kind /\ HasFields(job')
      BY <1>2, <3>1 DEF HasFields
    <3> QED BY <1>1, <3>3, <3>4 DEF InOrderSoFar
  <2>6. CASE p \notin DOMAIN rd /\ ~Readable(p)
    <3>1. job' = [job EXCEPT !.at = "failed", !.why = "file", !.read = WithFile(@, p)]
      BY <1>2, <1>3, <1>4, <1>5, <1>8, <2>1, <2>6 DEF NextFile
    <3>2. job'.at = "failed" /\ job'.test = job.test /\ job'.kind = job.kind /\ HasFields(job')
      BY <3>1 DEF HasFields
    <3> QED BY <3>2 DEF InOrderSoFar
  <2>7. CASE p \notin DOMAIN rd /\ Readable(p)
    <3>1. PICK c : c = disk[p]
      OBVIOUS
    <3>2. c \in DOMAIN Content
      BY <2>7, <3>1 DEF Readable, DiskOk
    <3>3. PICK more : more = WithFile(rd, p)
      OBVIOUS
    <3>4. PICK w : w = <<Frame(p, c)>> \o b
      OBVIOUS
    <3>5. job' = [job EXCEPT !.read = more, !.stack = w]
      BY <1>2, <1>3, <1>4, <1>5, <1>8, <2>1, <2>2, <2>3, <2>7, <3>1, <3>3, <3>4 DEF NextFile
    <3>6. more = [q \in DOMAIN rd \cup {p} |-> IF q = p THEN c ELSE rd[q]]
      BY <3>1, <3>3 DEF WithFile
    <3>7. Resolving(tree, more, w)
      BY <1>4, <1>5, <2>1, <2>2, <2>3, <2>4, <2>7, <3>2, <3>4, <3>6, FileRead
    <3>8. job'.at = "resolve" /\ job'.read = more /\ job'.stack = w /\ job'.test = job.test /\ job'.kind = job.kind /\ HasFields(job')
      BY <3>5 DEF HasFields
    <3> QED BY <1>1, <3>7, <3>8 DEF InOrderSoFar
  <2> QED BY <2>5, <2>6, <2>7
<1>9. CASE FinishFile
  <2>1. /\ f.paths = <<>> /\ f.imports = <<>>
        /\ IF Len(st) = 1 THEN job' = [job EXCEPT !.at = "generate", !.merged = whole(f), !.stack = <<>>]
           ELSE job' = [job EXCEPT !.stack = HandedOver(@)]
    BY <1>3, <1>4, <1>5, <1>9 DEF FinishFile
  <2>2. CASE Len(st) = 1
    <3>1. PICK m : m = whole(f)
      OBVIOUS
    <3>2. Merged(tree, rd, DOMAIN rd, m) /\ \A q \in DOMAIN rd : rd[q] \in DOMAIN Content
      BY <1>4, <1>5, <2>1, <2>2, <3>1, LastDone DEF Resolving
    <3>3. job' = [job EXCEPT !.at = "generate", !.merged = m, !.stack = <<>>]
      BY <2>1, <2>2, <3>1
    <3>4. job'.at = "generate" /\ job'.read = rd /\ job'.merged = m /\ job'.test = job.test /\ job'.kind = job.kind /\ HasFields(job')
      BY <1>2, <3>3 DEF HasFields
    <3> QED BY <1>1, <3>2, <3>4 DEF InOrderSoFar
  <2>3. CASE Len(st) # 1
    <3>1. PICK w : w = <<[st[2] EXCEPT !.got = @ \o whole(st[1])]>> \o SubSeq(st, 3, Len(st))
      OBVIOUS
    <3>2. job' = [job EXCEPT !.stack = w]
      <4>1. w = HandedOver(st)
        BY <3>1 DEF HandedOver
      <4> QED BY <1>3, <2>1, <2>3, <4>1
    <3>3. Popped(st, w) /\ FrameOk(tree, rd, w[1])
      BY <1>4, <2>3, <3>1, Handing
    <3>4. Resolving(tree, rd, w)
      BY <1>4, <1>5, <2>1, <2>3, <3>3, Handed
    <3>5. job'.at = "resolve" /\ job'.read = rd /\ job'.stack = w /\ job'.test = job.test /\ job'.kind = job.kind /\ HasFields(job')
      BY <1>2, <3>2 DEF HasFields
    <3> QED BY <1>1, <3>4, <3>5 DEF InOrderSoFar
  <2> QED BY <2>2, <2>3
<1> QED BY <1>7, <1>8, <1>9
-----------------------------------------------------------------------------
(* The build of a command: its record, and the files as they are put together. *)
JobOk == job.at = "none" \/ HasFields(job)
OrderOk == InOrderSoFar(Tree, job)

(* The program of a test begins with the test or with the command line. *)
Ready == {"verify", "opt", "llc", "cc", "link", "ok"}
EntryOk == HasFields(job) /\ job.at \in Ready /\ job.test # <<>> => job.app.entry \in {"test", "command"}
TestBuilt == At("test", "compile") => HasFields(job) /\ job.test # <<>>
(* What a program is injected with are components of it. *)
SelfContained(program) ==
  \A i \in 1..Len(program.components) : \A j \in 1..Len(program.components[i].inject) :
      program.components[i].inject[j].type \in {program.components[m].class : m \in 1..Len(program.components)}
(* Code that was verified is valid: nothing is injected that is not a component. *)
AppOk ==
  HasFields(job) /\ job.at \in Ready =>
    /\ Listed(job.app) /\ (job.app.valid => SelfContained(job.app))
    /\ job.at # "verify" /\ job.kind \notin {"check", "collect"} => job.app.valid
RunBuilt == At("run", "compile") => HasFields(job) /\ job.kind = "run"
Counted == IsSeq(cmd.passed) /\ \A i \in 1..Len(cmd.passed) : cmd.passed[i][2] \in {"test", "command"}

BuildInv == DiskOk /\ JobOk /\ OrderOk /\ EntryOk /\ AppOk /\ TestBuilt /\ RunBuilt /\ Counted

(* Where imports are looked up stays as it is, whatever is saved to the files. *)
LEMMA TreeStays ==
  ASSUME DiskOk, [Next]_vars
  PROVE  DiskOk' /\ Tree' = Tree
<1>1. CASE UNCHANGED <<project, disk>>
  BY <1>1 DEF DiskOk, Tree
<1>2. ASSUME NEW p \in DOMAIN disk \cap DOMAIN Versions, Save(p) PROVE DiskOk' /\ Tree' = Tree
  <2>1. PICK v \in Versions[p] : disk' = [disk EXCEPT ![p] = v]
    BY <1>2 DEF Save
  <2>2. v \in DOMAIN Content /\ project' = project
    BY <1>2, VersionsAssumption DEF Save
  <2>3. DOMAIN disk' = DOMAIN disk
    BY <2>1
  <2>4. \A q \in DOMAIN disk' : disk'[q] \in DOMAIN Content
    BY <2>1, <2>2 DEF DiskOk
  <2> QED BY <2>2, <2>3, <2>4 DEF DiskOk, Tree
<1>3. ASSUME ~UNCHANGED <<project, disk>> PROVE \E p \in DOMAIN disk \cap DOMAIN Versions : Save(p)
  <2>1. BuildStep => UNCHANGED <<project, disk>>
    BY DEF BuildStep, ResolveStep, Generate, RunTool
  <2>2. Compile => UNCHANGED <<project, disk>>
    BY <2>1 DEF Compile
  <2>3. TestStep => UNCHANGED <<project, disk>>
    BY DEF TestStep, NextTestFile, collect_tests_end, NextTest, TestEnds, build_vars
  <2>4. dev_mode => UNCHANGED <<project, disk>>
    BY DEF dev_mode, compile_and_run, KillOld, Built, Spawn, Store, launch_devui_container, set_handler, Watch, Receive, Drain, build_vars
  <2>5. cleanup => UNCHANGED <<project, disk>>
    BY DEF cleanup, build_vars
  <2>6. Begin \/ Start \/ RunCommand \/ Finish => UNCHANGED <<project, disk>>
    BY DEF Begin, Invoke, Start, compile_end, RunCommand, Finish, run_file_end, driver_vars, build_vars
  <2>7. (\E terminal \in BOOLEAN : Interrupt(terminal)) \/ ProgramEnds => UNCHANGED <<project, disk>>
    BY DEF Interrupt, ProgramEnds, build_vars
  <2>8. UNCHANGED vars \/ UNCHANGED <<driver_vars, cli>> => UNCHANGED <<project, disk>>
    BY DEF vars, driver_vars, build_vars
  <2> QED BY <1>3, <2>2, <2>3, <2>4, <2>5, <2>6, <2>7, <2>8 DEF Next, MainThread, HandlerThread
<1> QED BY <1>1, <1>2, <1>3

(* What a test is built into: the bootstrap leaves the entry point to it. *)
LEMMA TestEntry ==
  ASSUME NEW ann, NEW decls, NEW test, test # <<>>
  PROVE  Program(ann, decls, test).entry \in {"test", "command"}
<1>1. entry_point(ann, decls, test) \in {"test", "command"}
  BY DEF entry_point
<1>2. Program(ann, decls, test).entry = entry_point(ann, decls, test)
  BY DEF Program
<1> QED BY <1>1, <1>2

(* What was put together are declarations of the files. *)
LEMMA MergedDeclared ==
  ASSUME OrderOk, job.at = "generate"
  PROVE  Decls(job.merged) \in Seq(Declared)
<1>1. PICK rd : rd = job.read
  OBVIOUS
<1>2. PICK V : V = job.merged
  OBVIOUS
<1>3. IsSeq(V) /\ \A i \in 1..Len(V) : V[i][1] \in DOMAIN rd /\ Stands(rd, V[i]) /\ rd[V[i][1]] \in DOMAIN Content
  BY <1>1, <1>2 DEF OrderOk, InOrderSoFar, Merged
<1>4. PICK n \in Nat : n = Len(V)
  BY <1>3 DEF IsSeq
<1>5. ASSUME NEW i \in 1..n PROVE Content[rd[V[i][1]]].decls[V[i][2]] \in Declared
  <2>1. PICK c \in DOMAIN Content : c = rd[V[i][1]]
    BY <1>3, <1>4
  <2>2. PICK ds : ds = Content[c].decls
    OBVIOUS
  <2>3. ds \in Seq(Declared)
    BY <2>2, ContentAssumption
  <2>4. V[i][2] \in 1..Len(ds)
    BY <1>3, <1>4, <2>1, <2>2 DEF Stands
  <2>5. ds[V[i][2]] \in Declared
    BY <2>3, <2>4
  <2> QED BY <2>1, <2>2, <2>5
<1>6. Decls(job.merged) = [i \in 1..n |-> Content[rd[V[i][1]]].decls[V[i][2]]]
  BY <1>1, <1>2, <1>4 DEF Decls
<1>7. PICK u : u = Decls(job.merged)
  OBVIOUS
<1>8. u \in [1..n -> Declared]
  BY <1>5, <1>6, <1>7
<1> QED BY <1>7, <1>8

(* Valid code is injected with components of its own. *)
LEMMA ValidCloses ==
  ASSUME NEW ann, NEW decls, NEW test, Program(ann, decls, test).valid
  PROVE  SelfContained(Program(ann, decls, test))
<1>1. PICK P : P = Program(ann, decls, test)
  OBVIOUS
<1>2. P.components = ann.di_components /\ P.valid = ValidCode(ann)
  BY <1>1 DEF Program
<1>3. ValidCode(ann)
  BY <1>1, <1>2
<1> QED BY <1>1, <1>2, <1>3 DEF ValidCode, SelfContained

(* A step of the build. *)
LEMMA BuildStepOk ==
  ASSUME DiskOk, JobOk, OrderOk, EntryOk, AppOk, BuildStep
  PROVE  HasFields(job) /\ HasFields(job') /\ InOrderSoFar(Tree, job') /\ EntryOk' /\ AppOk' /\ job'.test = job.test /\ job'.kind = job.kind
<1>1. CASE ResolveStep
  <2>1. job.at = "resolve" /\ (NextImport \/ NextFile \/ FinishFile)
    BY <1>1 DEF ResolveStep
  <2>2. HasFields(job) /\ Resolving(Tree, job.read, job.stack)
    BY <2>1 DEF JobOk, OrderOk, InOrderSoFar
  <2>3. HasFields(job') /\ InOrderSoFar(Tree, job') /\ job'.test = job.test /\ job'.kind = job.kind /\ job'.at \in {"resolve", "generate", "failed"}
    BY <2>1, <2>2, ResolveOk
  <2> QED BY <2>2, <2>3 DEF EntryOk, AppOk, Ready
<1>2. CASE Generate
  <2>1. job.at = "generate"
    BY <1>2 DEF Generate
  <2>2. HasFields(job)
    BY <2>1 DEF JobOk
  <2>3. \/ \E why : job' = [job EXCEPT !.at = "failed", !.why = why]
        \/ \E at \in {"ok", "verify"} :
             /\ at = "ok" => job.kind \in {"check", "collect"}
             /\ job' = [job EXCEPT !.at = at, !.app = Program(process_annotations(Decls(job.merged)), Decls(job.merged), job.test)]
    BY <1>2 DEF Generate, Failed
  <2>4. CASE \E why : job' = [job EXCEPT !.at = "failed", !.why = why]
    <3>1. HasFields(job') /\ job'.at = "failed" /\ job'.test = job.test /\ job'.kind = job.kind
      BY <2>2, <2>4 DEF HasFields
    <3> QED BY <2>2, <3>1 DEF EntryOk, AppOk, Ready, InOrderSoFar
  <2>5. CASE \E at \in {"ok", "verify"} :
             /\ at = "ok" => job.kind \in {"check", "collect"}
             /\ job' = [job EXCEPT !.at = at, !.app = Program(process_annotations(Decls(job.merged)), Decls(job.merged), job.test)]
    <3>1. PICK decls : decls = Decls(job.merged)
      OBVIOUS
    <3>2. PICK ann : ann = process_annotations(decls)
      OBVIOUS
    <3>3. PICK P : P = Program(ann, decls, job.test)
      OBVIOUS
    <3>4. PICK at \in {"ok", "verify"} : (at = "ok" => job.kind \in {"check", "collect"}) /\ job' = [job EXCEPT !.at = at, !.app = P]
      BY <2>5, <3>1, <3>2, <3>3
    <3>5. HasFields(job') /\ job'.at = at /\ job'.test = job.test /\ job'.kind = job.kind /\ job'.app = P
      BY <2>2, <3>4 DEF HasFields
    <3>6. EntryOk'
      BY <3>3, <3>5, TestEntry DEF EntryOk
    <3>7. Listed(P)
      <4>1. decls \in Seq(Declared)
        BY <2>1, <3>1, MergedDeclared
      <4> QED BY <3>2, <3>3, <4>1, ProgramListed
    <3>8. P.valid => SelfContained(P)
      BY <3>3, ValidCloses
    <3>9. AppOk'
      BY <3>4, <3>5, <3>7, <3>8 DEF AppOk
    <3> QED BY <2>2, <3>5, <3>6, <3>9 DEF InOrderSoFar
  <2> QED BY <2>3, <2>4, <2>5
<1>3. CASE RunTool
  <2>1. job.at \in {"verify", "opt", "llc", "cc", "link"}
    BY <1>3 DEF RunTool, Output
  <2>2. HasFields(job)
    BY <2>1 DEF JobOk
  <2>3. \E at \in (Ready \ {"verify"}) \cup {"failed"} : \E why : job' = [job EXCEPT !.at = at] \/ (at = "failed" /\ job' = [job EXCEPT !.at = at, !.why = why])
    <3>1. CASE ToolWorks(job.at)
      <4>1. next_tool[job.at] \in Ready \ {"verify"}
        BY <2>1 DEF next_tool, Ready
      <4> QED BY <3>1, <4>1 DEF ToolWorks
    <3>2. CASE Failed(job.at)
      BY <3>2 DEF Failed
    <3> QED BY <1>3, <3>1, <3>2 DEF RunTool
  <2>4. HasFields(job') /\ job'.at \in (Ready \ {"verify"}) \cup {"failed"} /\ job'.test = job.test /\ job'.kind = job.kind /\ job'.app = job.app
    BY <2>2, <2>3 DEF HasFields
  <2>5. EntryOk'
    BY <2>1, <2>2, <2>4 DEF EntryOk, Ready
  <2>6. job.at = "verify" /\ job'.at \in Ready => job.app.valid
    <3>1. job.at = "verify" /\ Failed(job.at) => job'.at = "failed"
      BY <2>2 DEF Failed, HasFields
    <3> QED BY <1>3, <3>1 DEF RunTool, Ready
  <2>7. AppOk'
    BY <2>1, <2>2, <2>4, <2>6 DEF AppOk, Ready
  <2> QED BY <2>2, <2>4, <2>5, <2>7 DEF InOrderSoFar, Ready
<1> QED BY <1>1, <1>2, <1>3 DEF BuildStep
(* The steps that leave the build alone. *)
LEMMA OtherStepOk ==
  ASSUME BuildInv, Shape, DiskOk', Tree' = Tree, job' = job, Counted', At("test", "compile")' => At("test", "compile"),
         At("run", "compile")' => At("run", "compile")
  PROVE  BuildInv'
<1>1. JobOk' /\ OrderOk' /\ EntryOk' /\ AppOk'
  BY DEF BuildInv, JobOk, OrderOk, EntryOk, AppOk
<1>2. TestBuilt' /\ RunBuilt'
  BY DEF BuildInv, TestBuilt, RunBuilt
<1> QED BY <1>1, <1>2 DEF BuildInv

(* A build begins. *)
LEMMA StartStepOk ==
  ASSUME BuildInv, Shape, DiskOk', Tree' = Tree, NEW kind, NEW entry, NEW test, StartJob(kind, entry, test), Counted',
         At("test", "compile")' => test # <<>>, At("run", "compile")' => kind = "run"
  PROVE  BuildInv'
<1>1. HasFields(job') /\ InOrderSoFar(Tree, job') /\ job'.test = test /\ job'.kind = kind /\ job'.at \in {"resolve", "failed"}
  BY StartOk DEF BuildInv
<1>2. JobOk' /\ OrderOk' /\ EntryOk' /\ AppOk' /\ TestBuilt' /\ RunBuilt'
  BY <1>1 DEF JobOk, OrderOk, EntryOk, AppOk, TestBuilt, RunBuilt, Ready
<1> QED BY <1>2 DEF BuildInv

(* The inductive invariant of the builds. *)
LEMMA BuildInvariant == Spec => []BuildInv
<1>1. Init => BuildInv
  <2> SUFFICES ASSUME Init PROVE BuildInv
    OBVIOUS
  <2>1. DiskOk
    BY ProjectsAssumption DEF Init, DiskOk
  <2>2. job = NoJob /\ cmd = Command("", <<>>, "start")
    BY DEF Init, DriverInit
  <2>3. job.at = "none" /\ ~HasFields(job)
    BY <2>2 DEF NoJob, HasFields
  <2>4. cmd.name = "" /\ cmd.passed = <<>>
    BY <2>2 DEF Command
  <2>5. IsSeq(<<>>) /\ Len(<<>>) = 0
    <3>1. <<>> \in Seq({})
      OBVIOUS
    <3> QED BY <3>1, SeqIs
  <2>6. Counted
    <3>1. PICK e : e = <<>>
      OBVIOUS
    <3>2. IsSeq(e) /\ Len(e) = 0 /\ cmd.passed = e
      BY <2>4, <2>5, <3>1
    <3>3. 1..Len(cmd.passed) = {}
      BY <3>2
    <3> QED BY <3>2, <3>3 DEF Counted
  <2> QED BY <2>1, <2>3, <2>4, <2>6 DEF BuildInv, JobOk, OrderOk, InOrderSoFar, EntryOk, AppOk, TestBuilt, RunBuilt, At
<1>2. BuildInv /\ DevInv /\ [Next]_vars => BuildInv'
  <2> SUFFICES ASSUME BuildInv, DevInv, [Next]_vars PROVE BuildInv'
    OBVIOUS
  <2>1. DiskOk' /\ Tree' = Tree /\ Shape
    BY TreeStays DEF BuildInv, DevInv
  <2>2. cmd'.passed = cmd.passed => Counted'
    BY DEF BuildInv, Counted
  <2>3. CASE Begin
    <3>1. PICK c \in project.commands : Invoke(c, project.entry)
      BY <2>3 DEF Begin
    <3>2. cmd.pc = "start" /\ cmd'.passed = <<>> /\ ~(At("test", "compile")') /\ cmd'.name = c
      BY <3>1 DEF Invoke, Command, At
    <3>3. Counted'
      <4>1. IsSeq(<<>>) /\ Len(<<>>) = 0
        <5>1. <<>> \in Seq({})
          OBVIOUS
        <5> QED BY <5>1, SeqIs
      <4> QED BY <3>2, <4>1 DEF Counted
    <3>4. CASE StartJob(c, project.entry, <<>>)
      <4>1. At("run", "compile")' => c = "run"
        BY <3>2 DEF At
      <4> QED BY <2>1, <3>2, <3>3, <3>4, <4>1, StartStepOk
    <3>5. CASE UNCHANGED job /\ c # "run"
      <4>1. ~(At("run", "compile")')
        BY <3>2, <3>5 DEF At
      <4> QED BY <2>1, <3>2, <3>3, <3>5, <4>1, OtherStepOk
    <3> QED BY <3>1, <3>4, <3>5 DEF Invoke
  <2>4. CASE Compile
    <3>1. cmd' = cmd /\ BuildStep
      BY <2>4 DEF Compile
    <3>2. HasFields(job) /\ HasFields(job') /\ InOrderSoFar(Tree, job') /\ EntryOk' /\ AppOk' /\ job'.test = job.test /\ job'.kind = job.kind
      BY <3>1, BuildStepOk DEF BuildInv
    <3>3. JobOk' /\ OrderOk' /\ TestBuilt' /\ RunBuilt' /\ Counted'
      BY <2>1, <2>2, <3>1, <3>2 DEF BuildInv, JobOk, OrderOk, TestBuilt, RunBuilt, At
    <3> QED BY <2>1, <3>2, <3>3 DEF BuildInv
  <2>5. CASE NextTestFile
    <3>1. cmd'.passed = cmd.passed /\ ~(At("test", "compile")') /\ ~(At("run", "compile")')
      BY <2>1, <2>5 DEF NextTestFile, At, Goto, Shape
    <3>2. CASE cmd.left = <<>>
      <4>1. job' = job
        BY <2>5, <3>2 DEF NextTestFile
      <4> QED BY <2>1, <2>2, <3>1, <4>1, OtherStepOk
    <3>3. CASE cmd.left # <<>>
      <4>1. StartJob("collect", Head(cmd.left), <<>>)
        BY <2>5, <3>3 DEF NextTestFile
      <4> QED BY <2>1, <2>2, <3>1, <4>1, StartStepOk
    <3> QED BY <3>2, <3>3
  <2>6. CASE NextTest
    <3>1. cmd'.passed = cmd.passed /\ ~(At("run", "compile")')
      BY <2>1, <2>6 DEF NextTest, At, Goto, Shape
    <3>2. CASE cmd.tests = <<>>
      <4>1. job' = job /\ ~(At("test", "compile")')
        BY <2>1, <2>6, <3>2 DEF NextTest, At, Goto, Shape
      <4> QED BY <2>1, <2>2, <3>1, <4>1, OtherStepOk
    <3>3. CASE cmd.tests # <<>>
      <4>1. PICK t : t = TestOf(Head(cmd.tests))
        OBVIOUS
      <4>2. StartJob("test", cmd.entry, t)
        BY <2>6, <3>3, <4>1 DEF NextTest
      <4>3. t # <<>>
        BY <4>1 DEF TestOf
      <4> QED BY <2>1, <2>2, <3>1, <4>2, <4>3, StartStepOk
    <3> QED BY <3>2, <3>3
  <2>7. CASE TestEnds
    <3>1. job' = job /\ At("test", "compile") /\ ~(At("test", "compile")') /\ ~(At("run", "compile")')
      BY <2>1, <2>7 DEF TestEnds, At, Shape
    <3>2. cmd'.passed = cmd.passed \/ (job.at = "ok" /\ cmd'.passed = Append(cmd.passed, <<job.test, job.app.entry>>))
      BY <2>1, <2>7 DEF TestEnds, Shape
    <3>3. ASSUME job.at = "ok", cmd'.passed = Append(cmd.passed, <<job.test, job.app.entry>>) PROVE Counted'
      <4>1. job.app.entry \in {"test", "command"}
        BY <3>1, <3>3 DEF BuildInv, TestBuilt, EntryOk, Ready
      <4>2. PICK e : e = <<job.test, job.app.entry>>
        OBVIOUS
      <4>3. e[2] \in {"test", "command"}
        BY <4>1, <4>2
      <4>4. PICK s : s = cmd.passed
        OBVIOUS
      <4>5. IsSeq(s) /\ \A i \in 1..Len(s) : s[i][2] \in {"test", "command"}
        BY <4>4 DEF BuildInv, Counted
      <4>6. PICK u : u = Append(s, e)
        OBVIOUS
      <4>7. IsSeq(u) /\ \A i \in 1..Len(u) : u[i][2] \in {"test", "command"}
        <5>1. PICK S : S = {s[i] : i \in 1..Len(s)} \cup {e}
          OBVIOUS
        <5>2. PICK n \in Nat : n = Len(s)
          BY <4>5 DEF IsSeq
        <5>3. s \in [1..n -> S]
          BY <4>5, <5>1, <5>2 DEF IsSeq
        <5>4. s \in Seq(S) /\ e \in S
          BY <5>1, <5>3
        <5>5. u \in Seq(S) /\ Len(u) = n + 1 /\ \A i \in 1..(n + 1) : u[i] = IF i = n + 1 THEN e ELSE s[i]
          BY <4>6, <5>2, <5>4
        <5>6. IsSeq(u)
          BY <5>5, SeqIs
        <5>7. ASSUME NEW i \in 1..(n + 1) PROVE u[i][2] \in {"test", "command"}
          <6>1. CASE i = n + 1
            BY <4>3, <5>5, <6>1
          <6>2. CASE i # n + 1
            <7>1. i \in 1..n
              BY <6>2
            <7> QED BY <4>5, <5>2, <5>5, <6>2, <7>1
          <6> QED BY <6>1, <6>2
        <5> QED BY <5>5, <5>6, <5>7
      <4> QED BY <3>3, <4>2, <4>4, <4>6, <4>7 DEF Counted
    <3> QED BY <2>1, <2>2, <3>1, <3>2, <3>3, OtherStepOk
  <2>8. CASE collect_tests_end \/ Start \/ Finish
    <3>1. job' = job /\ cmd'.passed = cmd.passed /\ ~(At("test", "compile")') /\ ~(At("run", "compile")')
      BY <2>1, <2>8 DEF collect_tests_end, Start, compile_end, Finish, run_file_end, At, Goto, build_vars, Shape
    <3> QED BY <2>1, <2>2, <3>1, OtherStepOk
  <2>9. CASE KillOld
    <3>1. StartJob("dev", cmd.entry, <<>>) /\ cmd'.passed = cmd.passed /\ ~(At("test", "compile")') /\ ~(At("run", "compile")')
      BY <2>1, <2>9 DEF KillOld, At, Goto, Shape
    <3> QED BY <2>1, <2>2, <3>1, StartStepOk
  <2>10. CASE Built \/ Spawn \/ Store \/ launch_devui_container \/ set_handler \/ Watch \/ Receive \/ Drain
    <3>1. job' = job /\ cmd'.passed = cmd.passed /\ cmd'.name = cmd.name /\ cmd.name = "dev"
      BY <2>1, <2>10 DEF Built, Spawn, Store, launch_devui_container, set_handler, Watch, Receive, Drain, At, Goto, build_vars, Shape
    <3>2. ~(At("test", "compile")') /\ ~(At("run", "compile")')
      BY <3>1 DEF At
    <3> QED BY <2>1, <2>2, <3>1, <3>2, OtherStepOk
  <2>11. CASE (\E terminal \in BOOLEAN : Interrupt(terminal)) \/ cleanup \/ ProgramEnds \/ \E p \in DOMAIN disk \cap DOMAIN Versions : Save(p)
    <3>1. job' = job /\ cmd'.passed = cmd.passed /\ cmd'.name = cmd.name /\ cmd.name = "dev"
      BY <2>1, <2>11 DEF Interrupt, cleanup, ProgramEnds, Save, Goto, build_vars, Shape
    <3>2. ~(At("test", "compile")') /\ ~(At("run", "compile")')
      BY <3>1 DEF At
    <3> QED BY <2>1, <2>2, <3>1, <3>2, OtherStepOk
  <2>12. CASE RunCommand \/ UNCHANGED driver_vars \/ UNCHANGED vars
    <3>1. job' = job /\ cmd' = cmd
      BY <2>12 DEF RunCommand, vars, driver_vars, build_vars
    <3> QED BY <2>1, <2>2, <3>1, OtherStepOk DEF At
  <2> QED BY <2>3, <2>4, <2>5, <2>6, <2>7, <2>8, <2>9, <2>10, <2>11, <2>12
          DEF Next, MainThread, HandlerThread, TestStep, dev_mode, compile_and_run
<1> QED BY <1>1, <1>2, DevInvariant, PTL DEF Spec

(* What has been put together when code is generated is in order: a file that
   leads back to another is below it. *)
LEMMA AllInOrder ==
  ASSUME OrderOk
  PROVE  MergedInOrder /\ OrderDecidesNothing
<1> SUFFICES ASSUME Generating PROVE MergedInOrder /\ OrderDecidesNothing
  BY DEF MergedInOrder, OrderDecidesNothing
<1>1. PICK tree : tree = Tree
  OBVIOUS
<1>2. PICK rd : rd = job.read
  OBVIOUS
<1>3. PICK V : V = job.merged
  OBVIOUS
<1>4. Merged(tree, rd, DOMAIN rd, V)
  BY <1>1, <1>2, <1>3 DEF OrderOk, InOrderSoFar, Generating
<1>5. \A p \in DOMAIN rd : FileOk(tree, rd, DOMAIN rd, V, p)
  BY <1>4 DEF Merged
<1>6. ASSUME NEW q, NEW p \in DOMAIN rd, Leads(tree, rd, q, p) PROVE p \in Below(q)
  <2>1. ASSUME NEW ps \in SUBSET DOMAIN job.read, Imported(q) \subseteq ps, Closed(ps) PROVE p \in ps
    <3>1. ImportedBy(tree, q, rd[q]) \subseteq ps
      BY <1>1, <1>2, <2>1 DEF Imported
    <3>2. \A r \in ps \cap DOMAIN rd : ImportedBy(tree, r, rd[r]) \subseteq ps
      BY <1>1, <1>2, <2>1 DEF Closed, Imported
    <3> QED BY <1>6, <3>1, <3>2 DEF Leads
  <2> QED BY <1>2, <2>1 DEF Below
<1>7. ASSUME NEW p \in DOMAIN rd
      PROVE  /\ Cardinality({i \in 1..Len(V) : V[i][1] = p}) = Len(OwnDecls(p, rd[p]))
             /\ \A q \in ImportedBy(tree, p, rd[p]) : p \in Below(q) \/ Behind(V, p, q)
  BY <1>5, <1>6 DEF FileOk
<1>8. MergedInOrder
  BY <1>1, <1>2, <1>3, <1>7 DEF MergedInOrder, Imported, Behind
<1>9. ASSUME NEW p \in DOMAIN rd, NEW rel \in ToSet(ImportsOf(rd[p])), resolve_module_paths(tree, Dir(p), rel)[1] = "none"
      PROVE  Cardinality({dep_dir_coordinate(d) : d \in ToSet(Offering(tree, rel))}) <= 1
  <2>1. resolve_import(tree, Dir(p), rel)[1] = "found"
    BY <1>5 DEF FileOk, Taken
  <2> QED BY <1>9, <2>1, OneOffer
<1>10. OrderDecidesNothing
  BY <1>1, <1>2, <1>9 DEF OrderDecidesNothing
<1> QED BY <1>8, <1>10

(* The program that is built is the one the files and the command ask for,
   whatever the files are and however they import each other, also while an
   editor saves them: every file's declarations once and behind those it
   imports, no import decided by the order of the dependencies, and every test
   that passed was the one that ran. *)
THEOREM BuildsRight == Spec => []BuildRight
<1>1. BuildInv => BuildRight
  BY AllInOrder DEF BuildInv, BuildRight, TestsAreRun, Counted
<1> QED BY <1>1, BuildInvariant, PTL
-----------------------------------------------------------------------------
(* The services of a program that runs. *)
Born(s) == {"kind", "def", "pc", "step", "code", "begun", "ended", "events"} \subseteq DOMAIN s
Amqp == {"amqp10", "amqp091"}
WsOpen == {"open", "message", "closing"}
(* What was begun was ended, but for the connection or message at hand. *)
Kept(s) ==
  /\ s.begun \in Nat /\ s.ended \in Nat
  /\ s.pc \in WsOpen => s.kind = "ws"
  /\ s.pc \in {"handle", "ack"} => s.kind \in Amqp
  /\ Handles(s) => s.begun = IF s.pc = "ack" THEN s.ended + 1 ELSE s.ended
  /\ TellsBoth(s) => s.begun = IF s.pc \in WsOpen THEN s.ended + 1 ELSE s.ended
(* The bootstrap spawns the services in order and joins them in order. *)
Unspawned(k) == main.pc \in {"none", "ctors"} \/ (main.pc = "spawn" /\ k >= main.k)
HasJoined(k) == main.pc = "exited" \/ (main.pc = "await" /\ k < main.k)
Bootstrap ==
  /\ {"pc", "k", "code"} \subseteq DOMAIN main
  /\ (main.pc \in {"spawn", "user", "await"} => main.k \in Nat) /\ (main.pc = "user" => main.k = 1)
  /\ \A k \in 1..Len(services) : (Unspawned(k) => services[k].pc = "unborn") /\ (HasJoined(k) => services[k].pc = "ended")
ServInv == IsSeq(services) /\ Bootstrap /\ \A k \in 1..Len(services) : Born(services[k]) /\ Kept(services[k])

(* A program starts: none of its services is there yet. *)
LEMMA ProgramStarts ==
  ASSUME NEW program, IsSeq(program.background), StartProgram(program)
  PROVE  ServInv'
<1>1. PICK n \in Nat : n = Len(program.background)
  BY DEF IsSeq
<1>2. PICK u : u = services'
  OBVIOUS
<1>3. u = [k \in 1..n |-> NewService(program.background[k])] /\ main' = [pc |-> "ctors", k |-> 1, code |-> 0]
  BY <1>1, <1>2 DEF StartProgram
<1>4. \A k \in 1..n : u[k] = NewService(program.background[k])
  BY <1>3
<1>5. u = [k \in 1..n |-> u[k]]
  BY <1>3
<1>6. IsSeq(u) /\ Len(u) = n
  BY <1>5, MadeSeq
<1>7. ASSUME NEW k \in 1..n PROVE Born(u[k]) /\ Kept(u[k]) /\ u[k].pc = "unborn"
  <2>1. PICK b : b = program.background[k]
    OBVIOUS
  <2>2. u[k] = NewService(b)
    BY <1>4, <2>1
  <2>3. PICK s : s = NewService(b)
    OBVIOUS
  <2>4. Born(s) /\ s.pc = "unborn" /\ s.begun = 0 /\ s.ended = 0
    BY <2>3 DEF NewService, Born
  <2>5. Kept(s)
    BY <2>4 DEF Kept, Handles, TellsBoth, WsOpen
  <2> QED BY <2>2, <2>3, <2>4, <2>5
<1>8. main'.pc = "ctors" /\ main'.k = 1 /\ {"pc", "k", "code"} \subseteq DOMAIN main'
  BY <1>3
<1>9. Bootstrap'
  BY <1>2, <1>6, <1>7, <1>8 DEF Bootstrap, Unspawned, HasJoined
<1> QED BY <1>2, <1>6, <1>7, <1>9 DEF ServInv

(* One service goes on; it was neither joined nor is it still to be spawned. *)
LEMMA Serves ==
  ASSUME ServInv, NEW k \in 1..Len(services), NEW s, services' = [services EXCEPT ![k] = s], main' = main,
         Born(s), Kept(s), services[k].pc \notin {"unborn", "ended"}
  PROVE  ServInv'
<1>1. PICK u : u = services'
  OBVIOUS
<1>2. IsSeq(services)
  BY DEF ServInv
<1>3. IsSeq(u) /\ Len(u) = Len(services) /\ u[k] = s /\ \A i \in 1..Len(services) : i # k => u[i] = services[i]
  <2>1. PICK n \in Nat : n = Len(services)
    BY <1>2 DEF IsSeq
  <2>2. DOMAIN services = 1..n
    BY <1>2, <2>1 DEF IsSeq
  <2>3. u = [i \in 1..n |-> u[i]] /\ u[k] = s /\ \A i \in 1..n : i # k => u[i] = services[i]
    BY <1>1, <2>1, <2>2
  <2>4. IsSeq(u) /\ Len(u) = n
    BY <2>3, MadeSeq
  <2> QED BY <2>1, <2>3, <2>4
<1>4. ~Unspawned(k) /\ ~HasJoined(k)
  BY DEF ServInv, Bootstrap
<1>5. \A i : Unspawned(i)' = Unspawned(i) /\ HasJoined(i)' = HasJoined(i)
  BY DEF Unspawned, HasJoined
<1>6. ASSUME NEW i \in 1..Len(services)
      PROVE  /\ Born(u[i]) /\ Kept(u[i])
             /\ (Unspawned(i) => u[i].pc = "unborn") /\ (HasJoined(i) => u[i].pc = "ended")
  <2>1. CASE i = k
    BY <1>3, <1>4, <2>1
  <2>2. CASE i # k
    BY <1>3, <2>2 DEF ServInv, Bootstrap
  <2> QED BY <2>1, <2>2
<1>7. {"pc", "k", "code"} \subseteq DOMAIN main /\ (main.pc \in {"spawn", "user", "await"} => main.k \in Nat) /\ (main.pc = "user" => main.k = 1)
  BY DEF ServInv, Bootstrap
<1>8. Bootstrap'
  BY <1>1, <1>3, <1>5, <1>6, <1>7 DEF Bootstrap
<1> QED BY <1>1, <1>3, <1>6, <1>8 DEF ServInv

(* The steps of a service. *)
LEMMA ServiceOk ==
  ASSUME ServInv, NEW k \in 1..Len(services), ServiceStep(k)
  PROVE  ServInv'
<1>1. PICK s : s = services[k]
  OBVIOUS
<1>2. Born(s) /\ Kept(s)
  BY <1>1 DEF ServInv
<1>3. ASSUME NEW x, Serve(k, x), Born(x), Kept(x), s.pc \notin {"unborn", "ended"} PROVE ServInv'
  <2>1. services' = [services EXCEPT ![k] = x] /\ main' = main
    BY <1>3 DEF Serve
  <2> QED BY <1>1, <1>3, <2>1, Serves
<1>4. CASE ServiceSetup(k)
  <2>1. s.pc = "setup" /\ \E x : Serve(k, x) /\ \/ \E pc \in {"loop", "setup"} : \E n : x = [s EXCEPT !.step = n, !.pc = pc]
                                                \/ \E n : x = [s EXCEPT !.pc = "ended", !.code = n]
    BY <1>1, <1>4 DEF ServiceSetup
  <2>2. PICK x : Serve(k, x) /\ \/ \E pc \in {"loop", "setup"} : \E n : x = [s EXCEPT !.step = n, !.pc = pc]
                                \/ \E n : x = [s EXCEPT !.pc = "ended", !.code = n]
    BY <2>1
  <2>3. Born(x) /\ x.kind = s.kind /\ x.def = s.def /\ x.begun = s.begun /\ x.ended = s.ended /\ x.pc \in {"loop", "setup", "ended"}
    BY <1>2, <2>1, <2>2 DEF Born
  <2>4. Kept(x)
    BY <1>2, <2>1, <2>3 DEF Kept, TellsBoth, Handles, WsOpen
  <2> QED BY <1>3, <2>1, <2>2, <2>3, <2>4
<1>5. CASE WsAccept(k)
  <2>1. s.kind = "ws" /\ s.pc = "loop" /\ Serve(k, [s EXCEPT !.pc = "open", !.events = @ + 1, !.begun = @ + Told(s.def[2].on_open)])
    BY <1>1, <1>5 DEF WsAccept
  <2>2. PICK x : x = [s EXCEPT !.pc = "open", !.events = @ + 1, !.begun = @ + Told(s.def[2].on_open)]
    OBVIOUS
  <2>3. Born(x) /\ x.kind = "ws" /\ x.def = s.def /\ x.begun = s.begun + Told(s.def[2].on_open) /\ x.ended = s.ended /\ x.pc = "open"
    BY <1>2, <2>1, <2>2 DEF Born
  <2>4. Told(s.def[2].on_open) \in Nat /\ (s.def[2].on_open # <<>> => Told(s.def[2].on_open) = 1)
    BY DEF Told
  <2>5. Kept(x)
    BY <1>2, <2>1, <2>3, <2>4 DEF Kept, TellsBoth, Handles, WsOpen, Amqp
  <2> QED BY <1>3, <2>1, <2>2, <2>3, <2>5
<1>6. CASE WsRead(k) \/ WsMessage(k)
  <2>1. s.pc \in {"open", "message"} /\ \E pc \in WsOpen : Serve(k, [s EXCEPT !.pc = pc])
    BY <1>1, <1>6 DEF WsRead, WsMessage, WsOpen
  <2>2. PICK pc \in WsOpen : Serve(k, [s EXCEPT !.pc = pc])
    BY <2>1
  <2>3. PICK x : x = [s EXCEPT !.pc = pc]
    OBVIOUS
  <2>4. Born(x) /\ x.kind = s.kind /\ x.def = s.def /\ x.begun = s.begun /\ x.ended = s.ended /\ x.pc = pc
    BY <1>2, <2>3 DEF Born
  <2>5. Kept(x)
    BY <1>2, <2>1, <2>4 DEF Kept, TellsBoth, Handles, WsOpen, Amqp
  <2> QED BY <1>3, <2>1, <2>2, <2>3, <2>4, <2>5
<1>7. CASE WsClose(k)
  <2>1. s.pc = "closing" /\ Serve(k, [s EXCEPT !.pc = "loop", !.ended = s.ended + Told(s.def[2].on_close)])
    BY <1>1, <1>7 DEF WsClose, WsEnd
  <2>2. PICK x : x = [s EXCEPT !.pc = "loop", !.ended = s.ended + Told(s.def[2].on_close)]
    OBVIOUS
  <2>3. Born(x) /\ x.kind = s.kind /\ x.def = s.def /\ x.begun = s.begun /\ x.ended = s.ended + Told(s.def[2].on_close) /\ x.pc = "loop"
    BY <1>2, <2>1, <2>2 DEF Born
  <2>4. Told(s.def[2].on_close) \in Nat /\ (s.def[2].on_close # <<>> => Told(s.def[2].on_close) = 1)
    BY DEF Told
  <2>5. Kept(x)
    BY <1>2, <2>1, <2>3, <2>4 DEF Kept, TellsBoth, Handles, WsOpen, Amqp
  <2> QED BY <1>3, <2>1, <2>2, <2>3, <2>5
<1>8. CASE AmqpReceive(k)
  <2>1. s.kind \in Amqp /\ s.pc = "loop" /\ \E pc \in {"handle", "loop"} : Serve(k, [s EXCEPT !.pc = pc, !.events = @ + 1])
    BY <1>1, <1>8 DEF AmqpReceive, Amqp
  <2>2. PICK pc \in {"handle", "loop"} : Serve(k, [s EXCEPT !.pc = pc, !.events = @ + 1])
    BY <2>1
  <2>3. PICK x : x = [s EXCEPT !.pc = pc, !.events = @ + 1]
    OBVIOUS
  <2>4. Born(x) /\ x.kind = s.kind /\ x.def = s.def /\ x.begun = s.begun /\ x.ended = s.ended /\ x.pc = pc
    BY <1>2, <2>3 DEF Born
  <2>5. Kept(x)
    BY <1>2, <2>1, <2>4 DEF Kept, TellsBoth, Handles, WsOpen, Amqp
  <2> QED BY <1>3, <2>1, <2>2, <2>3, <2>4, <2>5
<1>9. CASE AmqpHandle(k)
  <2>1. s.pc = "handle" /\ Serve(k, [s EXCEPT !.pc = "ack", !.begun = s.begun + Told(s.def[2].on_message)])
    BY <1>1, <1>9 DEF AmqpHandle
  <2>2. PICK x : x = [s EXCEPT !.pc = "ack", !.begun = s.begun + Told(s.def[2].on_message)]
    OBVIOUS
  <2>3. Born(x) /\ x.kind = s.kind /\ x.def = s.def /\ x.begun = s.begun + Told(s.def[2].on_message) /\ x.ended = s.ended /\ x.pc = "ack"
    BY <1>2, <2>2 DEF Born
  <2>4. Told(s.def[2].on_message) \in Nat /\ (s.def[2].on_message # <<>> => Told(s.def[2].on_message) = 1)
    BY DEF Told
  <2>5. Kept(x)
    BY <1>2, <2>1, <2>3, <2>4 DEF Kept, TellsBoth, Handles, WsOpen, Amqp
  <2> QED BY <1>3, <2>1, <2>2, <2>3, <2>5
<1>10. CASE AmqpAck(k)
  <2>1. s.pc = "ack" /\ Serve(k, [s EXCEPT !.pc = "loop", !.ended = @ + 1])
    BY <1>1, <1>10 DEF AmqpAck
  <2>2. PICK x : x = [s EXCEPT !.pc = "loop", !.ended = @ + 1]
    OBVIOUS
  <2>3. Born(x) /\ x.kind = s.kind /\ x.def = s.def /\ x.begun = s.begun /\ x.ended = s.ended + 1 /\ x.pc = "loop"
    BY <1>2, <2>2 DEF Born
  <2>4. Kept(x)
    BY <1>2, <2>1, <2>3 DEF Kept, TellsBoth, Handles, WsOpen, Amqp
  <2> QED BY <1>3, <2>1, <2>2, <2>3, <2>4
<1> QED BY <1>4, <1>5, <1>6, <1>7, <1>8, <1>9, <1>10 DEF ServiceStep, emit_ws_code
(* The bootstrap: it joins the services one by one, and ends behind the last. *)
LEMMA BootstrapOk ==
  ASSUME ServInv, emit_tinox_main_bootstrap
  PROVE  ServInv'
<1>1. IsSeq(services) /\ {"pc", "k", "code"} \subseteq DOMAIN main /\ (main.pc \in {"spawn", "user", "await"} => main.k \in Nat)
  BY DEF ServInv, Bootstrap
<1>2. \A i \in 1..Len(services) : /\ Born(services[i]) /\ Kept(services[i])
                                  /\ (Unspawned(i) => services[i].pc = "unborn") /\ (HasJoined(i) => services[i].pc = "ended")
  BY DEF ServInv, Bootstrap
<1>3. PICK n \in Nat : n = Len(services)
  BY <1>1 DEF IsSeq
<1>4. CASE tinox_di_startup
  <2>1. /\ services' = services /\ main.pc = "ctors"
        /\ (\E x : main' = [main EXCEPT !.k = x]) \/ main' = [main EXCEPT !.pc = "spawn", !.k = 1]
    BY <1>4 DEF tinox_di_startup
  <2>2. (main'.pc = "ctors" \/ (main'.pc = "spawn" /\ main'.k = 1)) /\ {"pc", "k", "code"} \subseteq DOMAIN main'
    <3>1. CASE \E x : main' = [main EXCEPT !.k = x]
      BY <1>1, <2>1, <3>1
    <3>2. CASE main' = [main EXCEPT !.pc = "spawn", !.k = 1]
      BY <1>1, <3>2
    <3> QED BY <2>1, <3>1, <3>2
  <2>3. \A i \in 1..n : services[i].pc = "unborn"
    BY <1>2, <1>3, <2>1 DEF Unspawned
  <2>4. Bootstrap'
    BY <1>3, <2>1, <2>2, <2>3 DEF Bootstrap, HasJoined
  <2> QED BY <1>1, <1>2, <2>1, <2>4 DEF ServInv
<1>5. CASE SpawnService
  <2>1. main.pc = "spawn"
    BY <1>5 DEF SpawnService
  <2>2. CASE main.k <= Len(services)
    <3>1. services' = [services EXCEPT ![main.k].pc = "setup"] /\ main' = [main EXCEPT !.k = main.k + 1]
      BY <1>5, <2>2 DEF SpawnService
    <3>2. PICK m \in Nat : m = main.k
      BY <1>1, <2>1
    <3>3. main'.k = m + 1 /\ main'.pc = "spawn" /\ {"pc", "k", "code"} \subseteq DOMAIN main'
      BY <1>1, <2>1, <3>1, <3>2
    <3>4. PICK u : u = services'
      OBVIOUS
    <3>5. DOMAIN services = 1..n
      BY <1>1, <1>3 DEF IsSeq
    <3>6. u = [i \in 1..n |-> u[i]] /\ \A i \in 1..n : u[i] = IF i = m THEN [services[m] EXCEPT !.pc = "setup"] ELSE services[i]
      BY <3>1, <3>2, <3>4, <3>5
    <3>7. IsSeq(u) /\ Len(u) = n
      BY <3>6, MadeSeq
    <3>8. ASSUME NEW i \in 1..n PROVE Born(u[i]) /\ Kept(u[i]) /\ (i >= m + 1 => u[i].pc = "unborn")
      <4>1. CASE i = m
        <5>1. PICK s : s = services[m]
          OBVIOUS
        <5>2. Born(s) /\ Kept(s) /\ s.pc = "unborn"
          BY <1>2, <1>3, <2>1, <3>2, <4>1, <5>1 DEF Unspawned
        <5>3. PICK x : x = [s EXCEPT !.pc = "setup"]
          OBVIOUS
        <5>4. Born(x) /\ x.kind = s.kind /\ x.def = s.def /\ x.begun = s.begun /\ x.ended = s.ended /\ x.pc = "setup"
          BY <5>2, <5>3 DEF Born
        <5>5. Kept(x)
          BY <5>2, <5>4 DEF Kept, TellsBoth, Handles, WsOpen
        <5>6. u[i] = x
          BY <3>6, <4>1, <5>1, <5>3
        <5>7. ~(i >= m + 1)
          BY <4>1
        <5> QED BY <5>4, <5>5, <5>6, <5>7
      <4>2. CASE i # m
        <5>1. u[i] = services[i]
          BY <3>6, <4>2
        <5>2. i >= m + 1 => Unspawned(i)
          BY <2>1, <3>2 DEF Unspawned
        <5> QED BY <1>2, <1>3, <5>1, <5>2
      <4> QED BY <4>1, <4>2
    <3>9. Bootstrap'
      BY <3>3, <3>4, <3>7, <3>8 DEF Bootstrap, Unspawned, HasJoined
    <3> QED BY <3>4, <3>7, <3>8, <3>9 DEF ServInv
  <2>3. CASE ~(main.k <= Len(services))
    <3>1. services' = services /\ main' = [main EXCEPT !.pc = "user", !.k = 1]
      BY <1>5, <2>3 DEF SpawnService
    <3>2. main'.k = 1 /\ main'.pc = "user" /\ {"pc", "k", "code"} \subseteq DOMAIN main'
      BY <1>1, <3>1
    <3>3. Bootstrap'
      BY <3>1, <3>2 DEF Bootstrap, Unspawned, HasJoined
    <3> QED BY <1>1, <1>2, <3>1, <3>3 DEF ServInv
  <2> QED BY <2>2, <2>3
<1>6. CASE UserMain
  <2>1. services' = services /\ main.pc = "user" /\ \E c : main' = [main EXCEPT !.pc = "await", !.code = c]
    BY <1>6 DEF UserMain
  <2>2. main'.k = main.k /\ main'.pc = "await" /\ {"pc", "k", "code"} \subseteq DOMAIN main'
    BY <1>1, <2>1
  <2>3. main'.k = 1
    BY <2>1, <2>2 DEF ServInv, Bootstrap
  <2>4. Bootstrap'
    BY <1>3, <2>1, <2>2, <2>3 DEF Bootstrap, Unspawned, HasJoined
  <2> QED BY <1>1, <1>2, <2>1, <2>4 DEF ServInv
<1>7. CASE Await
  <2>1. services' = services /\ main.pc = "await"
    BY <1>7 DEF Await
  <2>2. PICK m \in Nat : m = main.k
    BY <1>1, <2>1
  <2>3. \A i \in 1..n : i < m => services[i].pc = "ended"
    BY <1>2, <1>3, <2>1, <2>2 DEF HasJoined
  <2>4. CASE main.k <= Len(services)
    <3>1. services[m].pc = "ended" /\ \E c : main' = [main EXCEPT !.k = m + 1, !.code = c]
      BY <1>7, <2>2, <2>4 DEF Await, Joined
    <3>2. main'.k = m + 1 /\ main'.pc = "await" /\ {"pc", "k", "code"} \subseteq DOMAIN main'
      BY <1>1, <2>1, <3>1
    <3>3. \A i \in 1..n : i < m + 1 => services[i].pc = "ended"
      BY <2>3, <3>1
    <3>4. Bootstrap'
      BY <1>3, <2>1, <3>2, <3>3 DEF Bootstrap, Unspawned, HasJoined
    <3> QED BY <1>1, <1>2, <2>1, <3>4 DEF ServInv
  <2>5. CASE ~(main.k <= Len(services))
    <3>1. main' = [main EXCEPT !.pc = "exited"]
      BY <1>7, <2>5 DEF Await
    <3>2. main'.k = m /\ main'.pc = "exited" /\ {"pc", "k", "code"} \subseteq DOMAIN main'
      BY <1>1, <2>2, <3>1
    <3>3. \A i \in 1..n : i < m
      BY <1>3, <2>2, <2>5
    <3>4. Bootstrap'
      BY <1>3, <2>1, <2>3, <3>2, <3>3 DEF Bootstrap, Unspawned, HasJoined
    <3> QED BY <1>1, <1>2, <2>1, <3>4 DEF ServInv
  <2> QED BY <2>4, <2>5
<1> QED BY <1>4, <1>5, <1>6, <1>7 DEF emit_tinox_main_bootstrap
(* What is run is a program that was built and is valid. *)
LEMMA RunListed ==
  ASSUME BuildInv, compile_end, Runs
  PROVE  Listed(job.app) /\ SelfContained(job.app)
<1>1. At("run", "compile") /\ job.at = "ok"
  BY DEF compile_end, Runs, At
<1>2. HasFields(job) /\ job.kind = "run"
  BY <1>1 DEF BuildInv, RunBuilt
<1> QED BY <1>1, <1>2 DEF BuildInv, AppOk, Ready

(* The inductive invariant of the services. *)
LEMMA ServInvariant == Spec => []ServInv
<1>1. Init => ServInv
  <2> SUFFICES ASSUME Init PROVE ServInv
    OBVIOUS
  <2>1. services = <<>> /\ main = [pc |-> "none", k |-> 0, code |-> 0]
    BY DEF Init, ServerInit
  <2>2. PICK u : u = <<>>
    OBVIOUS
  <2>3. IsSeq(u) /\ Len(u) = 0
    <3>1. <<>> \in Seq({})
      OBVIOUS
    <3> QED BY <2>2, <3>1, SeqIs
  <2>4. services = u
    BY <2>1, <2>2
  <2>5. 1..Len(services) = {} /\ main.pc = "none" /\ main.k = 0 /\ {"pc", "k", "code"} \subseteq DOMAIN main
    BY <2>1, <2>3, <2>4
  <2>6. Bootstrap
    BY <2>5 DEF Bootstrap
  <2> QED BY <2>3, <2>4, <2>5, <2>6 DEF ServInv
<1>2. ServInv /\ BuildInv /\ [Next]_vars => ServInv'
  <2> SUFFICES ASSUME ServInv, BuildInv, [Next]_vars PROVE ServInv'
    OBVIOUS
  <2>1. CASE UNCHANGED <<services, main>>
    BY <2>1 DEF ServInv, Bootstrap, Unspawned, HasJoined
  <2>2. CASE Start /\ Runs /\ StartProgram(job.app)
    <3>1. IsSeq(job.app.background)
      BY <2>2, RunListed DEF Start, Listed
    <3> QED BY <2>2, <3>1, ProgramStarts
  <2>3. CASE emit_tinox_main_bootstrap
    BY <2>3, BootstrapOk
  <2>4. ASSUME NEW k \in 1..Len(services), ServiceStep(k) PROVE ServInv'
    BY <2>4, ServiceOk
  <2>5. ASSUME NEW t, Overflow(t) PROVE ServInv'
    <3>1. services' = services /\ main' = [main EXCEPT !.pc = "crashed"]
      BY <2>5 DEF Overflow
    <3>2. main'.pc = "crashed" /\ {"pc", "k", "code"} \subseteq DOMAIN main'
      BY <3>1 DEF ServInv, Bootstrap
    <3>3. Bootstrap'
      BY <3>1, <3>2 DEF Bootstrap, Unspawned, HasJoined
    <3> QED BY <3>1, <3>3 DEF ServInv
  <2>6. ASSUME NEW t, emit_di_code(t) PROVE ServInv'
    BY <2>1, <2>5, <2>6 DEF emit_di_code
  <2>7. ASSUME NEW t, RouteStep(t) PROVE UNCHANGED <<services, main>>
    BY <2>7 DEF RouteStep, Arrive, emit_route_shim_body, Reinject, emit_route_handler_call, Handle, emit_route_auto_serialize, Next_request
  <2>8. CASE ServerStep
    BY <2>1, <2>3, <2>4, <2>6, <2>7, <2>8 DEF ServerStep
  <2>9. CASE Start /\ UNCHANGED server_vars
    BY <2>1, <2>9 DEF server_vars
  <2>10. CASE UNCHANGED vars \/ Begin \/ RunCommand \/ Finish \/ MainThread \/ HandlerThread \/ UNCHANGED <<server_vars, cli>>
    <3>1. UNCHANGED <<services, main>>
      BY <2>10 DEF vars, Begin, RunCommand, Finish, MainThread, HandlerThread, server_vars
    <3> QED BY <2>1, <3>1
  <2>11. CASE Start
    BY <2>2, <2>9, <2>11 DEF Start
  <2> QED BY <2>8, <2>10, <2>11 DEF Next
<1> QED BY <1>1, <1>2, BuildInvariant, PTL DEF Spec

(* The services of a program outlive its Main, an endpoint with both callbacks is
   told of the end of every connection it was told the beginning of, and a
   consumer with a method for messages acknowledges none it has not handled: for
   any number of services, connections and messages, however their steps, the
   requests and the injection of components are interleaved; the process does
   not end before the last of them has. *)
THEOREM ServicesEndWhatTheyBegin == Spec => []ServicesRight
<1>1. ServInv => ServicesRight
  <2> SUFFICES ASSUME ServInv PROVE ServicesRight
    OBVIOUS
  <2>1. EndsLast
    BY DEF ServInv, Bootstrap, HasJoined, EndsLast
  <2>2. Paired
    <3> SUFFICES ASSUME NEW k \in 1..Len(services), Handles(services[k]) \/ TellsBoth(services[k])
                 PROVE  /\ services[k].begun \in {services[k].ended, services[k].ended + 1}
                        /\ services[k].pc = "loop" => services[k].begun = services[k].ended
      BY DEF Paired
    <3>1. PICK s : s = services[k]
      OBVIOUS
    <3>2. Kept(s)
      BY <3>1 DEF ServInv
    <3>3. Handles(s) \/ TellsBoth(s)
      BY <3>1
    <3>4. s.begun \in {s.ended, s.ended + 1} /\ (s.pc = "loop" => s.begun = s.ended)
      BY <3>2, <3>3 DEF Kept, WsOpen, TellsBoth
    <3> QED BY <3>1, <3>4
  <2> QED BY <2>1, <2>2 DEF ServicesRight
<1> QED BY <1>1, ServInvariant, PTL
-----------------------------------------------------------------------------
(* The components of a program that runs.  The invariant is stated of a program
   (a), the heap (h), what is published (g) and the threads, so that a step can
   be described by what it makes of them. *)
Threads == Workers \cup {"main"}
Place(a, c) == CHOOSE i \in 1..Len(a.components) : a.components[i].class = c
Entry(a, c) == a.components[Place(a, c)]
ClassesOf(a) == {a.components[i].class : i \in 1..Len(a.components)}
OfScope(a, c, scope) == Entry(a, c).scope = scope
Sharing(a, c) == Entry(a, c).scope \in {"Application", "Startup"}

Obj(h, i) == h[i[1]][i[2]]
Objects(h) == UNION {{t} \X (1..Len(h[t])) : t \in DOMAIN h}
Slots(a, h, i) == Entry(a, Obj(h, i).class).inject
Open(a, h, i) == {n \in 1..Len(Slots(a, h, i)) : Slots(a, h, i)[n].field \notin DOMAIN Obj(h, i).fields}
Whole(a, h, i) == i \in Objects(h) /\ Open(a, h, i) = {}

(* An instance: what its fields hold is whole, and of the same request as itself
   where both are of a request's scope. *)
Holds(a, h, i, v) ==
  /\ Whole(a, h, v)
  /\ OfScope(a, Obj(h, i).class, "HttpRequest") /\ OfScope(a, Obj(h, v).class, "HttpRequest") => Obj(h, v).for = Obj(h, i).for
InstanceOk(a, h, i) ==
  /\ {"class", "fields", "for"} \subseteq DOMAIN Obj(h, i) /\ Obj(h, i).class \in ClassesOf(a)
  /\ \A x \in DOMAIN Obj(h, i).fields : Holds(a, h, i, Obj(h, i).fields[x])
HeapOk(a, h) ==
  /\ DOMAIN h = Threads /\ \A t \in Threads : IsSeq(h[t])
  /\ \A i \in Objects(h) : InstanceOk(a, h, i)

(* What is published is whole. *)
GlobalOk(a, h, g) ==
  /\ DOMAIN g = ClassesOf(a)
  /\ \A c \in ClassesOf(a) : g[c] = NoInst \/ (Whole(a, h, g[c]) /\ Obj(h, g[c]).class = c)

(* A getter or factory that has not returned: its instance is for the request of
   its thread; a getter that returns has something to return. *)
CallOk(a, h, g, req, f) ==
  /\ {"class", "get", "pc", "inst"} \subseteq DOMAIN f /\ f.class \in ClassesOf(a)
  /\ IF f.get THEN Sharing(a, f.class) ELSE ~Sharing(a, f.class)
  /\ f.pc \in {"load", "fields", "reload"}
  /\ f.pc = "fields" => f.inst \in Objects(h) /\ Obj(h, f.inst).class = f.class /\ Obj(h, f.inst).for = req
  /\ f.pc = "reload" => f.get /\ g[f.class] # NoInst
CallsOk(a, h, g, req, st) ==
  IsSeq(st) /\ \A k \in 1..Len(st) : CallOk(a, h, g, req, st[k]) /\ (k >= 2 => st[k].pc = "fields")

(* The controller of a request: whole, and its own where it is of a request's
   scope; one that is injected again is shared. *)
Called(a, th) == a.routes[th.route].class
ControllerOk(a, h, th) ==
  /\ th.ctrl # NoInst =>
        /\ Whole(a, h, th.ctrl)
        /\ OfScope(a, Called(a, th), "HttpRequest") => Obj(h, th.ctrl).class = Called(a, th) /\ Obj(h, th.ctrl).for = th.req
  /\ th.pc = "controller" /\ th.stack # <<>> => th.stack[Len(th.stack)].class = Called(a, th)
  /\ th.pc = "inject" /\ th.left # {} =>
        th.ctrl # NoInst /\ th.left \subseteq 1..Len(Slots(a, h, th.ctrl)) /\ ~OfScope(a, Obj(h, th.ctrl).class, "HttpRequest")
  /\ th.pc = "inject" /\ th.stack # <<>> => th.left # {}
  /\ \A i \in th.sees : Whole(a, h, i)
ThreadFields(th) == {"pc", "route", "req", "stack", "ctrl", "left", "status", "sees"} \subseteq DOMAIN th
ThreadOk(a, h, g, th) == ThreadFields(th) /\ CallsOk(a, h, g, th.req, th.stack) /\ ControllerOk(a, h, th)

(* The constructors: the startup components before the next one are published,
   or the last is being made; no worker is there yet.  Behind them all are
   published, and none is made any more. *)
Constructing(a, g, ths, m) ==
  m.pc = "ctors" =>
    /\ m.k \in Nat /\ \A t \in Workers : ths[t] = Idle
    /\ \A c \in ClassesOf(a) : OfScope(a, c, "Startup") /\ Place(a, c) < m.k =>
          LET st == ths["main"].stack IN g[c] # NoInst \/ (st # <<>> /\ st[Len(st)].class = c)
Past == {"spawn", "user", "await", "exited"}
NoneMade(a, st) == \A k \in 1..Len(st) : st[k].pc = "fields" => ~OfScope(a, st[k].class, "Startup")
Constructed(a, g, ths, m) ==
  m.pc \in Past =>
    /\ \A c \in ClassesOf(a) : OfScope(a, c, "Startup") => g[c] # NoInst
    /\ \A t \in Threads : NoneMade(a, ths[t].stack)

Running(a, h, g, ths, m) ==
  /\ Listed(a) /\ SelfContained(a) /\ HeapOk(a, h) /\ GlobalOk(a, h, g)
  /\ DOMAIN ths = Threads /\ \A t \in Threads : ThreadOk(a, h, g, ths[t])
  /\ m.pc \in Past \cup {"ctors", "crashed"} /\ Constructing(a, g, ths, m) /\ Constructed(a, g, ths, m)
(* Before the program starts there is nothing; it starts once. *)
CompInv ==
  /\ threads["main"].pc = "idle"
  /\ IF main.pc = "none"
     THEN global = <<>> /\ heap = [t \in Threads |-> <<>>] /\ threads = [t \in Threads |-> Idle]
     ELSE cmd.name = "run" /\ cmd.pc \in {"running", "done"} /\ Running(app, heap, global, threads, main)

(* The least of a set of numbers. *)
LEMMA MinIs ==
  ASSUME NEW S \in SUBSET Nat, S # {}
  PROVE  Min(S) \in S /\ \A y \in S : Min(S) <= y
<1>1. \E x \in S : \A y \in S : x <= y
  BY LeastElement
<1> QED BY <1>1, Zenon DEF Min

(* The entry of a component. *)
LEMMA EntryIs ==
  ASSUME NEW a, Listed(a), SelfContained(a), NEW c \in ClassesOf(a)
  PROVE  /\ Place(a, c) \in 1..Len(a.components) /\ Entry(a, c).class = c /\ IsSeq(Entry(a, c).inject)
         /\ \A n \in 1..Len(Entry(a, c).inject) : Entry(a, c).inject[n].type \in ClassesOf(a)
<1>1. \E i \in 1..Len(a.components) : a.components[i].class = c
  BY DEF ClassesOf
<1>2. Place(a, c) \in 1..Len(a.components) /\ a.components[Place(a, c)].class = c
  BY <1>1, Zenon DEF Place
<1>3. PICK i \in 1..Len(a.components) : i = Place(a, c)
  BY <1>2
<1>4. IsSeq(a.components[i].inject) /\ \A n \in 1..Len(a.components[i].inject) : a.components[i].inject[n].type \in ClassesOf(a)
  BY DEF Listed, SelfContained, ClassesOf
<1> QED BY <1>2, <1>3, <1>4 DEF Entry

(* What is open of an instance: the first of it is a component. *)
LEMMA SlotIs ==
  ASSUME NEW a, Listed(a), SelfContained(a), NEW h, NEW i, Obj(h, i).class \in ClassesOf(a),
         NEW S, S \subseteq 1..Len(Slots(a, h, i)), S # {}
  PROVE  Min(S) \in S /\ Slots(a, h, i)[Min(S)].type \in ClassesOf(a)
<1>1. PICK c \in ClassesOf(a) : c = Obj(h, i).class
  OBVIOUS
<1>2. PICK ws : ws = Slots(a, h, i)
  OBVIOUS
<1>3. IsSeq(ws) /\ \A n \in 1..Len(ws) : ws[n].type \in ClassesOf(a)
  BY <1>1, <1>2, EntryIs DEF Slots
<1>4. S \in SUBSET Nat
  BY <1>2, <1>3 DEF IsSeq
<1>5. Min(S) \in S
  BY <1>4, MinIs
<1> QED BY <1>2, <1>3, <1>5

(* Instances stay: they gain fields and keep the rest. *)
Grown(h, w) ==
  \A i \in Objects(h) : /\ i \in Objects(w) /\ Obj(w, i).class = Obj(h, i).class /\ Obj(w, i).for = Obj(h, i).for
                        /\ DOMAIN Obj(h, i).fields \subseteq DOMAIN Obj(w, i).fields
(* What is whole stays whole. *)
LEMMA WholeStays ==
  ASSUME NEW a, NEW h, NEW w, Grown(h, w), NEW i, Whole(a, h, i)
  PROVE  Whole(a, w, i) /\ Obj(w, i).class = Obj(h, i).class /\ Obj(w, i).for = Obj(h, i).for
<1>1. i \in Objects(h) /\ Open(a, h, i) = {}
  BY DEF Whole
<1>2. i \in Objects(w) /\ Obj(w, i).class = Obj(h, i).class /\ Obj(w, i).for = Obj(h, i).for
      /\ DOMAIN Obj(h, i).fields \subseteq DOMAIN Obj(w, i).fields
  BY <1>1 DEF Grown
<1>3. Slots(a, w, i) = Slots(a, h, i)
  BY <1>2 DEF Slots
<1>4. Open(a, w, i) \subseteq Open(a, h, i)
  BY <1>2, <1>3 DEF Open
<1> QED BY <1>1, <1>2, <1>4 DEF Whole

(* What is published stays published. *)
Public(a, g, p) == \A c \in ClassesOf(a) : g[c] # NoInst => p[c] # NoInst
(* What holds of a thread goes on to while others make instances. *)
LEMMA ThreadStays ==
  ASSUME NEW a, NEW h, NEW w, NEW g, NEW p, NEW th, Grown(h, w), Public(a, g, p), ThreadOk(a, h, g, th)
  PROVE  ThreadOk(a, w, p, th)
<1>1. PICK st : st = th.stack
  OBVIOUS
<1>2. PICK req : req = th.req
  OBVIOUS
<1>3. CallsOk(a, h, g, req, st) /\ ControllerOk(a, h, th) /\ ThreadFields(th)
  BY <1>1, <1>2 DEF ThreadOk
<1>4. ASSUME NEW f, CallOk(a, h, g, req, f) PROVE CallOk(a, w, p, req, f)
  <2>1. f.pc = "fields" => f.inst \in Objects(w) /\ Obj(w, f.inst).class = f.class /\ Obj(w, f.inst).for = req
    BY <1>4 DEF CallOk, Grown
  <2>2. f.pc = "reload" => f.get /\ p[f.class] # NoInst
    BY <1>4 DEF CallOk, Public
  <2> QED BY <1>4, <2>1, <2>2 DEF CallOk
<1>5. CallsOk(a, w, p, req, st)
  BY <1>3, <1>4 DEF CallsOk
<1>6. \A i : Whole(a, h, i) => Whole(a, w, i) /\ Obj(w, i).class = Obj(h, i).class /\ Obj(w, i).for = Obj(h, i).for
  BY WholeStays
<1>7. ControllerOk(a, w, th)
  <2>1. \A i \in th.sees : Whole(a, w, i)
    BY <1>3, <1>6 DEF ControllerOk
  <2>2. th.ctrl # NoInst => Whole(a, h, th.ctrl)
    BY <1>3 DEF ControllerOk
  <2>3. th.ctrl # NoInst => Slots(a, w, th.ctrl) = Slots(a, h, th.ctrl)
    BY <1>6, <2>2 DEF Slots
  <2> QED BY <1>3, <1>6, <2>1, <2>2, <2>3 DEF ControllerOk
<1> QED BY <1>1, <1>2, <1>3, <1>5, <1>7 DEF ThreadOk

(* What is published stays whole. *)
LEMMA GlobalStays ==
  ASSUME NEW a, NEW h, NEW w, NEW g, Grown(h, w), GlobalOk(a, h, g)
  PROVE  GlobalOk(a, w, g)
BY WholeStays DEF GlobalOk

(* The instances, one by one. *)
LEMMA ObjectsAre ==
  ASSUME NEW h
  PROVE  /\ \A i \in Objects(h) : \E t \in DOMAIN h : \E n \in 1..Len(h[t]) : i = <<t, n>>
         /\ \A t \in DOMAIN h : \A n \in 1..Len(h[t]) : <<t, n>> \in Objects(h) /\ Obj(h, <<t, n>>) = h[t][n]
         /\ NoInst \notin Objects(h)
<1>1. \A i \in Objects(h) : \E t \in DOMAIN h : \E n \in 1..Len(h[t]) : i = <<t, n>>
  BY DEF Objects
<1>2. \A t \in DOMAIN h : \A n \in 1..Len(h[t]) : <<t, n>> \in Objects(h) /\ Obj(h, <<t, n>>) = h[t][n]
  BY DEF Objects, Obj
<1> QED BY <1>1, <1>2 DEF NoInst

(* An instance as it is made, the heap with it, and what then holds. *)
NewObj(c, req) == [class |-> c, fields |-> <<>>, for |-> req]
Longer(h, w, t, e) == DOMAIN w = Threads /\ \A u \in Threads : w[u] = IF u = t THEN Append(h[t], e) ELSE h[u]
Made(a, h, w, x, c, req) == HeapOk(a, w) /\ Grown(h, w) /\ x \in Objects(w) /\ Obj(w, x).class = c /\ Obj(w, x).for = req
(* An instance is made: without fields, and for a request. *)
LEMMA NewIs ==
  ASSUME NEW a, NEW h, HeapOk(a, h), NEW t \in Threads, NEW c \in ClassesOf(a), NEW req, NEW w, NEW x,
         Longer(h, w, t, NewObj(c, req)), x = <<t, Len(h[t]) + 1>>
  PROVE  Made(a, h, w, x, c, req)
<1>1. DOMAIN h = Threads /\ DOMAIN w = Threads /\ \A u \in Threads : u # t => w[u] = h[u]
  BY DEF HeapOk, Longer
<1>0. /\ \A i \in Objects(w) : \E v \in DOMAIN w : \E k \in 1..Len(w[v]) : i = <<v, k>>
      /\ \A v \in DOMAIN w : \A k \in 1..Len(w[v]) : <<v, k>> \in Objects(w) /\ Obj(w, <<v, k>>) = w[v][k]
  BY ObjectsAre
<1>2. PICK s : s = h[t]
  OBVIOUS
<1>3. PICK n \in Nat : n = Len(s)
  BY <1>2 DEF HeapOk, IsSeq
<1>4. PICK e : e = NewObj(c, req)
  OBVIOUS
<1>5. PICK u : u = w[t]
  OBVIOUS
<1>6. IsSeq(u) /\ Len(u) = n + 1 /\ u[n + 1] = e /\ \A k \in 1..n : u[k] = s[k]
  <2>1. u = Append(s, e) /\ IsSeq(s)
    BY <1>1, <1>2, <1>4, <1>5 DEF HeapOk, Longer
  <2>2. PICK S : S = {s[k] : k \in 1..n} \cup {e}
    OBVIOUS
  <2>3. s \in [1..n -> S]
    BY <1>3, <2>1, <2>2 DEF IsSeq
  <2>4. s \in Seq(S) /\ e \in S
    BY <2>2, <2>3
  <2>5. u \in Seq(S) /\ Len(u) = n + 1 /\ u[n + 1] = e /\ \A k \in 1..n : u[k] = s[k]
    BY <1>3, <2>1, <2>4
  <2> QED BY <2>5, SeqIs
<1>7. x = <<t, n + 1>>
  BY <1>2, <1>3
<1>8. x \in Objects(w) /\ Obj(w, x) = e
  <2>1. n + 1 \in 1..Len(u)
    BY <1>6
  <2>2. <<t, n + 1>> \in Objects(w) /\ Obj(w, <<t, n + 1>>) = w[t][n + 1]
    BY <1>0, <1>1, <1>5, <2>1
  <2> QED BY <1>5, <1>6, <1>7, <2>2
<1>9. ASSUME NEW i \in Objects(h) PROVE i \in Objects(w) /\ Obj(w, i) = Obj(h, i)
  <2>1. PICK v \in Threads, k \in Nat : k \in 1..Len(h[v]) /\ i = <<v, k>>
    <3>1. PICK v \in Threads : \E k \in 1..Len(h[v]) : i = <<v, k>>
      BY <1>1, ObjectsAre
    <3>2. Len(h[v]) \in Nat
      BY DEF HeapOk, IsSeq
    <3> QED BY <3>1, <3>2
  <2>2. k \in 1..Len(w[v]) /\ w[v][k] = h[v][k]
    <3>1. CASE v = t
      BY <1>2, <1>3, <1>5, <1>6, <2>1, <3>1
    <3>2. CASE v # t
      BY <1>1, <2>1, <3>2
    <3> QED BY <3>1, <3>2
  <2>3. <<v, k>> \in Objects(w) /\ Obj(w, <<v, k>>) = w[v][k]
    BY <1>0, <1>1, <2>2
  <2>4. Obj(h, <<v, k>>) = h[v][k]
    BY DEF Obj
  <2> QED BY <2>1, <2>2, <2>3, <2>4
<1>10. Grown(h, w)
  BY <1>9 DEF Grown
<1>11. ASSUME NEW i \in Objects(w) PROVE i = x \/ i \in Objects(h)
  <2>1. PICK v \in Threads : \E k \in 1..Len(w[v]) : i = <<v, k>>
    BY <1>0, <1>1
  <2>2. PICK k \in 1..Len(w[v]) : i = <<v, k>>
    BY <2>1
  <2>3. CASE v = t
    <3>1. k \in 1..(n + 1)
      BY <1>5, <1>6, <2>2, <2>3
    <3>2. CASE k = n + 1
      BY <1>7, <2>2, <2>3, <3>2
    <3>3. CASE k # n + 1
      <4>1. k \in 1..Len(h[t])
        BY <1>2, <1>3, <3>1, <3>3
      <4> QED BY <1>1, <2>2, <2>3, <4>1, ObjectsAre
    <3> QED BY <3>2, <3>3
  <2>4. CASE v # t
    <3>1. k \in 1..Len(h[v])
      BY <1>1, <2>2, <2>4
    <3> QED BY <1>1, <2>2, <3>1, ObjectsAre
  <2> QED BY <2>3, <2>4
<1>12. ASSUME NEW i \in Objects(h), InstanceOk(a, h, i) PROVE InstanceOk(a, w, i)
  <2>1. Obj(w, i) = Obj(h, i)
    BY <1>9
  <2>2. ASSUME NEW v, Holds(a, h, i, v) PROVE Holds(a, w, i, v)
    <3>1. Whole(a, w, v) /\ Obj(w, v).class = Obj(h, v).class /\ Obj(w, v).for = Obj(h, v).for
      BY <1>10, <2>2, WholeStays DEF Holds
    <3> QED BY <2>1, <2>2, <3>1 DEF Holds
  <2> QED BY <1>12, <2>1, <2>2 DEF InstanceOk
<1>13. InstanceOk(a, w, x)
  <2>1. DOMAIN e = {"class", "fields", "for"} /\ e.class = c /\ DOMAIN e.fields = {}
    <3>1. e.fields = <<>> /\ DOMAIN e = {"class", "fields", "for"} /\ e.class = c
      BY <1>4 DEF NewObj
    <3>2. DOMAIN <<>> = {}
      OBVIOUS
    <3> QED BY <3>1, <3>2
  <2> QED BY <1>8, <2>1 DEF InstanceOk
<1>14. \A v \in Threads : IsSeq(w[v])
  BY <1>1, <1>5, <1>6 DEF HeapOk
<1>15. HeapOk(a, w)
  BY <1>1, <1>11, <1>12, <1>13, <1>14 DEF HeapOk
<1>16. e.class = c /\ e.for = req
  BY <1>4 DEF NewObj
<1> QED BY <1>8, <1>10, <1>15, <1>16 DEF Made

(* A field is set, to what is whole and of the same request. *)
LEMMA FillIs ==
  ASSUME NEW a, NEW h, HeapOk(a, h), NEW i \in Objects(h), NEW field, NEW v, Holds(a, h, i, v), NEW w,
         w = [h EXCEPT ![i[1]][i[2]].fields = WithField(@, field, v)]
  PROVE  HeapOk(a, w) /\ Grown(h, w)
<1>1. PICK t \in Threads : \E n \in 1..Len(h[t]) : i = <<t, n>>
  BY ObjectsAre DEF HeapOk
<1>2. PICK n \in 1..Len(h[t]) : i = <<t, n>>
  BY <1>1
<1>3. PICK o : o = Obj(h, i)
  OBVIOUS
<1>4. o = h[t][n] /\ InstanceOk(a, h, i)
  BY <1>2, <1>3 DEF Obj, HeapOk
<1>5. PICK fs : fs = WithField(o.fields, field, v)
  OBVIOUS
<1>6. PICK e : e = [o EXCEPT !.fields = fs]
  OBVIOUS
<1>7. {"class", "fields", "for"} \subseteq DOMAIN o
  BY <1>3, <1>4 DEF InstanceOk
<1>8. e.class = o.class /\ e.for = o.for /\ e.fields = fs /\ DOMAIN e = DOMAIN o
  BY <1>6, <1>7
<1>9. DOMAIN fs = DOMAIN o.fields \cup {field} /\ \A x \in DOMAIN fs : fs[x] = IF x = field THEN v ELSE o.fields[x]
  BY <1>5 DEF WithField
<1>10. DOMAIN h = Threads /\ \A u \in Threads : IsSeq(h[u])
  BY DEF HeapOk
<1>11. PICK N \in Nat : N = Len(h[t])
  BY <1>10 DEF IsSeq
<1>12. DOMAIN h[t] = 1..N
  BY <1>10, <1>11 DEF IsSeq
<1>13. DOMAIN w = Threads /\ \A u \in Threads : u # t => w[u] = h[u]
  BY <1>2, <1>10
<1>14. PICK s : s = w[t]
  OBVIOUS
<1>15. s = [h[t] EXCEPT ![n] = e]
  BY <1>2, <1>4, <1>5, <1>6, <1>10, <1>12, <1>14
<1>16. s = [k \in 1..N |-> s[k]] /\ s[n] = e /\ \A k \in 1..N : k # n => s[k] = h[t][k]
  BY <1>2, <1>11, <1>12, <1>15
<1>17. IsSeq(s) /\ Len(s) = N
  BY <1>16, MadeSeq
<1>18. Objects(w) = Objects(h)
  <2>1. \A u \in Threads : Len(w[u]) = Len(h[u])
    BY <1>11, <1>13, <1>14, <1>17
  <2> QED BY <1>10, <1>13, <2>1 DEF Objects
<1>19. ASSUME NEW j \in Objects(h) PROVE Obj(w, j) = IF j = i THEN e ELSE Obj(h, j)
  <2>1. PICK u \in Threads : \E k \in 1..Len(h[u]) : j = <<u, k>>
    BY <1>10, ObjectsAre
  <2>2. PICK k \in 1..Len(h[u]) : j = <<u, k>>
    BY <2>1
  <2>3. Obj(w, j) = w[u][k] /\ Obj(h, j) = h[u][k]
    BY <2>2 DEF Obj
  <2>4. CASE u = t
    <3>1. j = i <=> k = n
      BY <1>2, <2>2, <2>4
    <3> QED BY <1>11, <1>14, <1>16, <2>3, <2>4, <3>1
  <2>5. CASE u # t
    <3>1. j # i
      BY <1>2, <2>2, <2>5
    <3> QED BY <1>13, <2>3, <2>5, <3>1
  <2> QED BY <2>4, <2>5
<1>20. Grown(h, w)
  BY <1>3, <1>8, <1>9, <1>18, <1>19 DEF Grown
<1>21. ASSUME NEW j \in Objects(h), NEW y, Holds(a, h, j, y) PROVE Holds(a, w, j, y)
  <2>1. Whole(a, w, y) /\ Obj(w, y).class = Obj(h, y).class /\ Obj(w, y).for = Obj(h, y).for
    BY <1>20, <1>21, WholeStays DEF Holds
  <2>2. Obj(w, j).class = Obj(h, j).class /\ Obj(w, j).for = Obj(h, j).for
    BY <1>20 DEF Grown
  <2> QED BY <1>21, <2>1, <2>2 DEF Holds
<1>22. ASSUME NEW j \in Objects(h) PROVE InstanceOk(a, w, j)
  <2>1. InstanceOk(a, h, j)
    BY DEF HeapOk
  <2>2. CASE j = i
    <3>1. Obj(w, j) = e
      BY <1>19, <2>2
    <3>2. ASSUME NEW x \in DOMAIN fs PROVE Holds(a, h, i, fs[x])
      <4>1. CASE x = field
        BY <1>9, <4>1
      <4>2. CASE x # field
        BY <1>3, <1>4, <1>9, <4>2 DEF InstanceOk
      <4> QED BY <4>1, <4>2
    <3>3. \A x \in DOMAIN fs : Holds(a, w, j, fs[x])
      BY <1>21, <2>2, <3>2
    <3> QED BY <1>3, <1>7, <1>8, <2>1, <2>2, <3>1, <3>3 DEF InstanceOk
  <2>3. CASE j # i
    <3>1. Obj(w, j) = Obj(h, j)
      BY <1>19, <2>3
    <3> QED BY <1>21, <2>1, <3>1 DEF InstanceOk
  <2> QED BY <2>2, <2>3
<1>23. HeapOk(a, w)
  BY <1>10, <1>13, <1>14, <1>17, <1>18, <1>22 DEF HeapOk
<1> QED BY <1>20, <1>23

(* What is being made at the start is there or still being made. *)
Follows(a, p, st, w) ==
  st # <<>> /\ OfScope(a, st[Len(st)].class, "Startup") =>
    p[st[Len(st)].class] # NoInst \/ (w # <<>> /\ w[Len(w)].class = st[Len(st)].class)
(* One thread goes on; while there are constructors it is the main thread. *)
LEMMA ThreadMoves ==
  ASSUME NEW a, NEW h, NEW g, NEW ths, NEW m, Running(a, h, g, ths, m), NEW t \in Threads, NEW w, NEW p, NEW th, NEW new,
         Grown(h, w), Public(a, g, p), HeapOk(a, w), GlobalOk(a, w, p), ThreadOk(a, w, p, th),
         new = [ths EXCEPT ![t] = th],
         m.pc = "ctors" => t = "main" /\ Follows(a, p, ths[t].stack, th.stack),
         m.pc \in Past => NoneMade(a, th.stack)
  PROVE  Running(a, w, p, new, m)
<1>1. DOMAIN new = Threads /\ new[t] = th /\ \A u \in Threads : u # t => new[u] = ths[u]
  BY DEF Running
<1>2. \A u \in Threads : ThreadOk(a, w, p, new[u])
  <2>1. ASSUME NEW u \in Threads, u # t PROVE ThreadOk(a, w, p, new[u])
    <3>1. ThreadOk(a, h, g, ths[u])
      BY DEF Running
    <3>2. ThreadOk(a, w, p, ths[u])
      BY <3>1, ThreadStays
    <3> QED BY <1>1, <2>1, <3>2
  <2> QED BY <1>1, <2>1
<1>3. Constructing(a, p, new, m)
  <2> SUFFICES ASSUME m.pc = "ctors"
               PROVE  /\ m.k \in Nat /\ \A u \in Workers : new[u] = Idle
                      /\ \A c \in ClassesOf(a) : OfScope(a, c, "Startup") /\ Place(a, c) < m.k =>
                            p[c] # NoInst \/ (new["main"].stack # <<>> /\ new["main"].stack[Len(new["main"].stack)].class = c)
    BY DEF Constructing
  <2>1. /\ m.k \in Nat /\ \A u \in Workers : ths[u] = Idle
        /\ \A c \in ClassesOf(a) : OfScope(a, c, "Startup") /\ Place(a, c) < m.k =>
              g[c] # NoInst \/ (ths["main"].stack # <<>> /\ ths["main"].stack[Len(ths["main"].stack)].class = c)
    BY DEF Running, Constructing
  <2>2. \A u \in Workers : u # t /\ u \in Threads
    BY WorkersAssumption DEF Threads
  <2>3. \A u \in Workers : new[u] = Idle
    BY <1>1, <2>1, <2>2
  <2>4. new["main"] = th /\ t = "main"
    BY <1>1
  <2>5. PICK st : st = ths["main"].stack
    OBVIOUS
  <2>6. ASSUME NEW c \in ClassesOf(a), OfScope(a, c, "Startup"), Place(a, c) < m.k
        PROVE  p[c] # NoInst \/ (th.stack # <<>> /\ th.stack[Len(th.stack)].class = c)
    <3>1. g[c] # NoInst \/ (st # <<>> /\ st[Len(st)].class = c)
      BY <2>1, <2>5, <2>6
    <3>2. Follows(a, p, st, th.stack)
      BY <2>4, <2>5
    <3> QED BY <2>6, <3>1, <3>2 DEF Follows, Public
  <2> QED BY <2>1, <2>3, <2>4, <2>6
<1>4. Constructed(a, p, new, m)
  BY <1>1 DEF Running, Constructed, Public
<1> QED BY <1>1, <1>2, <1>3, <1>4 DEF Running

(* The call on top changes, but not what it is a call of. *)
LEMMA CallChanges ==
  ASSUME NEW a, NEW h, NEW g, NEW th, ThreadOk(a, h, g, th), th.stack # <<>>, NEW f, CallOk(a, h, g, th.req, f), f.class = th.stack[1].class,
         NEW w, w = <<f>> \o Tail(th.stack), NEW new, new = [th EXCEPT !.stack = w]
  PROVE  /\ ThreadOk(a, h, g, new) /\ \A p : Follows(a, p, th.stack, new.stack)
         /\ NoneMade(a, th.stack) /\ (f.pc = "fields" => ~OfScope(a, f.class, "Startup")) => NoneMade(a, new.stack)
<1>1. PICK st : st = th.stack
  OBVIOUS
<1>2. PICK req : req = th.req
  OBVIOUS
<1>3. CallsOk(a, h, g, req, st) /\ IsSeq(st) /\ ControllerOk(a, h, th) /\ ThreadFields(th)
  BY <1>1, <1>2 DEF ThreadOk, CallsOk
<1>4. PICK n \in Nat : n = Len(st)
  BY <1>3 DEF IsSeq
<1>5. n >= 1 /\ IsSeq(w) /\ Len(w) = n /\ w[1] = f /\ \A k \in 2..n : w[k] = st[k]
  <2>1. TopIs(w, st, f)
    BY <1>1, <1>3, NewTop
  <2>2. \A k \in 2..n : k \in 1..n /\ k # 1
    OBVIOUS
  <2> QED BY <1>4, <2>1, <2>2 DEF TopIs
<1>6. \A k \in 1..n : k = 1 \/ k \in 2..n
  OBVIOUS
<1>7. CallsOk(a, h, g, req, w)
  BY <1>2, <1>3, <1>4, <1>5, <1>6 DEF CallsOk
<1>8. w # <<>> /\ w[n].class = st[n].class
  <2>1. n = 1 \/ n \in 2..n
    BY <1>5
  <2>2. w[n].class = st[n].class
    BY <1>1, <1>5, <2>1
  <2>3. PICK e : e = <<>>
    OBVIOUS
  <2>4. Len(e) = 0
    BY <2>3, NoneIs
  <2> QED BY <1>5, <2>2, <2>3, <2>4
<1>9. ThreadFields(new) /\ new.stack = w /\ new.req = req /\ new.pc = th.pc /\ new.route = th.route /\ new.ctrl = th.ctrl
      /\ new.left = th.left /\ new.sees = th.sees
  BY <1>2, <1>3 DEF ThreadFields
<1>10. Called(a, new) = Called(a, th)
  BY <1>9 DEF Called
<1>11. ControllerOk(a, h, new)
  <2>1. th.pc = "controller" => w[n].class = Called(a, th)
    BY <1>1, <1>3, <1>4, <1>8 DEF ControllerOk
  <2>2. th.pc = "inject" => th.left # {}
    BY <1>3 DEF ControllerOk
  <2> QED BY <1>2, <1>3, <1>5, <1>9, <1>10, <2>1, <2>2 DEF ControllerOk
<1>12. ThreadOk(a, h, g, new)
  BY <1>7, <1>9, <1>11 DEF ThreadOk
<1>13. \A p : Follows(a, p, st, w)
  BY <1>4, <1>5, <1>8 DEF Follows
<1>14. NoneMade(a, st) /\ (f.pc = "fields" => ~OfScope(a, f.class, "Startup")) => NoneMade(a, w)
  BY <1>4, <1>5, <1>6 DEF NoneMade
<1> QED BY <1>1, <1>9, <1>12, <1>13, <1>14

(* A thread goes on: it stays as it should be, the component under construction
   below all its calls is the same, and no startup component is begun. *)
GoesOn(a, h, g, th, new) ==
  /\ ThreadOk(a, h, g, new) /\ \A p : Follows(a, p, th.stack, new.stack)
  /\ NoneMade(a, th.stack) => NoneMade(a, new.stack)
(* A call is made of one that makes an instance. *)
LEMMA CallMade ==
  ASSUME NEW a, NEW h, NEW g, NEW th, ThreadOk(a, h, g, th), th.stack # <<>>, th.stack[1].pc = "fields",
         NEW f, CallOk(a, h, g, th.req, f), f.pc = "load", NEW w, w = <<f>> \o th.stack, NEW new, new = [th EXCEPT !.stack = w]
  PROVE  GoesOn(a, h, g, th, new)
<1>1. PICK st : st = th.stack
  OBVIOUS
<1>2. PICK req : req = th.req
  OBVIOUS
<1>3. CallsOk(a, h, g, req, st) /\ IsSeq(st) /\ ControllerOk(a, h, th) /\ ThreadFields(th)
  BY <1>1, <1>2 DEF ThreadOk, CallsOk
<1>4. PICK n \in Nat : n = Len(st)
  BY <1>3 DEF IsSeq
<1>5. n >= 1 /\ IsSeq(w) /\ Len(w) = n + 1 /\ w[1] = f /\ \A k \in 1..n : w[k + 1] = st[k]
  BY <1>1, <1>3, <1>4, ConsIs, TailIs
<1>6. ASSUME NEW k \in 1..(n + 1), k # 1 PROVE k - 1 \in 1..n /\ w[k] = st[k - 1]
  <2>1. k - 1 \in 1..n /\ (k - 1) + 1 = k
    BY <1>6
  <2> QED BY <1>5, <2>1
<1>7. CallsOk(a, h, g, req, w)
  <2>1. ASSUME NEW k \in 1..(n + 1) PROVE CallOk(a, h, g, req, w[k]) /\ (k >= 2 => w[k].pc = "fields")
    <3>1. CASE k = 1
      BY <1>2, <1>5, <3>1
    <3>2. CASE k # 1
      <4>1. k - 1 \in 1..n /\ w[k] = st[k - 1]
        BY <1>6, <3>2
      <4>2. PICK j \in 1..n : j = k - 1
        BY <4>1
      <4>3. CallOk(a, h, g, req, st[j]) /\ (j = 1 \/ st[j].pc = "fields")
        <5>1. j = 1 \/ j >= 2
          BY <4>2
        <5> QED BY <1>3, <1>4, <5>1 DEF CallsOk
      <4>4. st[j].pc = "fields"
        BY <1>1, <4>3
      <4> QED BY <4>1, <4>2, <4>3, <4>4
    <3> QED BY <3>1, <3>2
  <2> QED BY <1>5, <2>1 DEF CallsOk
<1>8. w # <<>> /\ w[n + 1].class = st[n].class
  <2>1. n \in 1..n
    BY <1>5
  <2>2. w[n + 1].class = st[n].class
    BY <1>5, <2>1
  <2>3. PICK e : e = <<>>
    OBVIOUS
  <2>4. Len(e) = 0
    BY <2>3, NoneIs
  <2> QED BY <1>5, <2>2, <2>3, <2>4
<1>9. ThreadFields(new) /\ new.stack = w /\ new.req = req /\ new.pc = th.pc /\ new.route = th.route /\ new.ctrl = th.ctrl
      /\ new.left = th.left /\ new.sees = th.sees
  BY <1>2, <1>3 DEF ThreadFields
<1>10. Called(a, new) = Called(a, th)
  BY <1>9 DEF Called
<1>11. ControllerOk(a, h, new)
  <2>1. th.pc = "controller" => w[n + 1].class = Called(a, th)
    BY <1>1, <1>3, <1>4, <1>8 DEF ControllerOk
  <2>2. th.pc = "inject" => th.left # {}
    BY <1>3 DEF ControllerOk
  <2> QED BY <1>2, <1>3, <1>5, <1>9, <1>10, <2>1, <2>2 DEF ControllerOk
<1>12. ThreadOk(a, h, g, new)
  BY <1>7, <1>9, <1>11 DEF ThreadOk
<1>13. \A p : Follows(a, p, st, w)
  BY <1>4, <1>5, <1>8 DEF Follows
<1>14. NoneMade(a, st) => NoneMade(a, w)
  <2> SUFFICES ASSUME NoneMade(a, st), NEW k \in 1..(n + 1), w[k].pc = "fields" PROVE ~OfScope(a, w[k].class, "Startup")
    BY <1>5 DEF NoneMade
  <2>1. k # 1
    BY <1>5
  <2>2. PICK j \in 1..n : w[k] = st[j]
    BY <1>6, <2>1
  <2> QED BY <1>4, <2>2 DEF NoneMade
<1> QED BY <1>1, <1>9, <1>12, <1>13, <1>14 DEF GoesOn

(* The names of the server for the program that runs. *)
LEMMA NamesAre ==
  /\ \A c : Of(c) = Entry(app, c) /\ (Shared(c) <=> Sharing(app, c)) /\ (IsComponent(c) <=> c \in ClassesOf(app))
  /\ \A i : Instance(i) = Obj(heap, i) /\ Wanted(i) = Slots(app, heap, i) /\ Unfilled(i) = Open(app, heap, i)
  /\ Instances = Objects(heap)
<1>1. \A c : Of(c) = Entry(app, c)
  BY DEF Of, Component, Entry, Place
<1>2. \A c : (Shared(c) <=> Sharing(app, c)) /\ (IsComponent(c) <=> c \in ClassesOf(app))
  BY <1>1 DEF Shared, Sharing, IsComponent, ClassesOf
<1>3. \A i : Instance(i) = Obj(heap, i)
  BY DEF Instance, Obj
<1>4. \A i : Wanted(i) = Slots(app, heap, i)
  BY <1>1, <1>3 DEF Wanted, Slots
<1>5. \A i : Unfilled(i) = Open(app, heap, i)
  BY <1>3, <1>4 DEF Unfilled, Open
<1>6. Instances = Objects(heap)
  BY DEF Instances, Objects
<1> QED BY <1>1, <1>2, <1>3, <1>4, <1>5, <1>6

(* A call of a component. *)
LEMMA CallIs ==
  ASSUME NEW c, NEW a, a = app, c \in ClassesOf(a), NEW h, NEW g, NEW req, NEW f, f = Call(c)
  PROVE  CallOk(a, h, g, req, f) /\ f.pc = "load" /\ f.class = c
<1>1. f.pc = "load" /\ f.class = c /\ f.get = Shared(c) /\ DOMAIN f = {"class", "get", "pc", "inst"}
  BY DEF Call
<1>2. IF f.get THEN Sharing(a, c) ELSE ~Sharing(a, c)
  BY <1>1, NamesAre
<1> QED BY <1>1, <1>2 DEF CallOk

(* The call on top of a stack goes on. *)
LEMMA TopMoves ==
  ASSUME NEW a, NEW h, NEW g, NEW ths, NEW m, Running(a, h, g, ths, m), NEW t \in Threads, NEW w, NEW p, NEW f, NEW new,
         Grown(h, w), Public(a, g, p), HeapOk(a, w), GlobalOk(a, w, p), ths[t].stack # <<>>,
         CallOk(a, w, p, ths[t].req, f), f.class = ths[t].stack[1].class,
         new = [ths EXCEPT ![t].stack = <<f>> \o Tail(@)],
         m.pc = "ctors" => t = "main", m.pc \in Past /\ f.pc = "fields" => ~OfScope(a, f.class, "Startup")
  PROVE  Running(a, w, p, new, m)
<1>1. PICK th : th = ths[t]
  OBVIOUS
<1>2. PICK u : u = <<f>> \o Tail(th.stack)
  OBVIOUS
<1>3. PICK x : x = [th EXCEPT !.stack = u]
  OBVIOUS
<1>4. ThreadOk(a, w, p, th)
  BY <1>1, ThreadStays DEF Running
<1>5. /\ ThreadOk(a, w, p, x) /\ \A q : Follows(a, q, th.stack, x.stack)
      /\ NoneMade(a, th.stack) /\ (f.pc = "fields" => ~OfScope(a, f.class, "Startup")) => NoneMade(a, x.stack)
  <2>1. CallOk(a, w, p, th.req, f) /\ f.class = th.stack[1].class /\ th.stack # <<>>
    BY <1>1
  <2> QED BY <1>2, <1>3, <1>4, <2>1, CallChanges, ZenonT(30)
<1>6. new = [ths EXCEPT ![t] = x]
  BY <1>1, <1>2, <1>3 DEF Running
<1>7. m.pc = "ctors" => t = "main" /\ Follows(a, p, ths[t].stack, x.stack)
  BY <1>1, <1>5
<1>8. m.pc \in Past => NoneMade(a, x.stack)
  BY <1>1, <1>5 DEF Running, Constructed
<1> QED BY <1>4, <1>5, <1>6, <1>7, <1>8, ThreadMoves

(* The same heap has not shrunk. *)
LEMMA SameIs ==
  ASSUME NEW a, NEW h, NEW g
  PROVE  Grown(h, h) /\ Public(a, g, g)
BY DEF Grown, Public

(* The call on top of a stack. *)
LEMMA TopOk ==
  ASSUME NEW a, NEW h, NEW g, NEW ths, NEW m, Running(a, h, g, ths, m), NEW t \in Threads, ths[t].stack # <<>>
  PROVE  CallOk(a, h, g, ths[t].req, ths[t].stack[1])
<1>1. PICK st : st = ths[t].stack
  OBVIOUS
<1>2. CallsOk(a, h, g, ths[t].req, st) /\ IsSeq(st)
  BY <1>1 DEF Running, ThreadOk, CallsOk
<1>3. Len(st) >= 1 /\ Len(st) \in Nat
  BY <1>1, <1>2, TailIs DEF IsSeq
<1>4. 1 \in 1..Len(st)
  BY <1>3
<1> QED BY <1>1, <1>2, <1>4 DEF CallsOk

(* A getter finds what is published, or an instance is made. *)
LEMMA EnterOk ==
  ASSUME Running(app, heap, global, threads, main), NEW t \in Threads, main.pc = "ctors" => t = "main",
         threads[t].stack # <<>>, Enter(t)
  PROVE  Running(app, heap', global', threads', main)
<1>1. PICK a, h, g, ths, m : a = app /\ h = heap /\ g = global /\ ths = threads /\ m = main
  OBVIOUS
<1>2. PICK f : f = ths[t].stack[1]
  OBVIOUS
<1>3. PICK req : req = ths[t].req
  OBVIOUS
<1>4. Running(a, h, g, ths, m) /\ HeapOk(a, h) /\ GlobalOk(a, h, g)
  BY <1>1 DEF Running
<1>5. CallOk(a, h, g, req, f)
  BY <1>1, <1>2, <1>3, <1>4, TopOk
<1>6. f.pc = "load" /\ global' = global
  BY <1>1, <1>2 DEF Enter, TopOf
<1>7. Grown(h, h) /\ Public(a, g, g)
  BY SameIs
<1>8. CASE f.get /\ g[f.class] # NoInst
  <2>1. heap' = heap /\ threads' = [threads EXCEPT ![t].stack = <<[f EXCEPT !.pc = "reload"]>> \o Tail(@)]
    BY <1>1, <1>2, <1>8 DEF Enter, TopOf, Missing, SetFrame
  <2>2. PICK x : x = [f EXCEPT !.pc = "reload"]
    OBVIOUS
  <2>3. DOMAIN x = DOMAIN f /\ x.class = f.class /\ x.get = f.get /\ x.pc = "reload"
    BY <1>5, <2>2 DEF CallOk
  <2>4. CallOk(a, h, g, req, x)
    BY <1>5, <1>8, <2>3 DEF CallOk
  <2>5. PICK new : new = [ths EXCEPT ![t].stack = <<x>> \o Tail(@)]
    OBVIOUS
  <2>6. x.class = ths[t].stack[1].class /\ x.pc # "fields"
    BY <1>2, <2>3
  <2>7. Running(a, h, g, new, m)
    BY <1>1, <1>3, <1>4, <1>7, <2>4, <2>5, <2>6, TopMoves
  <2>8. threads' = new
    BY <1>1, <2>1, <2>2, <2>5
  <2> QED BY <1>1, <1>6, <2>1, <2>7, <2>8
<1>9. CASE ~(f.get /\ g[f.class] # NoInst)
  <2>1. PICK x : x = <<t, Len(h[t]) + 1>>
    OBVIOUS
  <2>2. heap' = NewInstance(t, f.class) /\ threads' = [threads EXCEPT ![t].stack = <<[f EXCEPT !.pc = "fields", !.inst = x]>> \o Tail(@)]
    BY <1>1, <1>2, <1>9, <2>1 DEF Enter, TopOf, Missing, SetFrame
  <2>3. PICK w : w = heap'
    OBVIOUS
  <2>4. DOMAIN w = Threads /\ \A u \in Threads : w[u] = IF u = t THEN Append(h[t], NewObj(f.class, req)) ELSE h[u]
    BY <1>1, <1>3, <1>4, <2>2, <2>3 DEF NewInstance, NewObj, HeapOk
  <2>5. f.class \in ClassesOf(a)
    BY <1>5 DEF CallOk
  <2>6. HeapOk(a, w) /\ Grown(h, w) /\ x \in Objects(w) /\ Obj(w, x).class = f.class /\ Obj(w, x).for = req
    <3>1. PICK c \in ClassesOf(a) : c = f.class
      BY <2>5
    <3>2. Longer(h, w, t, NewObj(c, req))
      BY <2>4, <3>1 DEF Longer
    <3>3. HeapOk(a, h)
      BY <1>4
    <3>4. Made(a, h, w, x, c, req)
      BY <2>1, <3>2, <3>3, NewIs
    <3> QED BY <3>1, <3>4 DEF Made
  <2>7. PICK y : y = [f EXCEPT !.pc = "fields", !.inst = x]
    OBVIOUS
  <2>8. DOMAIN y = DOMAIN f /\ y.class = f.class /\ y.get = f.get /\ y.pc = "fields" /\ y.inst = x
    BY <1>5, <2>7 DEF CallOk
  <2>9. CallOk(a, w, g, req, y)
    BY <1>5, <2>6, <2>8 DEF CallOk
  <2>10. PICK new : new = [ths EXCEPT ![t].stack = <<y>> \o Tail(@)]
    OBVIOUS
  <2>11. y.class = ths[t].stack[1].class
    BY <1>2, <2>8
  <2>12. m.pc \in Past => ~OfScope(a, y.class, "Startup")
    <3>1. OfScope(a, f.class, "Startup") => f.get
      BY <1>5 DEF CallOk, Sharing, OfScope
    <3>2. m.pc \in Past /\ OfScope(a, f.class, "Startup") => g[f.class] # NoInst
      BY <1>4, <2>5 DEF Running, Constructed
    <3> QED BY <1>9, <2>8, <3>1, <3>2
  <2>13. GlobalOk(a, w, g)
    BY <1>4, <2>6, GlobalStays
  <2>14. Running(a, w, g, new, m)
    BY <1>1, <1>3, <1>4, <1>7, <2>6, <2>9, <2>10, <2>11, <2>12, <2>13, TopMoves
  <2>15. threads' = new
    BY <1>1, <2>2, <2>7, <2>10
  <2> QED BY <1>1, <1>6, <2>3, <2>14, <2>15
<1> QED BY <1>8, <1>9

(* The getter or factory of the next field is called. *)
LEMMA CallFieldOk ==
  ASSUME Running(app, heap, global, threads, main), NEW t \in Threads, main.pc = "ctors" => t = "main",
         threads[t].stack # <<>>, CallField(t)
  PROVE  Running(app, heap', global', threads', main)
<1>1. PICK a, h, g, ths, m : a = app /\ h = heap /\ g = global /\ ths = threads /\ m = main
  OBVIOUS
<1>2. PICK th : th = ths[t]
  OBVIOUS
<1>3. PICK f : f = th.stack[1]
  OBVIOUS
<1>4. Running(a, h, g, ths, m) /\ HeapOk(a, h) /\ GlobalOk(a, h, g) /\ ThreadOk(a, h, g, th) /\ th.stack # <<>>
  BY <1>1, <1>2 DEF Running
<1>5. CallOk(a, h, g, th.req, f)
  BY <1>2, <1>3, <1>4, TopOk
<1>6. f.pc = "fields" /\ Unfilled(f.inst) # {} /\ heap' = heap /\ global' = global
  BY <1>1, <1>2, <1>3 DEF CallField, TopOf
<1>7. PICK n : n = Min(Unfilled(f.inst))
  OBVIOUS
<1>8. PICK c : c = Slots(a, h, f.inst)[n].type
  OBVIOUS
<1>9. c = NextField(f.inst).type
  BY <1>1, <1>7, <1>8, NamesAre DEF NextField
<1>10. c \in ClassesOf(a)
  <2>1. PICK i : i = f.inst
    OBVIOUS
  <2>2. Obj(h, i).class \in ClassesOf(a)
    BY <1>5, <1>6, <2>1 DEF CallOk
  <2>3. PICK S : S = Open(a, h, i)
    OBVIOUS
  <2>4. S \subseteq 1..Len(Slots(a, h, i)) /\ S # {} /\ n = Min(S)
    BY <1>1, <1>6, <1>7, <2>1, <2>3, NamesAre DEF Open
  <2>5. Listed(a) /\ SelfContained(a)
    BY <1>4 DEF Running
  <2>6. Slots(a, h, i)[Min(S)].type \in ClassesOf(a)
    BY <2>2, <2>4, <2>5, SlotIs
  <2> QED BY <1>8, <2>1, <2>4, <2>6
<1>11. PICK x : x = Call(c)
  OBVIOUS
<1>12. CallOk(a, h, g, th.req, x) /\ x.pc = "load"
  BY <1>1, <1>10, <1>11, CallIs
<1>13. PICK w : w = <<x>> \o th.stack
  OBVIOUS
<1>14. PICK y : y = [th EXCEPT !.stack = w]
  OBVIOUS
<1>15. GoesOn(a, h, g, th, y)
  <2>1. th.stack[1].pc = "fields" /\ th.stack # <<>> /\ ThreadOk(a, h, g, th)
    BY <1>3, <1>4, <1>6
  <2> QED BY <1>12, <1>13, <1>14, <2>1, CallMade
<1>16. PICK new : new = [ths EXCEPT ![t] = y]
  OBVIOUS
<1>17. threads' = new
  <2>1. threads' = [threads EXCEPT ![t].stack = <<x>> \o @]
    BY <1>1, <1>2, <1>3, <1>9, <1>11 DEF CallField, TopOf
  <2> QED BY <1>1, <1>2, <1>13, <1>14, <1>16, <2>1
<1>18. m.pc = "ctors" => t = "main" /\ Follows(a, g, ths[t].stack, y.stack)
  BY <1>1, <1>2, <1>15 DEF GoesOn
<1>19. m.pc \in Past => NoneMade(a, y.stack)
  BY <1>2, <1>4, <1>15 DEF GoesOn, Running, Constructed
<1>20. Grown(h, h) /\ Public(a, g, g)
  BY SameIs
<1>21. ThreadOk(a, h, g, y)
  BY <1>15 DEF GoesOn
<1>22. Running(a, h, g, new, m)
  BY <1>4, <1>16, <1>18, <1>19, <1>20, <1>21, ThreadMoves
<1> QED BY <1>1, <1>6, <1>17, <1>22

(* What is complete is published; no startup component is, once the constructors
   have run. *)
LEMMA PublishOk ==
  ASSUME Running(app, heap, global, threads, main), NEW t \in Threads, main.pc = "ctors" => t = "main",
         threads[t].stack # <<>>, Publish(t)
  PROVE  /\ Running(app, heap', global', threads', main)
         /\ main.pc \in Past => \A c \in DOMAIN global : OfScope(app, c, "Startup") => global'[c] = global[c]
<1>1. PICK a, h, g, ths, m : a = app /\ h = heap /\ g = global /\ ths = threads /\ m = main
  OBVIOUS
<1>2. PICK f : f = ths[t].stack[1]
  OBVIOUS
<1>3. PICK req : req = ths[t].req
  OBVIOUS
<1>4. Running(a, h, g, ths, m) /\ HeapOk(a, h) /\ GlobalOk(a, h, g)
  BY <1>1 DEF Running
<1>5. CallOk(a, h, g, req, f) /\ f.class \in ClassesOf(a)
  BY <1>1, <1>2, <1>3, <1>4, TopOk DEF CallOk
<1>6. f.pc = "fields" /\ f.get /\ Unfilled(f.inst) = {} /\ heap' = heap /\ global' = [global EXCEPT ![f.class] = f.inst]
      /\ threads' = [threads EXCEPT ![t].stack = <<[f EXCEPT !.pc = "reload"]>> \o Tail(@)]
  BY <1>1, <1>2 DEF Publish, TopOf, SetFrame
<1>7. Whole(a, h, f.inst) /\ Obj(h, f.inst).class = f.class /\ f.inst # NoInst
  <2>1. f.inst \in Objects(h) /\ Obj(h, f.inst).class = f.class
    BY <1>5, <1>6 DEF CallOk
  <2>2. Open(a, h, f.inst) = {}
    BY <1>1, <1>6, NamesAre
  <2> QED BY <2>1, <2>2, ObjectsAre DEF Whole
<1>8. PICK p : p = global'
  OBVIOUS
<1>9. DOMAIN p = ClassesOf(a) /\ p[f.class] = f.inst /\ \A c \in ClassesOf(a) : c # f.class => p[c] = g[c]
  BY <1>1, <1>4, <1>5, <1>6, <1>8 DEF GlobalOk
<1>10. GlobalOk(a, h, p) /\ Public(a, g, p)
  BY <1>4, <1>7, <1>9 DEF GlobalOk, Public
<1>11. PICK x : x = [f EXCEPT !.pc = "reload"]
  OBVIOUS
<1>12. DOMAIN x = DOMAIN f /\ x.class = f.class /\ x.get = f.get /\ x.pc = "reload"
  BY <1>5, <1>11 DEF CallOk
<1>13. CallOk(a, h, p, req, x)
  BY <1>5, <1>6, <1>7, <1>9, <1>12 DEF CallOk
<1>14. PICK new : new = [ths EXCEPT ![t].stack = <<x>> \o Tail(@)]
  OBVIOUS
<1>15. x.class = ths[t].stack[1].class /\ x.pc # "fields"
  BY <1>2, <1>12
<1>16. Grown(h, h)
  BY SameIs
<1>17. Running(a, h, p, new, m)
  BY <1>1, <1>3, <1>4, <1>10, <1>13, <1>14, <1>15, <1>16, TopMoves
<1>18. threads' = new
  BY <1>1, <1>6, <1>11, <1>14
<1>19. ASSUME m.pc \in Past PROVE ~OfScope(a, f.class, "Startup")
  <2>1. NoneMade(a, ths[t].stack)
    BY <1>4, <1>19 DEF Running, Constructed
  <2>2. IsSeq(ths[t].stack)
    BY <1>4 DEF Running, ThreadOk, CallsOk
  <2>3. Len(ths[t].stack) >= 1 /\ Len(ths[t].stack) \in Nat
    BY <1>1, <2>2, TailIs DEF IsSeq
  <2>4. 1 \in 1..Len(ths[t].stack)
    BY <2>3
  <2> QED BY <1>2, <1>6, <2>1, <2>4 DEF NoneMade
<1>20. main.pc \in Past => \A c \in DOMAIN global : OfScope(app, c, "Startup") => global'[c] = global[c]
  BY <1>1, <1>4, <1>8, <1>9, <1>19 DEF GlobalOk
<1> QED BY <1>1, <1>6, <1>8, <1>17, <1>18, <1>20

(* What a getter or a factory returns: whole, and of its own request where it is
   of a request's scope. *)
LEMMA ValueIs ==
  ASSUME NEW a, NEW h, NEW g, GlobalOk(a, h, g), NEW req, NEW f, CallOk(a, h, g, req, f),
         f.pc = "reload" \/ (f.pc = "fields" /\ ~f.get /\ Open(a, h, f.inst) = {}),
         NEW v, v = IF f.get THEN g[f.class] ELSE f.inst
  PROVE  /\ Whole(a, h, v) /\ Obj(h, v).class = f.class /\ v # NoInst
         /\ OfScope(a, f.class, "HttpRequest") => Obj(h, v).for = req
         /\ OfScope(a, f.class, "Startup") => g[f.class] # NoInst
<1>1. CASE f.get
  <2>1. f.pc = "reload" /\ g[f.class] # NoInst /\ Sharing(a, f.class) /\ f.class \in ClassesOf(a)
    BY <1>1 DEF CallOk
  <2>2. Whole(a, h, v) /\ Obj(h, v).class = f.class
    BY <1>1, <2>1 DEF GlobalOk
  <2>3. ~OfScope(a, f.class, "HttpRequest")
    BY <2>1 DEF Sharing, OfScope
  <2> QED BY <1>1, <2>1, <2>2, <2>3
<1>2. CASE ~f.get
  <2>1. f.pc = "fields" /\ Open(a, h, v) = {} /\ v = f.inst /\ ~Sharing(a, f.class)
    BY <1>2 DEF CallOk
  <2>2. v \in Objects(h) /\ Obj(h, v).class = f.class /\ Obj(h, v).for = req
    BY <2>1 DEF CallOk
  <2>3. ~OfScope(a, f.class, "Startup")
    BY <2>1 DEF Sharing, OfScope
  <2> QED BY <2>1, <2>2, <2>3, ObjectsAre DEF Whole
<1> QED BY <1>1, <1>2

(* A thread goes on, and the call that is now on top waits for a field. *)
ReturnsTo(a, h, g, th, new, f) == GoesOn(a, h, g, th, new) /\ CallOk(a, h, g, th.req, f) /\ f.pc = "fields"
(* A call returns to the one that made it. *)
LEMMA CallReturns ==
  ASSUME NEW a, NEW h, NEW g, NEW th, ThreadOk(a, h, g, th), NEW w, w = Tail(th.stack), th.stack # <<>>, w # <<>>,
         NEW new, new = [th EXCEPT !.stack = w]
  PROVE  ReturnsTo(a, h, g, th, new, w[1])
<1>1. PICK st : st = th.stack
  OBVIOUS
<1>2. PICK req : req = th.req
  OBVIOUS
<1>3. CallsOk(a, h, g, req, st) /\ IsSeq(st) /\ ControllerOk(a, h, th) /\ ThreadFields(th)
  BY <1>1, <1>2 DEF ThreadOk, CallsOk
<1>4. PICK n \in Nat : n = Len(st)
  BY <1>3 DEF IsSeq
<1>5. n >= 1 /\ IsSeq(w) /\ Len(w) = n - 1 /\ \A k \in 1..(n - 1) : w[k] = st[k + 1]
  BY <1>1, <1>3, <1>4, TailIs
<1>6. n >= 2
  <2>1. Len(w) >= 1
    BY <1>5, TailIs
  <2> QED BY <1>5, <2>1
<1>7. ASSUME NEW k \in 1..(n - 1) PROVE k + 1 \in 1..n /\ k + 1 >= 2 /\ w[k] = st[k + 1]
  BY <1>5
<1>8. CallsOk(a, h, g, req, w)
  <2>1. ASSUME NEW k \in 1..(n - 1) PROVE CallOk(a, h, g, req, w[k]) /\ w[k].pc = "fields"
    <3>1. PICK j \in 1..n : j = k + 1 /\ j >= 2 /\ w[k] = st[j]
      BY <1>7
    <3> QED BY <1>3, <1>4, <3>1 DEF CallsOk
  <2> QED BY <1>5, <2>1 DEF CallsOk
<1>9. w[n - 1] = st[n] /\ n - 1 \in 1..(n - 1) /\ 1 \in 1..(n - 1)
  <2>1. n - 1 \in 1..(n - 1) /\ (n - 1) + 1 = n /\ 1 \in 1..(n - 1)
    BY <1>6
  <2> QED BY <1>5, <2>1
<1>10. CallOk(a, h, g, req, w[1]) /\ w[1].pc = "fields"
  <2>1. w[1] = st[2] /\ 2 \in 1..n
    BY <1>5, <1>6, <1>9
  <2> QED BY <1>3, <1>4, <2>1 DEF CallsOk
<1>11. ThreadFields(new) /\ new.stack = w /\ new.req = req /\ new.pc = th.pc /\ new.route = th.route /\ new.ctrl = th.ctrl
       /\ new.left = th.left /\ new.sees = th.sees
  BY <1>2, <1>3 DEF ThreadFields
<1>12. Called(a, new) = Called(a, th)
  BY <1>11 DEF Called
<1>13. ControllerOk(a, h, new)
  <2>1. th.pc = "controller" => w[Len(w)].class = Called(a, th)
    BY <1>1, <1>3, <1>4, <1>5, <1>9 DEF ControllerOk
  <2>2. th.pc = "inject" => th.left # {}
    BY <1>3 DEF ControllerOk
  <2> QED BY <1>2, <1>3, <1>11, <1>12, <2>1, <2>2 DEF ControllerOk
<1>14. ThreadOk(a, h, g, new)
  BY <1>8, <1>11, <1>13 DEF ThreadOk
<1>15. \A p : Follows(a, p, st, w)
  <2>1. w[Len(w)] = st[Len(st)]
    BY <1>4, <1>5, <1>9
  <2> QED BY <2>1 DEF Follows
<1>16. NoneMade(a, st) => NoneMade(a, w)
  <2> SUFFICES ASSUME NoneMade(a, st), NEW k \in 1..(n - 1), w[k].pc = "fields" PROVE ~OfScope(a, w[k].class, "Startup")
    BY <1>5 DEF NoneMade
  <2>1. PICK j \in 1..n : w[k] = st[j]
    BY <1>7
  <2> QED BY <1>4, <2>1 DEF NoneMade
<1> QED BY <1>1, <1>2, <1>10, <1>11, <1>14, <1>15, <1>16 DEF GoesOn, ReturnsTo

(* A thread that calls nothing. *)
LEMMA NoCalls ==
  ASSUME NEW a, NEW h, NEW g, NEW req, NEW st, st = <<>>
  PROVE  CallsOk(a, h, g, req, st) /\ NoneMade(a, st)
<1>1. IsSeq(st) /\ Len(st) = 0
  BY NoneIs
<1>2. 1..Len(st) = {}
  BY <1>1
<1> QED BY <1>1, <1>2 DEF CallsOk, NoneMade

(* One call has no other below it: it is the last. *)
LEMMA LastCall ==
  ASSUME NEW st, IsSeq(st), st # <<>>, Tail(st) = <<>>
  PROVE  Len(st) = 1
<1>1. PICK n \in Nat : n = Len(st)
  BY DEF IsSeq
<1>2. PICK u : u = Tail(st)
  OBVIOUS
<1>3. n >= 1 /\ Len(u) = n - 1
  BY <1>1, <1>2, TailIs
<1>4. Len(u) = 0
  BY <1>2, NoneIs
<1>5. n - 1 = 0
  BY <1>3, <1>4
<1>6. n = 1
  BY <1>5
<1> QED BY <1>1, <1>6

(* The last call of a thread returns: what the thread becomes. *)
LEMMA LastReturns ==
  ASSUME NEW a, NEW h, NEW g, NEW ths, NEW m, Running(a, h, g, ths, m), NEW t \in Threads, NEW f, f = ths[t].stack[1],
         ths[t].stack # <<>>, Tail(ths[t].stack) = <<>>, OfScope(a, f.class, "Startup") => g[f.class] # NoInst,
         m.pc = "ctors" => t = "main", NEW w, HeapOk(a, w), Grown(h, w), NEW y, ThreadFields(y), y.stack = <<>>, ControllerOk(a, w, y),
         NEW new, new = [ths EXCEPT ![t] = y]
  PROVE  Running(a, w, g, new, m)
<1>1. PICK st : st = ths[t].stack
  OBVIOUS
<1>2. IsSeq(st)
  BY <1>1 DEF Running, ThreadOk, CallsOk
<1>3. Len(st) = 1
  BY <1>1, <1>2, LastCall
<1>4. st[Len(st)] = f
  BY <1>1, <1>3
<1>5. Follows(a, g, st, y.stack)
  BY <1>4 DEF Follows
<1>6. CallsOk(a, w, g, y.req, y.stack) /\ NoneMade(a, y.stack)
  BY NoCalls
<1>7. ThreadOk(a, w, g, y)
  BY <1>6 DEF ThreadOk
<1>8. GlobalOk(a, w, g) /\ Public(a, g, g)
  BY GlobalStays DEF Running, Public
<1>9. m.pc = "ctors" => t = "main" /\ Follows(a, g, ths[t].stack, y.stack)
  BY <1>1, <1>5
<1> QED BY <1>6, <1>7, <1>8, <1>9, ThreadMoves

(* A value is returned: it is stored by the caller, or becomes the controller of
   a request or a field of it. *)
LEMMA ReturnOk ==
  ASSUME Running(app, heap, global, threads, main), NEW t \in Threads, main.pc = "ctors" => t = "main",
         threads[t].stack # <<>>, Return(t)
  PROVE  Running(app, heap', global', threads', main)
<1>1. PICK a, h, g, ths, m : a = app /\ h = heap /\ g = global /\ ths = threads /\ m = main
  OBVIOUS
<1>2. PICK th : th = ths[t]
  OBVIOUS
<1>3. PICK f : f = th.stack[1]
  OBVIOUS
<1>4. PICK rest : rest = Tail(th.stack)
  OBVIOUS
<1>5. PICK v : v = IF f.get THEN g[f.class] ELSE f.inst
  OBVIOUS
<1>6. Running(a, h, g, ths, m) /\ HeapOk(a, h) /\ GlobalOk(a, h, g) /\ ThreadOk(a, h, g, th) /\ th.stack # <<>> /\ th = ths[t]
  BY <1>1, <1>2 DEF Running
<1>7. CallOk(a, h, g, th.req, f)
  BY <1>2, <1>3, <1>6, TopOk
<1>8. (f.pc = "reload" \/ (f.pc = "fields" /\ ~f.get /\ Unfilled(f.inst) = {})) /\ global' = global
  BY <1>1, <1>2, <1>3 DEF Return, TopOf
<1>9. f.pc = "reload" \/ (f.pc = "fields" /\ ~f.get /\ Open(a, h, f.inst) = {})
  BY <1>1, <1>8, NamesAre
<1>10. /\ Whole(a, h, v) /\ Obj(h, v).class = f.class /\ v # NoInst
       /\ OfScope(a, f.class, "HttpRequest") => Obj(h, v).for = th.req
       /\ OfScope(a, f.class, "Startup") => g[f.class] # NoInst
  BY <1>5, <1>6, <1>7, <1>9, ValueIs
<1>11. ThreadFields(th) /\ ControllerOk(a, h, th) /\ IsSeq(th.stack)
  BY <1>6 DEF ThreadOk, CallsOk
<1>12. CASE rest # <<>>
  <2>1. PICK i : i = rest[1].inst
    OBVIOUS
  <2>2. PICK field : field = NextField(i).field
    OBVIOUS
  <2>3. PICK w : w = heap'
    OBVIOUS
  <2>4. heap' = Fill(i, field, v) /\ threads' = [threads EXCEPT ![t].stack = rest]
    BY <1>1, <1>2, <1>3, <1>4, <1>5, <1>12, <2>1, <2>2 DEF Return, TopOf
  <2>5. w = [h EXCEPT ![i[1]][i[2]].fields = WithField(@, field, v)]
    BY <1>1, <2>3, <2>4 DEF Fill
  <2>6. PICK y : y = [th EXCEPT !.stack = rest]
    OBVIOUS
  <2>7. i \in Objects(h) /\ Obj(h, i).for = th.req
    <3>1. ReturnsTo(a, h, g, th, y, rest[1])
      BY <1>4, <1>6, <1>12, <2>6, CallReturns
    <3> QED BY <2>1, <3>1 DEF ReturnsTo, CallOk
  <2>8. Holds(a, h, i, v)
    BY <1>10, <2>7 DEF Holds
  <2>9. HeapOk(a, w) /\ Grown(h, w)
    BY <1>6, <2>5, <2>7, <2>8, FillIs
  <2>10. GlobalOk(a, w, g) /\ Public(a, g, g)
    BY <1>6, <2>9, GlobalStays DEF Public
  <2>11. ThreadOk(a, w, g, th)
    BY <1>6, <2>9, <2>10, ThreadStays
  <2>12. GoesOn(a, w, g, th, y)
    <3>1. ReturnsTo(a, w, g, th, y, rest[1])
      BY <1>4, <1>6, <1>12, <2>6, <2>11, CallReturns
    <3> QED BY <3>1 DEF ReturnsTo
  <2>13. ThreadOk(a, w, g, y)
    BY <2>12 DEF GoesOn
  <2>14. m.pc = "ctors" => t = "main" /\ Follows(a, g, ths[t].stack, y.stack)
    BY <1>1, <1>2, <2>12 DEF GoesOn
  <2>15. m.pc \in Past => NoneMade(a, y.stack)
    BY <1>2, <1>6, <2>12 DEF GoesOn, Running, Constructed
  <2>16. PICK new : new = [ths EXCEPT ![t] = y]
    OBVIOUS
  <2>17. Running(a, w, g, new, m)
    BY <1>6, <2>9, <2>10, <2>13, <2>14, <2>15, <2>16, ThreadMoves
  <2>18. threads' = new
    BY <1>1, <1>2, <2>4, <2>6, <2>16
  <2> QED BY <1>1, <1>8, <2>3, <2>17, <2>18
<1>13. ASSUME rest = <<>>, NEW w, HeapOk(a, w), Grown(h, w), NEW y, ThreadFields(y), y.stack = <<>>, ControllerOk(a, w, y),
              NEW new, new = [ths EXCEPT ![t] = y]
       PROVE  Running(a, w, g, new, m)
  <2>1. f = ths[t].stack[1] /\ ths[t].stack # <<>> /\ Tail(ths[t].stack) = <<>>
    BY <1>2, <1>3, <1>4, <1>6, <1>13
  <2>2. (OfScope(a, f.class, "Startup") => g[f.class] # NoInst) /\ (m.pc = "ctors" => t = "main")
    BY <1>1, <1>10
  <2> QED BY <1>6, <1>13, <2>1, <2>2, LastReturns
<1>14. ASSUME rest = <<>> PROVE f = th.stack[Len(th.stack)]
  <2>1. Len(th.stack) = 1
    BY <1>4, <1>6, <1>11, <1>14, LastCall
  <2> QED BY <1>3, <2>1
<1>15. Grown(h, h)
  BY SameIs
<1>16. CASE rest = <<>> /\ th.pc = "controller"
  <2>1. PICK left : left = IF f.get THEN Renewed(v) ELSE {}
    OBVIOUS
  <2>2. heap' = heap /\ threads' = [threads EXCEPT ![t].stack = <<>>, ![t].ctrl = v, ![t].pc = "inject", ![t].left = left]
    BY <1>1, <1>2, <1>3, <1>4, <1>5, <1>16, <2>1 DEF Return, TopOf
  <2>3. PICK y : y = [th EXCEPT !.stack = <<>>, !.ctrl = v, !.pc = "inject", !.left = left]
    OBVIOUS
  <2>4. ThreadFields(y) /\ y.stack = <<>> /\ y.ctrl = v /\ y.pc = "inject" /\ y.left = left /\ y.req = th.req /\ y.route = th.route
        /\ y.sees = th.sees
    BY <1>11, <2>3 DEF ThreadFields
  <2>5. Called(a, y) = f.class
    <3>1. f.class = Called(a, th)
      BY <1>6, <1>11, <1>14, <1>16 DEF ControllerOk
    <3> QED BY <2>4, <3>1 DEF Called
  <2>6. left # {} => left \subseteq 1..Len(Slots(a, h, v)) /\ ~OfScope(a, Obj(h, v).class, "HttpRequest")
    <3>1. CASE f.get
      <4>1. left \subseteq 1..Len(Slots(a, h, v))
        BY <1>1, <2>1, <3>1, NamesAre DEF Renewed
      <4>2. Sharing(a, f.class)
        BY <1>7, <3>1 DEF CallOk
      <4> QED BY <1>10, <4>1, <4>2 DEF Sharing, OfScope
    <3>2. CASE ~f.get
      BY <2>1, <3>2
    <3> QED BY <3>1, <3>2
  <2>7. ControllerOk(a, h, y)
    <3>1. \A i \in y.sees : Whole(a, h, i)
      BY <1>11, <2>4 DEF ControllerOk
    <3> QED BY <1>10, <2>4, <2>5, <2>6, <3>1 DEF ControllerOk
  <2>8. PICK new : new = [ths EXCEPT ![t] = y]
    OBVIOUS
  <2>9. Running(a, h, g, new, m)
    BY <1>6, <1>13, <1>15, <1>16, <2>4, <2>7, <2>8
  <2>10. threads' = new
    <3>1. DOMAIN ths = Threads
      BY <1>6 DEF Running
    <3> QED BY <1>1, <1>2, <2>2, <2>3, <2>8, <3>1
  <2> QED BY <1>1, <1>8, <2>2, <2>9, <2>10
<1>17. CASE rest = <<>> /\ th.pc = "inject"
  <2>1. PICK i : i = th.ctrl
    OBVIOUS
  <2>2. PICK field : field = Wanted(i)[Min(th.left)].field
    OBVIOUS
  <2>3. PICK w : w = heap'
    OBVIOUS
  <2>4. PICK left : left = th.left \ {Min(th.left)}
    OBVIOUS
  <2>5. heap' = Fill(i, field, v) /\ threads' = [threads EXCEPT ![t].stack = <<>>, ![t].left = @ \ {Min(@)}]
    BY <1>1, <1>2, <1>3, <1>4, <1>5, <1>17, <2>1, <2>2 DEF Return, TopOf
  <2>6. w = [h EXCEPT ![i[1]][i[2]].fields = WithField(@, field, v)]
    BY <1>1, <2>3, <2>5 DEF Fill
  <2>7. Whole(a, h, i) /\ i # NoInst /\ ~OfScope(a, Obj(h, i).class, "HttpRequest") /\ th.left \subseteq 1..Len(Slots(a, h, i))
    BY <1>6, <1>11, <1>17, <2>1 DEF ControllerOk
  <2>8. i \in Objects(h) /\ Holds(a, h, i, v)
    BY <1>10, <2>7 DEF Holds, Whole
  <2>9. HeapOk(a, w) /\ Grown(h, w)
    BY <1>6, <2>6, <2>8, FillIs
  <2>10. Public(a, g, g)
    BY SameIs
  <2>11. ThreadOk(a, w, g, th)
    BY <1>6, <2>9, <2>10, ThreadStays
  <2>12. PICK y : y = [th EXCEPT !.stack = <<>>, !.left = left]
    OBVIOUS
  <2>13. ThreadFields(y) /\ y.stack = <<>> /\ y.ctrl = th.ctrl /\ y.pc = "inject" /\ y.left = left /\ y.req = th.req /\ y.route = th.route
        /\ y.sees = th.sees
    BY <1>11, <1>17, <2>12 DEF ThreadFields
  <2>14. ControllerOk(a, w, y)
    <3>1. ControllerOk(a, w, th)
      BY <2>11 DEF ThreadOk
    <3>2. Called(a, y) = Called(a, th)
      BY <2>13 DEF Called
    <3>3. left \subseteq th.left /\ (left # {} => th.left # {})
      BY <2>4
    <3>4. left # {} => left \subseteq 1..Len(Slots(a, w, th.ctrl)) /\ ~OfScope(a, Obj(w, th.ctrl).class, "HttpRequest") /\ th.ctrl # NoInst
      BY <1>17, <3>1, <3>3 DEF ControllerOk
    <3> QED BY <2>13, <3>1, <3>2, <3>4 DEF ControllerOk
  <2>15. PICK new : new = [ths EXCEPT ![t] = y]
    OBVIOUS
  <2>16. Running(a, w, g, new, m)
    BY <1>13, <1>17, <2>9, <2>13, <2>14, <2>15
  <2>17. threads' = new
    <3>1. DOMAIN ths = Threads
      BY <1>6 DEF Running
    <3> QED BY <1>1, <1>2, <2>4, <2>5, <2>12, <2>15, <3>1
  <2> QED BY <1>1, <1>8, <2>3, <2>16, <2>17
<1>18. CASE rest = <<>> /\ th.pc # "controller" /\ th.pc # "inject"
  <2>1. heap' = heap /\ threads' = [threads EXCEPT ![t].stack = <<>>]
    BY <1>1, <1>2, <1>3, <1>4, <1>5, <1>18 DEF Return, TopOf
  <2>2. PICK y : y = [th EXCEPT !.stack = <<>>]
    OBVIOUS
  <2>3. ThreadFields(y) /\ y.stack = <<>> /\ y.ctrl = th.ctrl /\ y.pc = th.pc /\ y.left = th.left /\ y.req = th.req /\ y.route = th.route
        /\ y.sees = th.sees
    BY <1>11, <2>2 DEF ThreadFields
  <2>4. Called(a, y) = Called(a, th)
    BY <2>3 DEF Called
  <2>5. ControllerOk(a, h, y)
    BY <1>11, <1>18, <2>3, <2>4 DEF ControllerOk
  <2>6. PICK new : new = [ths EXCEPT ![t] = y]
    OBVIOUS
  <2>7. Running(a, h, g, new, m)
    BY <1>6, <1>13, <1>15, <1>18, <2>3, <2>5, <2>6
  <2>8. threads' = new
    BY <1>1, <1>2, <2>1, <2>2, <2>6
  <2> QED BY <1>1, <1>8, <2>1, <2>7, <2>8
<1> QED BY <1>12, <1>16, <1>17, <1>18

(* What a thread that has just begun is like. *)
LEMMA IdleOk ==
  ASSUME NEW a, NEW h, NEW g, NEW th, ThreadFields(th), th.stack = <<>>, th.ctrl = NoInst, th.sees = {}, th.left = {}
  PROVE  ThreadOk(a, h, g, th) /\ NoneMade(a, th.stack)
<1>1. CallsOk(a, h, g, th.req, th.stack) /\ NoneMade(a, th.stack)
  BY NoCalls
<1>2. ControllerOk(a, h, th)
  BY DEF ControllerOk
<1> QED BY <1>1, <1>2 DEF ThreadOk

(* Before the constructors have run no worker does anything. *)
LEMMA WorkersWait ==
  ASSUME NEW a, NEW h, NEW g, NEW ths, NEW m, Running(a, h, g, ths, m), m.pc = "ctors", NEW t \in Workers
  PROVE  ths[t].pc = "idle" /\ ths[t].stack = <<>>
<1>1. ths[t] = Idle
  BY DEF Running, Constructing
<1> QED BY <1>1 DEF Idle

(* The steps of dependency injection. *)
LEMMA InjectionOk ==
  ASSUME Running(app, heap, global, threads, main), {"pc", "k", "code"} \subseteq DOMAIN main, NEW t \in Threads, emit_di_code(t)
  PROVE  /\ Running(app', heap', global', threads', main') /\ main'.pc # "none"
         /\ main.pc # "ctors" => \A c \in DOMAIN global : OfScope(app, c, "Startup") => global'[c] = global[c]
<1>1. Alive /\ threads[t].stack # <<>>
  BY DEF emit_di_code
<1>2. main.pc = "ctors" => t = "main"
  BY <1>1, WorkersWait DEF Threads
<1>3. CASE Overflow(t)
  <2>1. app' = app /\ heap' = heap /\ global' = global /\ threads' = threads /\ main' = [main EXCEPT !.pc = "crashed"]
    BY <1>3 DEF Overflow
  <2>2. main'.pc = "crashed"
    BY <2>1
  <2>3. Constructing(app, global, threads, main') /\ Constructed(app, global, threads, main')
    BY <2>2 DEF Constructing, Constructed, Past
  <2>4. Running(app, heap, global, threads, main')
    BY <2>2, <2>3 DEF Running
  <2> QED BY <2>1, <2>2, <2>4
<1>4. ASSUME Enter(t) \/ CallField(t) \/ Publish(t) \/ Return(t), UNCHANGED <<app, main, services, made>>
      PROVE  /\ Running(app', heap', global', threads', main') /\ main'.pc # "none"
             /\ main.pc # "ctors" => \A c \in DOMAIN global : OfScope(app, c, "Startup") => global'[c] = global[c]
  <2>1. Running(app, heap', global', threads', main)
    BY <1>1, <1>2, <1>4, EnterOk, CallFieldOk, PublishOk, ReturnOk
  <2>2. Running(app', heap', global', threads', main') /\ main'.pc # "none"
    BY <1>1, <1>4, <2>1 DEF Alive
  <2>3. CASE Publish(t)
    <3>1. main.pc \in Past => \A c \in DOMAIN global : OfScope(app, c, "Startup") => global'[c] = global[c]
      BY <1>1, <1>2, <2>3, PublishOk
    <3>2. main.pc = "ctors" \/ main.pc \in Past
      BY <1>1 DEF Alive, Running
    <3> QED BY <2>2, <3>1, <3>2
  <2>4. CASE ~Publish(t)
    <3>1. global' = global
      BY <1>4, <2>4 DEF Enter, CallField, Return
    <3> QED BY <2>2, <3>1
  <2> QED BY <2>3, <2>4
<1> QED BY <1>3, <1>4 DEF emit_di_code

(* The constructors are called one after another; behind the last of them every
   startup component is published. *)
LEMMA ConstructorsOk ==
  ASSUME Running(app, heap, global, threads, main), {"pc", "k", "code"} \subseteq DOMAIN main, threads["main"].pc = "idle", tinox_di_startup
  PROVE  Running(app', heap', global', threads', main') /\ main'.pc # "none"
<1>1. PICK a, h, g, ths, m : a = app /\ h = heap /\ g = global /\ ths = threads /\ m = main
  OBVIOUS
<1>2. PICK th : th = ths["main"]
  OBVIOUS
<1>3. Running(a, h, g, ths, m) /\ HeapOk(a, h) /\ GlobalOk(a, h, g) /\ ThreadOk(a, h, g, th) /\ "main" \in Threads /\ DOMAIN ths = Threads
      /\ Listed(a) /\ SelfContained(a)
  BY <1>1, <1>2 DEF Running, Threads
<1>4. app' = app /\ heap' = heap /\ global' = global /\ m.pc = "ctors" /\ th.stack = <<>>
  BY <1>1, <1>2 DEF tinox_di_startup
<1>5. m.k \in Nat /\ \A c \in ClassesOf(a) : OfScope(a, c, "Startup") /\ Place(a, c) < m.k => g[c] # NoInst
  BY <1>2, <1>3, <1>4 DEF Running, Constructing
<1>6. \A t \in Workers : ths[t] = Idle
  BY <1>3, <1>4 DEF Running, Constructing
<1>7. PICK left : left = {i \in Startups : i >= main.k}
  OBVIOUS
<1>8. PICK n \in Nat : n = Len(a.components)
  BY <1>3 DEF Listed, IsSeq
<1>9. left \in SUBSET Nat /\ \A i : i \in left <=> i \in 1..n /\ a.components[i].scope = "Startup" /\ i >= m.k
  BY <1>1, <1>7, <1>8 DEF Startups
<1>10. ASSUME NEW c \in ClassesOf(a), OfScope(a, c, "Startup") PROVE Place(a, c) \in left \/ Place(a, c) < m.k
  <2>1. Place(a, c) \in 1..n /\ a.components[Place(a, c)].scope = "Startup"
    BY <1>3, <1>8, <1>10, EntryIs DEF OfScope, Entry
  <2>2. PICK i \in 1..n : i = Place(a, c)
    BY <2>1
  <2>3. i >= m.k \/ i < m.k
    BY <1>5
  <2> QED BY <1>9, <2>1, <2>2, <2>3
<1>11. CASE left # {}
  <2>1. PICK i : i = Min(left)
    OBVIOUS
  <2>2. i \in left /\ \A j \in left : i <= j
    BY <1>9, <1>11, <2>1, MinIs
  <2>3. PICK c : c = a.components[i].class
    OBVIOUS
  <2>4. PICK x : x = Call(c)
    OBVIOUS
  <2>5. threads' = [threads EXCEPT !["main"].stack = <<x>>] /\ main' = [main EXCEPT !.k = i + 1]
    BY <1>1, <1>7, <1>11, <2>1, <2>3, <2>4 DEF tinox_di_startup
  <2>6. c \in ClassesOf(a) /\ i \in 1..n
    BY <1>8, <1>9, <2>2, <2>3 DEF ClassesOf
  <2>7. CallOk(a, h, g, th.req, x) /\ x.class = c /\ x.pc = "load"
    BY <1>1, <2>4, <2>6, CallIs
  <2>8. PICK st : st = <<x>>
    OBVIOUS
  <2>9. IsSeq(st) /\ Len(st) = 1 /\ st[1] = x /\ st # <<>>
    BY <2>8, OneIs
  <2>10. CallsOk(a, h, g, th.req, st)
    BY <2>7, <2>9 DEF CallsOk
  <2>11. PICK y : y = [th EXCEPT !.stack = st]
    OBVIOUS
  <2>12. ThreadFields(th) /\ ControllerOk(a, h, th)
    BY <1>3 DEF ThreadOk
  <2>13. ThreadFields(y) /\ y.stack = st /\ y.req = th.req /\ y.pc = th.pc /\ y.route = th.route /\ y.ctrl = th.ctrl /\ y.sees = th.sees
    BY <2>11, <2>12 DEF ThreadFields
  <2>14. ThreadOk(a, h, g, y)
    <3>1. y.pc = "idle"
      BY <1>1, <1>2, <2>13
    <3>2. Called(a, y) = Called(a, th)
      BY <2>13 DEF Called
    <3>3. ControllerOk(a, h, y)
      BY <2>12, <2>13, <3>1, <3>2 DEF ControllerOk
    <3> QED BY <2>10, <2>13, <3>3 DEF ThreadOk
  <2>15. PICK new : new = [ths EXCEPT !["main"] = y]
    OBVIOUS
  <2>16. threads' = new
    BY <1>1, <1>2, <1>3, <2>5, <2>8, <2>11, <2>15
  <2>17. DOMAIN new = Threads /\ new["main"] = y /\ \A t \in Threads : t # "main" => new[t] = ths[t]
    BY <1>3, <2>15
  <2>18. \A t \in Threads : ThreadOk(a, h, g, new[t])
    BY <1>3, <2>14, <2>17 DEF Running
  <2>19. PICK m2 : m2 = main'
    OBVIOUS
  <2>20. m2.pc = "ctors" /\ m2.k = i + 1
    BY <1>1, <1>4, <2>5, <2>19
  <2>21. ASSUME NEW d \in ClassesOf(a), OfScope(a, d, "Startup"), Place(a, d) < i + 1 PROVE g[d] # NoInst \/ d = c
    <3>1. CASE Place(a, d) < m.k
      BY <1>5, <2>21, <3>1
    <3>2. CASE Place(a, d) \in left
      <4>1. PICK j \in Nat : j = Place(a, d)
        BY <1>9, <3>2
      <4>2. i <= j /\ j < i + 1 /\ i \in Nat
        BY <2>2, <2>6, <2>21, <3>2, <4>1
      <4>3. j = i
        BY <4>2
      <4>4. a.components[j].class = d
        BY <1>3, <4>1, EntryIs DEF Entry
      <4> QED BY <2>3, <4>3, <4>4
    <3> QED BY <1>10, <2>21, <3>1, <3>2
  <2>22. Constructing(a, g, new, m2)
    <3>1. i + 1 \in Nat
      BY <2>6
    <3>2. \A t \in Workers : new[t] = Idle
      BY <1>6, <2>17, WorkersAssumption DEF Threads
    <3>3. new["main"].stack = st /\ st # <<>> /\ st[Len(st)].class = c
      BY <2>7, <2>9, <2>13, <2>17
    <3> QED BY <2>20, <2>21, <3>1, <3>2, <3>3 DEF Constructing
  <2>23. Constructed(a, g, new, m2) /\ m2.pc \in Past \cup {"ctors", "crashed"}
    BY <2>20 DEF Constructed, Past
  <2>24. Running(a, h, g, new, m2)
    BY <1>3, <2>17, <2>18, <2>22, <2>23 DEF Running
  <2> QED BY <1>1, <1>4, <2>16, <2>19, <2>20, <2>24
<1>12. CASE left = {}
  <2>1. threads' = threads /\ main' = [main EXCEPT !.pc = "spawn", !.k = 1]
    BY <1>7, <1>12 DEF tinox_di_startup
  <2>2. main'.pc = "spawn"
    BY <2>1
  <2>3. \A c \in ClassesOf(a) : OfScope(a, c, "Startup") => g[c] # NoInst
    BY <1>5, <1>10, <1>12
  <2>4. \A t \in Threads : ths[t].stack = <<>>
    BY <1>2, <1>4, <1>6 DEF Threads, Idle
  <2>5. \A t \in Threads : NoneMade(a, ths[t].stack)
    BY <2>4, NoCalls
  <2>6. Constructing(a, g, ths, main') /\ Constructed(a, g, ths, main')
    BY <2>2, <2>3, <2>5 DEF Constructing, Constructed
  <2>7. Running(a, h, g, ths, main')
    BY <1>3, <2>2, <2>6 DEF Running, Past
  <2> QED BY <1>1, <1>4, <2>1, <2>2, <2>7
<1> QED BY <1>11, <1>12

(* The rest of the bootstrap. *)
LEMMA BootOk ==
  ASSUME Running(app, heap, global, threads, main), {"pc", "k", "code"} \subseteq DOMAIN main, threads["main"].pc = "idle",
         emit_tinox_main_bootstrap
  PROVE  Running(app', heap', global', threads', main') /\ main'.pc # "none" /\ global' = global /\ threads'["main"].pc = "idle"
<1>1. CASE tinox_di_startup
  <2>1. Running(app', heap', global', threads', main') /\ main'.pc # "none"
    BY <1>1, ConstructorsOk
  <2>2. "pc" \in DOMAIN threads["main"] /\ "main" \in DOMAIN threads
    BY DEF Running, ThreadOk, ThreadFields, Threads
  <2>3. threads'["main"].pc = "idle" /\ global' = global
    BY <1>1, <2>2 DEF tinox_di_startup
  <2> QED BY <2>1, <2>3
<1>2. CASE SpawnService \/ UserMain \/ Await
  <2>1. app' = app /\ heap' = heap /\ global' = global /\ threads' = threads /\ main.pc \in Past /\ main'.pc \in Past
    BY <1>2 DEF SpawnService, UserMain, Await, Past
  <2>2. Constructing(app, global, threads, main') /\ Constructed(app, global, threads, main')
    BY <2>1 DEF Running, Constructing, Constructed, Past
  <2>3. Running(app, heap, global, threads, main')
    BY <2>1, <2>2 DEF Running
  <2> QED BY <2>1, <2>3 DEF Past
<1> QED BY <1>1, <1>2 DEF emit_tinox_main_bootstrap

(* A worker goes on in its request. *)
LEMMA WorkerMoves ==
  ASSUME NEW a, NEW h, NEW g, NEW ths, NEW m, Running(a, h, g, ths, m), NEW t \in Threads, m.pc # "ctors",
         NEW y, ThreadOk(a, h, g, y), m.pc \in Past => NoneMade(a, y.stack), NEW new, new = [ths EXCEPT ![t] = y]
  PROVE  Running(a, h, g, new, m)
<1>1. HeapOk(a, h) /\ GlobalOk(a, h, g)
  BY DEF Running
<1>2. Grown(h, h) /\ Public(a, g, g)
  BY SameIs
<1> QED BY <1>1, <1>2, ThreadMoves

(* A request goes on without a call: its controller stays as it is. *)
LEMMA GoesBy ==
  ASSUME NEW a, NEW h, NEW g, NEW th, ThreadOk(a, h, g, th), NEW y, ThreadFields(y), y.req = th.req, y.route = th.route, y.ctrl = th.ctrl,
         y.pc \notin {"controller", "inject"}, y.stack = th.stack \/ y.stack = <<>>, \A i \in y.sees : Whole(a, h, i)
  PROVE  ThreadOk(a, h, g, y) /\ (NoneMade(a, th.stack) => NoneMade(a, y.stack))
<1>1. CallsOk(a, h, g, y.req, y.stack) /\ (NoneMade(a, th.stack) => NoneMade(a, y.stack))
  BY NoCalls DEF ThreadOk
<1>2. Called(a, y) = Called(a, th)
  BY DEF Called
<1>3. ControllerOk(a, h, th)
  BY DEF ThreadOk
<1>4. ControllerOk(a, h, y)
  BY <1>2, <1>3 DEF ControllerOk
<1> QED BY <1>1, <1>4 DEF ThreadOk

(* All that can be reached from what is whole is whole. *)
LEMMA ReachWhole ==
  ASSUME HeapOk(app, heap), NEW inst, Whole(app, heap, inst)
  PROVE  \A i \in Reach(inst) : Whole(app, heap, i)
<1>1. PICK a, h : a = app /\ h = heap
  OBVIOUS
<1>2. PICK S : S = {i \in Objects(h) : Whole(a, h, i)}
  OBVIOUS
<1>3. S \in SUBSET Instances /\ inst \in S
  BY <1>1, <1>2, NamesAre DEF Whole
<1>4. ASSUME NEW j \in S PROVE Fields_of(j) \subseteq S
  <2>1. InstanceOk(a, h, j)
    BY <1>1, <1>2 DEF HeapOk
  <2>2. \A x \in DOMAIN Obj(h, j).fields : Whole(a, h, Obj(h, j).fields[x])
    BY <2>1 DEF InstanceOk, Holds
  <2>3. \A x \in DOMAIN Obj(h, j).fields : Obj(h, j).fields[x] \in S
    BY <1>2, <2>2 DEF Whole
  <2>4. Instance(j) = Obj(h, j)
    BY <1>1, NamesAre
  <2> QED BY <2>3, <2>4 DEF Fields_of
<1>5. \A i \in Reach(inst) : i \in S
  BY <1>3, <1>4 DEF Reach
<1> QED BY <1>1, <1>2, <1>5

(* A call is the first of a request: of its controller, or of a field that every
   request gets anew. *)
LEMMA FirstCall ==
  ASSUME NEW a, NEW h, NEW g, NEW req, NEW x, CallOk(a, h, g, req, x), x.pc = "load", NEW st, st = <<x>>
  PROVE  CallsOk(a, h, g, req, st) /\ NoneMade(a, st) /\ st # <<>> /\ st[Len(st)] = x
<1>1. IsSeq(st) /\ Len(st) = 1 /\ st[1] = x /\ st # <<>>
  BY OneIs
<1>2. CallsOk(a, h, g, req, st)
  BY <1>1 DEF CallsOk
<1>3. NoneMade(a, st)
  BY <1>1 DEF NoneMade
<1> QED BY <1>1, <1>2, <1>3

(* A request is guarded, and its controller called for. *)
LEMMA ShimOk ==
  ASSUME Running(app, heap, global, threads, main), NEW t \in Threads, main.pc # "ctors", emit_route_shim_body(t)
  PROVE  Running(app, heap, global, threads', main)
<1>1. PICK a, h, g, ths, m : a = app /\ h = heap /\ g = global /\ ths = threads /\ m = main
  OBVIOUS
<1>2. PICK th : th = ths[t]
  OBVIOUS
<1>3. Running(a, h, g, ths, m) /\ ThreadOk(a, h, g, th) /\ ThreadFields(th) /\ ControllerOk(a, h, th) /\ DOMAIN ths = Threads
  BY <1>1, <1>2 DEF Running, ThreadOk
<1>4. m.pc \in Past => NoneMade(a, th.stack)
  BY <1>2, <1>3 DEF Running, Constructed
<1>5. \A i \in th.sees : Whole(a, h, i)
  BY <1>3 DEF ControllerOk
<1>6. PICK r : r = RouteOf(t)
  OBVIOUS
<1>7. r.class = Called(a, th)
  BY <1>1, <1>2, <1>6 DEF RouteOf, Called
<1>8. ASSUME NEW y, ThreadOk(a, h, g, y), m.pc \in Past => NoneMade(a, y.stack), threads' = [ths EXCEPT ![t] = y]
      PROVE  Running(app, heap, global, threads', main)
  <2>1. PICK new : new = [ths EXCEPT ![t] = y]
    OBVIOUS
  <2>2. m.pc # "ctors"
    BY <1>1
  <2>3. Running(a, h, g, new, m)
    BY <1>3, <1>8, <2>1, <2>2, WorkerMoves
  <2> QED BY <1>1, <1>8, <2>1, <2>3
<1>9. CASE \E s : Answer(t, s)
  <2>1. PICK s : Answer(t, s)
    BY <1>9
  <2>2. PICK y : y = [th EXCEPT !.pc = "answered", !.status = s]
    OBVIOUS
  <2>3. threads' = [ths EXCEPT ![t] = y]
    BY <1>1, <1>2, <2>1, <2>2 DEF Answer
  <2>4. ThreadFields(y) /\ y.req = th.req /\ y.route = th.route /\ y.ctrl = th.ctrl /\ y.pc = "answered" /\ y.stack = th.stack /\ y.sees = th.sees
    BY <1>3, <2>2 DEF ThreadFields
  <2>5. ThreadOk(a, h, g, y) /\ (NoneMade(a, th.stack) => NoneMade(a, y.stack))
    BY <1>3, <1>5, <2>4, GoesBy
  <2> QED BY <1>4, <1>8, <2>3, <2>5
<1>10. CASE r.static \/ ~IsComponent(r.class)
  <2>1. (\E s : Answer(t, s)) \/ threads' = [threads EXCEPT ![t].status = DefaultStatus(r), ![t].pc = "bind", ![t].stack = <<>>]
    BY <1>6, <1>10 DEF emit_route_shim_body
  <2>2. PICK y : y = [th EXCEPT !.status = DefaultStatus(r), !.pc = "bind", !.stack = <<>>]
    OBVIOUS
  <2>3. ThreadFields(y) /\ y.req = th.req /\ y.route = th.route /\ y.ctrl = th.ctrl /\ y.pc = "bind" /\ y.stack = <<>> /\ y.sees = th.sees
    BY <1>3, <2>2 DEF ThreadFields
  <2>4. ThreadOk(a, h, g, y) /\ (NoneMade(a, th.stack) => NoneMade(a, y.stack))
    BY <1>3, <1>5, <2>3, GoesBy
  <2>5. ASSUME threads' = [threads EXCEPT ![t].status = DefaultStatus(r), ![t].pc = "bind", ![t].stack = <<>>]
        PROVE  threads' = [ths EXCEPT ![t] = y]
    BY <1>1, <1>2, <1>3, <2>2, <2>5
  <2> QED BY <1>4, <1>8, <1>9, <2>1, <2>4, <2>5
<1>11. CASE ~(r.static \/ ~IsComponent(r.class))
  <2>1. PICK x : x = Call(r.class)
    OBVIOUS
  <2>2. PICK st : st = <<x>>
    OBVIOUS
  <2>3. (\E s : Answer(t, s)) \/ threads' = [threads EXCEPT ![t].status = DefaultStatus(r), ![t].pc = "controller", ![t].stack = st]
    BY <1>6, <1>11, <2>1, <2>2 DEF emit_route_shim_body
  <2>4. PICK y : y = [th EXCEPT !.status = DefaultStatus(r), !.pc = "controller", !.stack = st]
    OBVIOUS
  <2>5. ThreadFields(y) /\ y.req = th.req /\ y.route = th.route /\ y.ctrl = th.ctrl /\ y.pc = "controller" /\ y.stack = st /\ y.sees = th.sees
    BY <1>3, <2>4 DEF ThreadFields
  <2>6. CallOk(a, h, g, th.req, x) /\ x.pc = "load" /\ x.class = r.class
    <3>1. r.class \in ClassesOf(a)
      BY <1>1, <1>11, NamesAre
    <3> QED BY <1>1, <2>1, <3>1, CallIs
  <2>7. CallsOk(a, h, g, th.req, st) /\ NoneMade(a, st) /\ st # <<>> /\ st[Len(st)] = x
    BY <2>2, <2>6, FirstCall
  <2>8. Called(a, y) = Called(a, th)
    BY <2>5 DEF Called
  <2>9. ControllerOk(a, h, y)
    BY <1>3, <1>7, <2>5, <2>6, <2>7, <2>8 DEF ControllerOk
  <2>10. ThreadOk(a, h, g, y) /\ NoneMade(a, y.stack)
    BY <2>5, <2>7, <2>9 DEF ThreadOk
  <2>11. ASSUME threads' = [threads EXCEPT ![t].status = DefaultStatus(r), ![t].pc = "controller", ![t].stack = st]
        PROVE  threads' = [ths EXCEPT ![t] = y]
    BY <1>1, <1>2, <1>3, <2>4, <2>11
  <2> QED BY <1>8, <1>9, <2>3, <2>10, <2>11
<1> QED BY <1>10, <1>11

(* Fields of a request's scope are made anew in a shared controller. *)
LEMMA ReinjectOk ==
  ASSUME Running(app, heap, global, threads, main), NEW t \in Threads, main.pc # "ctors", Reinject(t)
  PROVE  Running(app, heap, global, threads', main)
<1>1. PICK a, h, g, ths, m : a = app /\ h = heap /\ g = global /\ ths = threads /\ m = main
  OBVIOUS
<1>2. PICK th : th = ths[t]
  OBVIOUS
<1>3. Running(a, h, g, ths, m) /\ ThreadOk(a, h, g, th) /\ ThreadFields(th) /\ ControllerOk(a, h, th) /\ DOMAIN ths = Threads
      /\ HeapOk(a, h) /\ Listed(a) /\ SelfContained(a)
  BY <1>1, <1>2 DEF Running, ThreadOk
<1>4. m.pc \in Past => NoneMade(a, th.stack)
  BY <1>2, <1>3 DEF Running, Constructed
<1>5. \A i \in th.sees : Whole(a, h, i)
  BY <1>3 DEF ControllerOk
<1>6. th.pc = "inject" /\ th.stack = <<>>
  BY <1>1, <1>2 DEF Reinject
<1>7. ASSUME NEW y, ThreadOk(a, h, g, y), m.pc \in Past => NoneMade(a, y.stack), threads' = [ths EXCEPT ![t] = y]
      PROVE  Running(app, heap, global, threads', main)
  <2>1. PICK new : new = [ths EXCEPT ![t] = y]
    OBVIOUS
  <2>2. m.pc # "ctors"
    BY <1>1
  <2>3. Running(a, h, g, new, m)
    BY <1>3, <1>7, <2>1, <2>2, WorkerMoves
  <2> QED BY <1>1, <1>7, <2>1, <2>3
<1>8. CASE th.left = {}
  <2>1. threads' = [threads EXCEPT ![t].pc = "bind", ![t].stack = <<>>]
    BY <1>1, <1>2, <1>8 DEF Reinject
  <2>2. PICK y : y = [th EXCEPT !.pc = "bind", !.stack = <<>>]
    OBVIOUS
  <2>3. ThreadFields(y) /\ y.req = th.req /\ y.route = th.route /\ y.ctrl = th.ctrl /\ y.pc = "bind" /\ y.stack = <<>> /\ y.sees = th.sees
    BY <1>3, <2>2 DEF ThreadFields
  <2>4. ThreadOk(a, h, g, y) /\ (NoneMade(a, th.stack) => NoneMade(a, y.stack))
    BY <1>3, <1>5, <2>3, GoesBy
  <2>5. threads' = [ths EXCEPT ![t] = y]
    BY <1>1, <1>2, <1>3, <2>1, <2>2
  <2> QED BY <1>4, <1>7, <2>4, <2>5
<1>9. CASE th.left # {}
  <2>1. PICK c : c = Slots(a, h, th.ctrl)[Min(th.left)].type
    OBVIOUS
  <2>2. PICK x : x = Call(c)
    OBVIOUS
  <2>3. PICK st : st = <<x>>
    OBVIOUS
  <2>4. c = Wanted(th.ctrl)[Min(th.left)].type
    BY <1>1, <2>1, NamesAre
  <2>5. threads' = [threads EXCEPT ![t].pc = "inject", ![t].stack = st]
    BY <1>1, <1>2, <1>6, <1>9, <2>2, <2>3, <2>4 DEF Reinject
  <2>6. c \in ClassesOf(a)
    <3>1. PICK i : i = th.ctrl
      OBVIOUS
    <3>2. PICK S : S = th.left
      OBVIOUS
    <3>3. i # NoInst /\ Whole(a, h, i) /\ S \subseteq 1..Len(Slots(a, h, i)) /\ S # {}
      BY <1>3, <1>6, <1>9, <3>1, <3>2 DEF ControllerOk
    <3>4. Obj(h, i).class \in ClassesOf(a)
      BY <1>3, <3>3 DEF Whole, HeapOk, InstanceOk
    <3>5. Slots(a, h, i)[Min(S)].type \in ClassesOf(a)
      BY <1>3, <3>3, <3>4, SlotIs
    <3> QED BY <2>1, <3>1, <3>2, <3>5
  <2>7. CallOk(a, h, g, th.req, x) /\ x.pc = "load"
    BY <1>1, <2>2, <2>6, CallIs
  <2>8. CallsOk(a, h, g, th.req, st) /\ NoneMade(a, st) /\ st # <<>>
    BY <2>3, <2>7, FirstCall
  <2>9. PICK y : y = [th EXCEPT !.pc = "inject", !.stack = st]
    OBVIOUS
  <2>10. ThreadFields(y) /\ y.req = th.req /\ y.route = th.route /\ y.ctrl = th.ctrl /\ y.pc = "inject" /\ y.stack = st /\ y.sees = th.sees
        /\ y.left = th.left
    BY <1>3, <2>9 DEF ThreadFields
  <2>11. Called(a, y) = Called(a, th)
    BY <2>10 DEF Called
  <2>12. ControllerOk(a, h, y)
    BY <1>3, <1>6, <1>9, <2>10, <2>11 DEF ControllerOk
  <2>13. ThreadOk(a, h, g, y) /\ NoneMade(a, y.stack)
    BY <2>8, <2>10, <2>12 DEF ThreadOk
  <2>14. threads' = [ths EXCEPT ![t] = y]
    BY <1>1, <1>2, <1>3, <2>5, <2>9
  <2> QED BY <1>7, <2>13, <2>14
<1> QED BY <1>8, <1>9

(* The other steps of a request. *)
LEMMA RequestOk ==
  ASSUME Running(app, heap, global, threads, main), NEW t \in Threads, main.pc # "ctors",
         Arrive(t) \/ emit_route_handler_call(t) \/ Handle(t) \/ emit_route_auto_serialize(t) \/ Next_request(t)
  PROVE  Running(app, heap, global, threads', main)
<1>1. PICK a, h, g, ths, m : a = app /\ h = heap /\ g = global /\ ths = threads /\ m = main
  OBVIOUS
<1>2. PICK th : th = ths[t]
  OBVIOUS
<1>3. Running(a, h, g, ths, m) /\ ThreadOk(a, h, g, th) /\ ThreadFields(th) /\ ControllerOk(a, h, th) /\ DOMAIN ths = Threads
      /\ HeapOk(a, h)
  BY <1>1, <1>2 DEF Running, ThreadOk
<1>4. m.pc \in Past => NoneMade(a, th.stack)
  BY <1>2, <1>3 DEF Running, Constructed
<1>5. \A i \in th.sees : Whole(a, h, i)
  BY <1>3 DEF ControllerOk
<1>6. ASSUME NEW y, ThreadOk(a, h, g, y), m.pc \in Past => NoneMade(a, y.stack), threads' = [ths EXCEPT ![t] = y]
      PROVE  Running(app, heap, global, threads', main)
  <2>1. PICK new : new = [ths EXCEPT ![t] = y]
    OBVIOUS
  <2>2. m.pc # "ctors"
    BY <1>1
  <2>3. Running(a, h, g, new, m)
    BY <1>3, <1>6, <2>1, <2>2, WorkerMoves
  <2> QED BY <1>1, <1>6, <2>1, <2>3
<1>7. ASSUME NEW y, ThreadFields(y), y.stack = <<>>, y.ctrl = NoInst, y.sees = {}, y.left = {}, threads' = [ths EXCEPT ![t] = y]
      PROVE  Running(app, heap, global, threads', main)
  <2>1. ThreadOk(a, h, g, y) /\ NoneMade(a, y.stack)
    BY <1>7, IdleOk
  <2> QED BY <1>6, <1>7, <2>1
<1>8. CASE Arrive(t)
  <2>1. PICK i, q : threads' = [threads EXCEPT ![t] = [Idle EXCEPT !.pc = "guard", !.route = i, !.req = <<made + 1, q>>]]
    BY <1>8 DEF Arrive
  <2>2. PICK y : y = [Idle EXCEPT !.pc = "guard", !.route = i, !.req = <<made + 1, q>>]
    OBVIOUS
  <2>3. ThreadFields(y) /\ y.stack = <<>> /\ y.ctrl = NoInst /\ y.sees = {} /\ y.left = {}
    BY <2>2 DEF ThreadFields, Idle
  <2>4. threads' = [ths EXCEPT ![t] = y]
    BY <1>1, <2>1, <2>2
  <2> QED BY <1>7, <2>3, <2>4
<1>9. CASE \E s : Answer(t, s)
  <2>1. PICK s : Answer(t, s)
    BY <1>9
  <2>2. PICK y : y = [th EXCEPT !.pc = "answered", !.status = s]
    OBVIOUS
  <2>3. threads' = [ths EXCEPT ![t] = y]
    BY <1>1, <1>2, <2>1, <2>2 DEF Answer
  <2>4. ThreadFields(y) /\ y.req = th.req /\ y.route = th.route /\ y.ctrl = th.ctrl /\ y.pc = "answered" /\ y.stack = th.stack /\ y.sees = th.sees
    BY <1>3, <2>2 DEF ThreadFields
  <2>5. ThreadOk(a, h, g, y) /\ (NoneMade(a, th.stack) => NoneMade(a, y.stack))
    BY <1>3, <1>5, <2>4, GoesBy
  <2> QED BY <1>4, <1>6, <2>3, <2>5
<1>10. CASE emit_route_handler_call(t)
  <2>1. (\E s : Answer(t, s)) \/ threads' = [threads EXCEPT ![t].pc = "handler"]
    BY <1>10 DEF emit_route_handler_call
  <2>2. PICK y : y = [th EXCEPT !.pc = "handler"]
    OBVIOUS
  <2>3. ThreadFields(y) /\ y.req = th.req /\ y.route = th.route /\ y.ctrl = th.ctrl /\ y.pc = "handler" /\ y.stack = th.stack /\ y.sees = th.sees
    BY <1>3, <2>2 DEF ThreadFields
  <2>4. ThreadOk(a, h, g, y) /\ (NoneMade(a, th.stack) => NoneMade(a, y.stack))
    BY <1>3, <1>5, <2>3, GoesBy
  <2>5. ASSUME threads' = [threads EXCEPT ![t].pc = "handler"] PROVE threads' = [ths EXCEPT ![t] = y]
    BY <1>1, <1>2, <2>2, <2>5
  <2> QED BY <1>4, <1>6, <1>9, <2>1, <2>4, <2>5
<1>11. CASE Handle(t)
  <2>1. PICK s : s = IF th.ctrl = NoInst THEN {} ELSE Reach(th.ctrl)
    OBVIOUS
  <2>2. threads' = [threads EXCEPT ![t].pc = "handled", ![t].sees = s]
    BY <1>1, <1>2, <1>11, <2>1 DEF Handle
  <2>3. PICK y : y = [th EXCEPT !.pc = "handled", !.sees = s]
    OBVIOUS
  <2>4. ThreadFields(y) /\ y.req = th.req /\ y.route = th.route /\ y.ctrl = th.ctrl /\ y.pc = "handled" /\ y.stack = th.stack /\ y.sees = s
    BY <1>3, <2>3 DEF ThreadFields
  <2>5. \A i \in s : Whole(a, h, i)
    <3>1. CASE th.ctrl = NoInst
      BY <2>1, <3>1
    <3>2. CASE th.ctrl # NoInst
      <4>1. Whole(a, h, th.ctrl)
        BY <1>3, <3>2 DEF ControllerOk
      <4>2. \A i \in Reach(th.ctrl) : Whole(a, h, i)
        BY <1>1, <1>3, <4>1, ReachWhole
      <4> QED BY <2>1, <3>2, <4>2
    <3> QED BY <3>1, <3>2
  <2>6. ThreadOk(a, h, g, y) /\ (NoneMade(a, th.stack) => NoneMade(a, y.stack))
    BY <1>3, <2>4, <2>5, GoesBy
  <2>7. threads' = [ths EXCEPT ![t] = y]
    BY <1>1, <1>2, <1>3, <2>2, <2>3
  <2> QED BY <1>4, <1>6, <2>6, <2>7
<1>12. CASE emit_route_auto_serialize(t)
  BY <1>9, <1>12 DEF emit_route_auto_serialize
<1>13. CASE Next_request(t)
  <2>1. PICK y : y = Idle
    OBVIOUS
  <2>2. ThreadFields(y) /\ y.stack = <<>> /\ y.ctrl = NoInst /\ y.sees = {} /\ y.left = {}
    BY <2>1 DEF ThreadFields, Idle
  <2>3. threads' = [ths EXCEPT ![t] = y]
    BY <1>1, <1>13, <2>1 DEF Next_request
  <2> QED BY <1>7, <2>2, <2>3
<1> QED BY <1>8, <1>10, <1>11, <1>12, <1>13

(* The steps of requests: there are none before the constructors have run. *)
LEMMA RouteOk ==
  ASSUME Running(app, heap, global, threads, main), ServInv, NEW t \in Workers, RouteStep(t)
  PROVE  Running(app', heap', global', threads', main') /\ main' = main /\ global' = global /\ Alive /\ threads'["main"] = threads["main"]
<1>1. app' = app /\ heap' = heap /\ global' = global /\ main' = main /\ Alive
  BY DEF RouteStep, Arrive, emit_route_shim_body, Reinject, emit_route_handler_call, Handle, emit_route_auto_serialize, Next_request
<1>2. main.pc # "ctors"
  <2>1. CASE Arrive(t)
    <3>1. Serving
      BY <2>1 DEF Arrive
    <3>2. PICK k \in 1..Len(services) : services[k].pc = "loop"
      BY <3>1 DEF Serving
    <3> QED BY <3>2 DEF ServInv, Bootstrap, Unspawned
  <2>2. CASE ~Arrive(t)
    <3>1. threads[t].pc # "idle"
      BY <2>2 DEF RouteStep, emit_route_shim_body, Reinject, emit_route_handler_call, Handle, emit_route_auto_serialize, Next_request
    <3> QED BY <3>1, WorkersWait
  <2> QED BY <2>1, <2>2
<1>3. t \in Threads /\ t # "main"
  BY WorkersAssumption DEF Threads
<1>4. Running(app, heap, global, threads', main)
  BY <1>2, <1>3, ShimOk, ReinjectOk, RequestOk DEF RouteStep
<1>5. \E y : threads' = [threads EXCEPT ![t] = y]
  <2>1. CASE Arrive(t)
    BY <2>1 DEF Arrive
  <2>2. CASE emit_route_shim_body(t)
    BY <2>2 DEF emit_route_shim_body, Answer
  <2>3. CASE Reinject(t)
    BY <2>3 DEF Reinject
  <2>4. CASE emit_route_handler_call(t) \/ Handle(t) \/ emit_route_auto_serialize(t) \/ Next_request(t)
    BY <2>4 DEF emit_route_handler_call, Handle, emit_route_auto_serialize, Next_request, Answer
  <2> QED BY <2>1, <2>2, <2>3, <2>4 DEF RouteStep
<1>6. threads'["main"] = threads["main"]
  BY <1>3, <1>5
<1> QED BY <1>1, <1>4, <1>6

(* A program starts with an empty heap, nothing published and no request. *)
LEMMA ProgramBegins ==
  ASSUME NEW program, Listed(program), SelfContained(program), StartProgram(program),
         heap = [t \in Threads |-> <<>>], threads = [t \in Threads |-> Idle]
  PROVE  Running(app', heap', global', threads', main') /\ main'.pc # "none"
<1>1. PICK h, ths : h = heap /\ ths = threads
  OBVIOUS
<1>2. PICK g, m : g = global' /\ m = main'
  OBVIOUS
<1>3. app' = program /\ heap' = h /\ threads' = ths /\ m = [pc |-> "ctors", k |-> 1, code |-> 0]
  BY <1>1, <1>2 DEF StartProgram
<1>4. g = [c \in ClassesOf(program) |-> NoInst]
  BY <1>2 DEF StartProgram, ClassesOf
<1>5. DOMAIN h = Threads /\ \A t \in Threads : h[t] = <<>>
  BY <1>1
<1>6. \A t \in Threads : IsSeq(h[t]) /\ Len(h[t]) = 0
  BY <1>5, NoneIs
<1>7. \A i : i \notin Objects(h)
  <2>1. \A t \in Threads : 1..Len(h[t]) = {}
    BY <1>6
  <2> QED BY <1>5, <2>1, ObjectsAre
<1>8. HeapOk(program, h)
  BY <1>5, <1>6, <1>7 DEF HeapOk
<1>9. GlobalOk(program, h, g)
  BY <1>4 DEF GlobalOk
<1>10. DOMAIN ths = Threads /\ \A t \in Threads : ths[t] = Idle
  BY <1>1
<1>11. PICK y : y = Idle
  OBVIOUS
<1>12. ThreadFields(y) /\ y.stack = <<>> /\ y.ctrl = NoInst /\ y.sees = {} /\ y.left = {}
  BY <1>11 DEF ThreadFields, Idle
<1>13. ThreadOk(program, h, g, y)
  BY <1>12, IdleOk
<1>14. m.pc = "ctors" /\ m.k = 1
  BY <1>3
<1>15. Constructing(program, g, ths, m)
  <2>1. \A c \in ClassesOf(program) : ~(Place(program, c) < 1)
    <3>1. \A c \in ClassesOf(program) : Place(program, c) \in 1..Len(program.components)
      BY EntryIs
    <3>2. Len(program.components) \in Nat
      BY DEF Listed, IsSeq
    <3> QED BY <3>1, <3>2
  <2>2. \A t \in Workers : ths[t] = Idle
    BY <1>10 DEF Threads
  <2> QED BY <1>14, <2>1, <2>2 DEF Constructing
<1>16. Constructed(program, g, ths, m) /\ m.pc \in Past \cup {"ctors", "crashed"}
  BY <1>14 DEF Constructed, Past
<1>17. Running(program, h, g, ths, m)
  BY <1>8, <1>9, <1>10, <1>11, <1>13, <1>15, <1>16 DEF Running
<1> QED BY <1>2, <1>3, <1>14, <1>17

(* The steps of the program, and what is published at each of them. *)
LEMMA ServerOk ==
  ASSUME Running(app, heap, global, threads, main), threads["main"].pc = "idle", ServInv, ServerStep
  PROVE  /\ Running(app', heap', global', threads', main') /\ main'.pc # "none" /\ threads'["main"].pc = "idle"
         /\ main.pc # "ctors" => \A c \in DOMAIN global : OfScope(app, c, "Startup") => global'[c] = global[c]
<1>1. {"pc", "k", "code"} \subseteq DOMAIN main
  BY DEF ServInv, Bootstrap
<1>2. DOMAIN threads = Threads /\ main.pc # "none" /\ "main" \in Threads
  BY DEF Running, Past, Threads
<1>3. ASSUME NEW t \in Threads, emit_di_code(t)
      PROVE  /\ Running(app', heap', global', threads', main') /\ main'.pc # "none" /\ threads'["main"].pc = "idle"
             /\ main.pc # "ctors" => \A c \in DOMAIN global : OfScope(app, c, "Startup") => global'[c] = global[c]
  <2>1. /\ Running(app', heap', global', threads', main') /\ main'.pc # "none"
        /\ main.pc # "ctors" => \A c \in DOMAIN global : OfScope(app, c, "Startup") => global'[c] = global[c]
    BY <1>1, <1>3, InjectionOk
  <2>2. {"pc", "stack", "ctrl", "left"} \subseteq DOMAIN threads["main"]
    BY <1>2 DEF Running, ThreadOk, ThreadFields
  <2>3. threads'["main"].pc = "idle"
    <3>1. CASE Overflow(t)
      BY <3>1 DEF Overflow
    <3>2. CASE Enter(t) \/ CallField(t) \/ Publish(t)
      <4>1. \E st : threads' = [threads EXCEPT ![t].stack = st]
        BY <3>2 DEF Enter, CallField, Publish, SetFrame
      <4> QED BY <1>2, <2>2, <4>1
    <3>3. CASE Return(t)
      <4>1. CASE Tail(threads[t].stack) # <<>>
        <5>1. \E st : threads' = [threads EXCEPT ![t].stack = st]
          BY <3>3, <4>1 DEF Return
        <5> QED BY <1>2, <2>2, <5>1
      <4>2. CASE Tail(threads[t].stack) = <<>> /\ threads[t].pc = "controller"
        <5>1. PICK v : v = IF TopOf(t).get THEN global[TopOf(t).class] ELSE TopOf(t).inst
          OBVIOUS
        <5>2. PICK left : left = IF TopOf(t).get THEN Renewed(v) ELSE {}
          OBVIOUS
        <5>3. threads' = [threads EXCEPT ![t].stack = <<>>, ![t].ctrl = v, ![t].pc = "inject", ![t].left = left]
          BY <3>3, <4>2, <5>1, <5>2 DEF Return
        <5>4. t # "main"
          BY <4>2
        <5> QED BY <1>2, <5>3, <5>4
      <4>3. CASE Tail(threads[t].stack) = <<>> /\ threads[t].pc = "inject"
        <5>1. threads' = [threads EXCEPT ![t].stack = <<>>, ![t].left = @ \ {Min(@)}]
          BY <3>3, <4>3 DEF Return
        <5>2. t # "main"
          BY <4>3
        <5> QED BY <1>2, <5>1, <5>2
      <4>4. CASE Tail(threads[t].stack) = <<>> /\ threads[t].pc # "controller" /\ threads[t].pc # "inject"
        <5>1. threads' = [threads EXCEPT ![t].stack = <<>>]
          BY <3>3, <4>4 DEF Return
        <5> QED BY <1>2, <2>2, <5>1
      <4> QED BY <4>1, <4>2, <4>3, <4>4
    <3> QED BY <1>3, <3>1, <3>2, <3>3 DEF emit_di_code
  <2> QED BY <2>1, <2>3
<1>4. CASE emit_tinox_main_bootstrap
  BY <1>1, <1>4, BootOk
<1>5. ASSUME NEW t \in Workers, RouteStep(t)
      PROVE  Running(app', heap', global', threads', main') /\ main'.pc # "none" /\ threads'["main"].pc = "idle" /\ global' = global
  BY <1>2, <1>5, RouteOk
<1>6. ASSUME NEW k \in 1..Len(services), ServiceStep(k)
      PROVE  Running(app', heap', global', threads', main') /\ main'.pc # "none" /\ threads'["main"].pc = "idle" /\ global' = global
  <2>1. UNCHANGED <<app, heap, global, threads, main>>
    BY <1>6 DEF ServiceStep, ServiceSetup, emit_ws_code, WsAccept, WsRead, WsMessage, WsClose, AmqpReceive, AmqpHandle, AmqpAck, Serve
  <2> QED BY <1>2, <2>1
<1> QED BY <1>2, <1>3, <1>4, <1>5, <1>6 DEF ServerStep

(* Other steps leave the program alone, and run goes on to its end only. *)
LEMMA DriverOk ==
  ASSUME DevInv, CompInv, UNCHANGED server_vars, [Next]_vars
  PROVE  CompInv'
<1>1. app' = app /\ heap' = heap /\ global' = global /\ threads' = threads /\ main' = main
  BY DEF server_vars
<1>2. CASE main.pc = "none"
  BY <1>1, <1>2 DEF CompInv
<1>3. CASE main.pc # "none"
  <2>1. cmd.name = "run" /\ cmd.pc \in {"running", "done"} /\ Running(app, heap, global, threads, main) /\ threads["main"].pc = "idle"
    BY <1>3 DEF CompInv
  <2>2. Shape
    BY DEF DevInv
  <2>3. ~Begin /\ ~Start /\ ~Compile /\ ~TestStep
    BY <2>1 DEF Begin, Invoke, Start, compile_end, Compile, TestStep, NextTestFile, collect_tests_end, NextTest, TestEnds, At
  <2>4. Finish => cmd'.name = "run" /\ cmd'.pc = "done"
    BY <2>1, <2>2 DEF Finish, run_file_end, Goto, Shape
  <2>5. /\ ~MainThread /\ ~HandlerThread /\ ~ProgramEnds /\ ~(\E terminal \in BOOLEAN : Interrupt(terminal))
        /\ ~(\E p \in DOMAIN disk \cap DOMAIN Versions : Save(p))
    BY <2>1 DEF MainThread, HandlerThread, cleanup, ProgramEnds, Interrupt, Save
  <2>6. RunCommand \/ UNCHANGED driver_vars \/ UNCHANGED vars => cmd' = cmd
    BY DEF RunCommand, driver_vars, vars
  <2>7. cmd'.name = "run" /\ cmd'.pc \in {"running", "done"}
    BY <2>1, <2>3, <2>4, <2>5, <2>6 DEF Next
  <2> QED BY <1>1, <1>3, <2>1, <2>7 DEF CompInv
<1> QED BY <1>2, <1>3

(* The inductive invariant of the components. *)
LEMMA CompInvariant == Spec => []CompInv
<1>1. Init => CompInv
  <2> SUFFICES ASSUME Init PROVE CompInv
    OBVIOUS
  <2>1. /\ global = <<>> /\ heap = [t \in Threads |-> <<>>] /\ threads = [t \in Threads |-> Idle]
        /\ main = [pc |-> "none", k |-> 0, code |-> 0]
    BY DEF Init, ServerInit, Threads
  <2>2. main.pc = "none" /\ threads["main"] = Idle
    BY <2>1 DEF Threads
  <2> QED BY <2>1, <2>2 DEF CompInv, Idle
<1>2. CompInv /\ ServInv /\ BuildInv /\ DevInv /\ [Next]_vars => CompInv'
  <2> SUFFICES ASSUME CompInv, ServInv, BuildInv, DevInv, [Next]_vars PROVE CompInv'
    OBVIOUS
  <2>1. CASE UNCHANGED server_vars
    BY <2>1, DriverOk
  <2>2. CASE Start /\ Runs /\ StartProgram(job.app)
    <3>1. compile_end /\ Runs
      BY <2>2 DEF Start
    <3>2. Listed(job.app) /\ SelfContained(job.app)
      BY <3>1, RunListed
    <3>3. cmd.pc = "compile" /\ cmd'.name = "run" /\ cmd'.pc = "running"
      BY <3>1 DEF compile_end, Runs, Goto, DevInv, Shape
    <3>4. heap = [t \in Threads |-> <<>>] /\ threads = [t \in Threads |-> Idle] /\ threads["main"].pc = "idle"
      BY <3>3 DEF CompInv
    <3>5. Running(app', heap', global', threads', main') /\ main'.pc # "none"
      BY <2>2, <3>2, <3>4, ProgramBegins
    <3>6. threads' = threads
      BY <2>2 DEF StartProgram
    <3> QED BY <3>3, <3>4, <3>5, <3>6 DEF CompInv
  <2>3. CASE ServerStep /\ UNCHANGED <<driver_vars, cli>>
    <3>1. CASE main.pc # "none"
      <4>1. cmd.name = "run" /\ cmd.pc \in {"running", "done"} /\ Running(app, heap, global, threads, main) /\ threads["main"].pc = "idle"
        BY <3>1 DEF CompInv
      <4>2. Running(app', heap', global', threads', main') /\ main'.pc # "none" /\ threads'["main"].pc = "idle"
        BY <2>3, <4>1, ServerOk
      <4>3. cmd' = cmd
        BY <2>3 DEF driver_vars
      <4> QED BY <4>1, <4>2, <4>3 DEF CompInv
    <3>2. CASE main.pc = "none"
      <4>1. ~Alive
        BY <3>2 DEF Alive
      <4>2. ~ServerStep
        BY <4>1 DEF ServerStep, emit_di_code, RouteStep, Arrive, emit_route_shim_body, Reinject, emit_route_handler_call, Handle,
              emit_route_auto_serialize, Next_request, ServiceStep, ServiceSetup, emit_ws_code, WsAccept, WsRead, WsMessage, WsClose,
              AmqpReceive, AmqpHandle, AmqpAck
      <4> QED BY <2>3, <4>2
    <3> QED BY <3>1, <3>2
  <2>4. CASE Begin \/ RunCommand \/ Finish \/ MainThread \/ HandlerThread \/ UNCHANGED <<server_vars, cli>> \/ UNCHANGED vars
    <3>1. UNCHANGED server_vars
      BY <2>4 DEF Begin, RunCommand, Finish, MainThread, HandlerThread, vars
    <3> QED BY <2>1, <3>1
  <2>5. CASE Start
    BY <2>1, <2>2, <2>5 DEF Start
  <2> QED BY <2>3, <2>4, <2>5 DEF Next
<1> QED BY <1>1, <1>2, ServInvariant, BuildInvariant, DevInvariant, PTL DEF Spec

(* A handler sees what is whole, and of its own request where all is of the scope
   of a request. *)
LEMMA SeesRight ==
  ASSUME CompInv
  PROVE  SeesComplete /\ RequestsApart
<1>1. CASE main.pc = "none"
  <2>1. \A t \in Workers : threads[t].pc = "idle" /\ threads[t].sees = {}
    BY <1>1 DEF CompInv, Threads, Idle
  <2> QED BY <2>1 DEF SeesComplete, RequestsApart
<1>2. CASE main.pc # "none"
  <2>1. PICK a, h, ths : a = app /\ h = heap /\ ths = threads
    OBVIOUS
  <2>2. HeapOk(a, h) /\ \A t \in Workers : ControllerOk(a, h, ths[t])
    BY <1>2, <2>1 DEF CompInv, Running, ThreadOk, Threads
  <2>3. SeesComplete
    <3>1. \A t \in Workers : \A i \in ths[t].sees : Open(a, h, i) = {}
      BY <2>2 DEF ControllerOk, Whole
    <3> QED BY <2>1, <3>1, NamesAre DEF SeesComplete
  <2>4. ASSUME NEW t \in Workers, threads[t].ctrl # NoInst, Of(RouteOf(t).class).scope = "HttpRequest"
        PROVE  \A i \in OwnReach(threads[t].ctrl) : Instance(i).for = threads[t].req
    <3>1. PICK th : th = ths[t]
      OBVIOUS
    <3>2. PICK c : c = th.ctrl
      OBVIOUS
    <3>3. RouteOf(t).class = Called(a, th)
      BY <2>1, <3>1 DEF RouteOf, Called
    <3>4. OfScope(a, Called(a, th), "HttpRequest")
      BY <2>1, <2>4, <3>3, NamesAre DEF OfScope
    <3>5. Whole(a, h, c) /\ OfScope(a, Obj(h, c).class, "HttpRequest") /\ Obj(h, c).for = th.req
      BY <2>1, <2>2, <2>4, <3>1, <3>2, <3>4 DEF ControllerOk
    <3>6. PICK S : S = {i \in Objects(h) : OfScope(a, Obj(h, i).class, "HttpRequest") /\ Obj(h, i).for = th.req}
      OBVIOUS
    <3>7. c \in S /\ S \in SUBSET Instances
      BY <2>1, <3>5, <3>6, NamesAre DEF Whole
    <3>8. ASSUME NEW j \in S PROVE OwnFields(j) \subseteq S
      <4>1. InstanceOk(a, h, j) /\ OfScope(a, Obj(h, j).class, "HttpRequest") /\ Obj(h, j).for = th.req
        BY <2>2, <3>6 DEF HeapOk
      <4>2. ASSUME NEW v \in OwnFields(j) PROVE v \in S
        <5>1. v \in Fields_of(j) /\ Of(Instance(v).class).scope = "HttpRequest"
          BY DEF OwnFields
        <5>2. OfScope(a, Obj(h, v).class, "HttpRequest")
          BY <2>1, <5>1, NamesAre DEF OfScope
        <5>3. Instance(j) = Obj(h, j)
          BY <2>1, NamesAre
        <5>4. PICK x \in DOMAIN Obj(h, j).fields : v = Obj(h, j).fields[x]
          BY <5>1, <5>3 DEF Fields_of
        <5>5. Holds(a, h, j, v)
          BY <4>1, <5>4 DEF InstanceOk
        <5> QED BY <3>6, <4>1, <5>2, <5>5 DEF Holds, Whole
      <4> QED BY <4>2
    <3>9. \A i \in OwnReach(c) : i \in S
      BY <3>7, <3>8 DEF OwnReach
    <3>10. \A i \in S : Instance(i).for = th.req
      BY <2>1, <3>6, NamesAre
    <3> QED BY <2>1, <3>1, <3>2, <3>9, <3>10
  <2> QED BY <2>3, <2>4 DEF RequestsApart
<1> QED BY <1>1, <1>2

(* What injection gives a handler, for every program, any number of workers and
   requests, and however the threads that make components are interleaved: what a handler can
   reach is complete, what is of a request's scope below a controller of that
   scope was made for its own request, and a startup component is never made
   again once the constructors have run. *)
THEOREM InjectionRight == Spec => ComponentsRight
<1>1. CompInv => SeesComplete /\ RequestsApart
  BY SeesRight
<1>2. CompInv /\ ServInv /\ [Next]_vars =>
        [\A c \in DOMAIN global : Of(c).scope = "Startup" /\ global[c] # NoInst /\ main.pc # "ctors" => global'[c] = global[c]]_server_vars
  <2> SUFFICES ASSUME CompInv, ServInv, [Next]_vars, ~(UNCHANGED server_vars), main.pc # "ctors",
                      NEW c \in DOMAIN global, Of(c).scope = "Startup"
               PROVE  global'[c] = global[c]
    OBVIOUS
  <2>1. CASE main.pc = "none"
    <3>1. global = <<>>
      BY <2>1 DEF CompInv
    <3>2. DOMAIN <<>> = {}
      OBVIOUS
    <3> QED BY <3>1, <3>2
  <2>2. CASE main.pc # "none"
    <3>1. cmd.pc \in {"running", "done"} /\ Running(app, heap, global, threads, main) /\ threads["main"].pc = "idle"
      BY <2>2 DEF CompInv
    <3>2. ~Start
      BY <3>1 DEF Start, compile_end
    <3>3. ServerStep
      BY <3>2 DEF Next, Begin, RunCommand, Finish, MainThread, HandlerThread, vars
    <3>4. OfScope(app, c, "Startup")
      BY NamesAre DEF OfScope
    <3> QED BY <3>1, <3>3, <3>4, ServerOk
  <2> QED BY <2>1, <2>2
<1> QED BY <1>1, <1>2, CompInvariant, ServInvariant, PTL DEF Spec, ComponentsRight, StartupStays
=============================================================================
