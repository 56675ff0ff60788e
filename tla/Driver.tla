------------------------------- MODULE Driver -------------------------------
(***************************************************************************)
(* The commands of the driver that build a program (tinox/src/main.rs):      *)
(* build, run, check, test and dev.  dev has a second thread, the handler of *)
(* Ctrl-C, and a third one that reports changes of files to a channel.       *)
(***************************************************************************)
EXTENDS Build

CONSTANTS Versions,    \* path -> the contents an editor may save there
          MaxEdits,    \* how often it does
          DevUi        \* [dev] enabled
ASSUME VersionsAssumption == \A p \in DOMAIN Versions : Versions[p] \subseteq DOMAIN Content

VARIABLES cmd,         \* [name, entry, pc] and the tests left and counted
          progs,       \* programs that are running, as what they were built from
          dev          \* what the threads of dev share
driver_vars == <<build_vars, cmd, progs, dev>>

Command(name, entry, pc) == [name |-> name, entry |-> entry, pc |-> pc, left |-> <<>>, tests |-> <<>>, passed |-> <<>>, failed |-> <<>>]
NoDev == [stored |-> FALSE, container |-> FALSE, handler |-> "none", watching |-> FALSE, queue |-> 0, edits |-> 0,
          unseen |-> FALSE, busy |-> FALSE]
At(name, pc) == cmd.name = name /\ cmd.pc = pc
Goto(pc) == cmd' = [cmd EXCEPT !.pc = pc]
Down == At("dev", "exited")

DriverInit == cmd = Command("", <<>>, "start") /\ progs = <<>> /\ dev = NoDev /\ job = NoJob /\ files = {}

Invoke(name, entry) ==
    /\ cmd.pc = "start"
    /\ \/ name \in {"build", "run", "check"} /\ cmd' = Command(name, entry, "compile") /\ StartJob(name, entry, <<>>)
       \/ name = "dev" /\ cmd' = Command(name, entry, "kill") /\ UNCHANGED job
       \/ name = "test" /\ cmd' = [Command(name, entry, "file") EXCEPT !.left = <<entry>>] /\ UNCHANGED job
    /\ UNCHANGED <<project, disk, files, progs, dev>>

(* The build of a command goes on. *)
Compile == cmd.pc \in {"compile", "collect"} /\ BuildStep /\ UNCHANGED <<cmd, progs, dev>>

(* build, check and run end with their build; run goes on with the program. *)
Runs == cmd.name = "run" /\ job.at = "ok"
compile_end ==
    /\ cmd.name \in {"build", "run", "check"} /\ cmd.pc = "compile" /\ JobDone
    /\ Goto(IF Runs THEN "running" ELSE "done")
    /\ progs' = IF Runs THEN <<job.read>> ELSE progs
    /\ UNCHANGED <<build_vars, dev>>
(* run_file: the program ended; what was built for it is removed. *)
run_file_end ==
    /\ At("run", "running")
    /\ Goto("done") /\ progs' = <<>> /\ files' = files \ {"exe", "ll"}
    /\ UNCHANGED <<project, disk, job, dev>>
-----------------------------------------------------------------------------
(* run_tests_once: the tests of each file, each a program of its own. *)
NextTestFile ==
    /\ At("test", "file")
    /\ IF cmd.left = <<>> THEN Goto("done") /\ UNCHANGED job
       ELSE /\ cmd' = [cmd EXCEPT !.left = Tail(@), !.pc = "collect"]
            /\ StartJob("collect", Head(cmd.left), <<>>)
    /\ UNCHANGED <<project, disk, files, progs, dev>>
(* A file that cannot be read is passed over. *)
collect_tests_end ==
    /\ At("test", "collect") /\ JobDone
    /\ cmd' = [cmd EXCEPT !.pc = "test", !.tests = IF job.at = "ok" THEN job.app.tests ELSE <<>>]
    /\ UNCHANGED <<build_vars, progs, dev>>
TestOf(t) == <<t.class, t.method>>
NextTest ==
    /\ At("test", "test")
    /\ IF cmd.tests = <<>> THEN Goto("file") /\ UNCHANGED job
       ELSE Goto("compile") /\ StartJob("test", cmd.entry, TestOf(Head(cmd.tests)))
    /\ UNCHANGED <<project, disk, files, progs, dev>>
(* Its program is run and removed; the exit code decides. *)
TestEnds ==
    /\ At("test", "compile") /\ JobDone
    /\ \E good \in BOOLEAN :
          /\ good => job.at = "ok"
          /\ cmd' = [cmd EXCEPT !.pc = "test", !.tests = Tail(@),
                                !.passed = IF good THEN Append(@, <<job.test, job.app.entry>>) ELSE @,
                                !.failed = IF good THEN @ ELSE Append(@, job.test)]
    /\ files' = IF job.at = "ok" THEN files \ {"exe", "ll"} ELSE files
    /\ UNCHANGED <<project, disk, job, progs, dev>>
TestStep == NextTestFile \/ collect_tests_end \/ NextTest \/ TestEnds
-----------------------------------------------------------------------------
(* compile_and_run of dev_mode, the main thread. *)
(* mutant: the old program is left running *)
Killed_not == progs
Killed == IF dev.stored THEN <<>> ELSE progs
KillOld ==
    /\ At("dev", "kill")
    /\ progs' = Killed /\ dev' = [dev EXCEPT !.stored = FALSE]
    /\ Goto("compile") /\ StartJob("dev", cmd.entry, <<>>)
    /\ UNCHANGED <<project, disk, files>>
AfterRun == IF dev.watching THEN "recv" ELSE "container"
(* mutant: the channel is emptied when the build is over *)
Built_drains ==
    /\ At("dev", "compile") /\ JobDone
    /\ Goto(IF job.why = "panic" THEN "exited" ELSE IF job.at = "ok" THEN "spawn" ELSE AfterRun)
    /\ dev' = [dev EXCEPT !.queue = 0]
    /\ UNCHANGED <<build_vars, progs>>
(* A panic of the code generator ends the process as it is. *)
Built ==
    /\ At("dev", "compile") /\ JobDone
    /\ Goto(IF job.why = "panic" THEN "exited" ELSE IF job.at = "ok" THEN "spawn" ELSE AfterRun)
    /\ UNCHANGED <<build_vars, progs, dev>>
(* The program is started, unless its file is gone, and then remembered. *)
Spawn ==
    /\ At("dev", "spawn")
    /\ IF "exe" \in files THEN progs' = Append(progs, job.read) /\ Goto("store")
       ELSE Goto(AfterRun) /\ UNCHANGED progs
    /\ UNCHANGED <<build_vars, dev>>
Store == At("dev", "store") /\ dev' = [dev EXCEPT !.stored = TRUE] /\ Goto(AfterRun) /\ UNCHANGED <<build_vars, progs>>
compile_and_run == KillOld \/ Built \/ Spawn \/ Store

(* Once: the dashboard (which may not start), the handler, the watcher. *)
launch_devui_container ==
    /\ At("dev", "container") /\ Goto("handler")
    /\ \E up \in {FALSE, DevUi} : dev' = [dev EXCEPT !.container = up]
    /\ UNCHANGED <<build_vars, progs>>
set_handler == At("dev", "handler") /\ Goto("watch") /\ dev' = [dev EXCEPT !.handler = "ready"] /\ UNCHANGED <<build_vars, progs>>
Watch == At("dev", "watch") /\ Goto("recv") /\ dev' = [dev EXCEPT !.watching = TRUE] /\ UNCHANGED <<build_vars, progs>>
(* A change is reported; those of the next moment are taken together. *)
Receive ==
    /\ At("dev", "recv") /\ dev.queue > 0
    /\ dev' = [dev EXCEPT !.queue = @ - 1, !.busy = dev.handler # "ready"]
    /\ Goto("drain") /\ UNCHANGED <<build_vars, progs>>
Drain == At("dev", "drain") /\ dev' = [dev EXCEPT !.queue = 0] /\ Goto("kill") /\ UNCHANGED <<build_vars, progs>>
dev_mode == compile_and_run \/ launch_devui_container \/ set_handler \/ Watch \/ Receive \/ Drain

(* Ctrl-C: the process dies of it until the handler is there; the program gets
   it too when it comes from the terminal. *)
Interrupt(terminal) ==
    /\ cmd.name = "dev" /\ ~Down /\ dev.handler \in {"none", "ready"}
    /\ progs' = IF terminal THEN <<>> ELSE progs
    /\ IF dev.handler = "none" THEN Goto("exited") /\ UNCHANGED dev
       ELSE dev' = [dev EXCEPT !.handler = "child", !.busy = cmd.pc # "recv"] /\ UNCHANGED cmd
    /\ UNCHANGED build_vars
(* mutant: the dashboard is forgotten *)
cleanup_devui_not == dev.container
cleanup_devui == FALSE
(* The handler, step by step, while the main thread goes on. *)
cleanup ==
    /\ cmd.name = "dev" /\ ~Down
    /\ \/ /\ dev.handler = "child" /\ progs' = Killed
          /\ dev' = [dev EXCEPT !.handler = "files"] /\ UNCHANGED <<build_vars, cmd>>
       \/ /\ dev.handler = "files" /\ files' = files \ {"exe", "ll"}
          /\ dev' = [dev EXCEPT !.handler = "container"] /\ UNCHANGED <<project, disk, job, cmd, progs>>
       \/ /\ dev.handler = "container"
          /\ dev' = [dev EXCEPT !.handler = "exit", !.container = cleanup_devui] /\ UNCHANGED <<build_vars, cmd, progs>>
       \/ /\ dev.handler = "exit" /\ Goto("exited") /\ UNCHANGED <<build_vars, progs, dev>>

(* A program of dev mode ends by itself. *)
ProgramEnds == cmd.name = "dev" /\ progs # <<>> /\ progs' = Tail(progs) /\ UNCHANGED <<build_vars, cmd, dev>>

(* A file is saved; the watcher tells of files below that of the entry. *)
Save(p) ==
    /\ cmd.name = "dev" /\ ~Down /\ dev.edits < MaxEdits
    /\ \E v \in Versions[p] \ {disk[p]} : disk' = [disk EXCEPT ![p] = v]
    /\ LET seen == dev.watching /\ Len(p) > Len(Dir(cmd.entry)) /\ SubSeq(p, 1, Len(Dir(cmd.entry))) = Dir(cmd.entry)
       IN  dev' = [dev EXCEPT !.edits = @ + 1, !.queue = IF seen THEN @ + 1 ELSE @, !.unseen = @ \/ ~seen]
    /\ UNCHANGED <<project, job, files, cmd, progs>>
-----------------------------------------------------------------------------
(* No command runs two of its programs at a time: dev mode has seen the end of
   the old one, which holds its port, before it starts the next, also when
   Ctrl-C meets a rebuild. *)
OneProgram == Len(progs) <= 1

(* dev mode catches up: when the saving stops, the last build has read every file
   as it is on the disk, unless the process ended or a change was made where or
   when nobody watched. *)
UpToDate == At("dev", "recv") /\ dev.queue = 0 /\ \A p \in DOMAIN job.read : job.read[p] = disk[p]
CatchesUp == cmd.name = "dev" ~> [](Down \/ dev.unseen \/ UpToDate)

(* Ctrl-C in dev mode leaves nothing behind: no program, no dashboard, neither
   the program's file nor its code, provided that no rebuild was under way. *)
QuitClean ==
    Down /\ dev.handler = "exit" /\ ~dev.busy => progs = <<>> /\ ~dev.container /\ files \cap {"exe", "ll"} = {}

(* A test that passed was run: the program built for it began with the test, not
   with the services of the application (a program with a @Command begins with
   that: emit_cli_code does not ask for the test). *)
TestsAreRun == \A i \in 1..Len(cmd.passed) : cmd.passed[i][2] \in {"test", "command"}

(* The programs dev mode starts: never two at a time, and none left, nor its
   files or the dashboard, when Ctrl-C has ended it. *)
DevCleansUp == OneProgram /\ QuitClean
=============================================================================
