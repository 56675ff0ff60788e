---------------------------- MODULE Application ----------------------------
(***************************************************************************)
(* From source files to a program that runs: a command of the driver         *)
(* (Driver) builds the files of a project (Build), and run starts what was   *)
(* built (Server, or Cli for a @Command).                                    *)
(***************************************************************************)
EXTENDS Driver, Server, Cli

CONSTANTS Projects,    \* [project, disk]
          CommandLines \* what a @Command may be called with
(* A project has finitely many files. *)
ASSUME ProjectsAssumption ==
    \A p \in Projects : IsFiniteSet(DOMAIN p.disk) /\ \A q \in DOMAIN p.disk : p.disk[q] \in DOMAIN Content

VARIABLE cli           \* how a @Command ran
vars == <<driver_vars, server_vars, cli>>

Init ==
    /\ \E p \in Projects : project = p.project /\ disk = p.disk
    /\ DriverInit /\ ServerInit /\ cli = <<>>

Begin == \E c \in project.commands : Invoke(c, project.entry) /\ UNCHANGED <<server_vars, cli>>
(* run starts the program; its entry point is the bootstrap or the command. *)
Start ==
    /\ compile_end
    /\ IF Runs /\ job.app.entry = "bootstrap" THEN StartProgram(job.app) ELSE UNCHANGED server_vars
    /\ UNCHANGED cli
RunCommand ==
    /\ At("run", "running") /\ job.app.entry = "command" /\ cli = <<>>
    /\ \E argv \in CommandLines : cli' = <<emit_cli_code(job.app.commands, argv)>>
    /\ UNCHANGED <<driver_vars, server_vars>>
ProgramOver == main.pc \in {"exited", "crashed"} \/ cli # <<>>
Finish == run_file_end /\ ProgramOver /\ UNCHANGED <<server_vars, cli>>

MainThread == cmd.name = "dev" /\ ~Down /\ (Compile \/ dev_mode) /\ UNCHANGED <<server_vars, cli>>
HandlerThread == cleanup /\ UNCHANGED <<server_vars, cli>>
Next ==
    \/ Begin \/ Start \/ RunCommand \/ Finish \/ MainThread \/ HandlerThread
    \/ cmd.name # "dev" /\ Compile /\ UNCHANGED <<server_vars, cli>>
    \/ TestStep /\ UNCHANGED <<server_vars, cli>>
    \/ (\E terminal \in BOOLEAN : Interrupt(terminal)) /\ UNCHANGED <<server_vars, cli>>
    \/ (ProgramEnds \/ \E p \in DOMAIN disk \cap DOMAIN Versions : Save(p)) /\ UNCHANGED <<server_vars, cli>>
    \/ ServerStep /\ UNCHANGED <<driver_vars, cli>>

(* A command goes on, and so do the main thread of dev mode and the handler of
   Ctrl-C once it was called: threads of their own, none of which waits for
   anything but the channel and the lock of the child. *)
Spec == Init /\ [][Next]_vars /\ WF_vars(Begin) /\ WF_vars(MainThread) /\ WF_vars(HandlerThread)
-----------------------------------------------------------------------------
Generating == job.at = "generate"
Accepted == job.at = "verify" \/ (job.at = "ok" /\ job.kind = "check")
(* Files that a file imports, as they are found. *)
FilesOf(tree, p, rel) == LET r == resolve_import(tree, Dir(p), rel) IN IF r[1] = "found" THEN ToSet(r[2]) ELSE {}
ImportedBy(tree, p, c) == UNION {FilesOf(tree, p, rel) : rel \in ToSet(ImportsOf(c))}
Imported(p) == ImportedBy(Tree, p, job.read[p])
(* All that a file leads to: what is in every set of files that has what it
   imports and what its members import. *)
Closed(ps) == \A p \in ps : Imported(p) \subseteq ps
Below(p) == {q \in DOMAIN job.read : \A ps \in SUBSET DOMAIN job.read : Imported(p) \subseteq ps /\ Closed(ps) => q \in ps}

(* resolve_imports puts the declarations of every file it read into the program
   exactly once, and those of a file before those of the files that import it
   (unless they import each other), however often and by whichever name a file
   is imported. *)
MergedInOrder ==
    Generating =>
        LET at(p) == {i \in 1..Len(job.merged) : job.merged[i][1] = p} IN
        \A p \in DOMAIN job.read :
            /\ Cardinality(at(p)) = Len(OwnDecls(p, job.read[p]))
            /\ \A q \in Imported(p) : p \notin Below(q) => \A i \in at(p), j \in at(q) : j < i

(* A build that gets past its imports took none of them from a dependency when
   another dependency, of other coordinates, offers it as well: the order of the
   dependencies in tinox.toml decides nothing. *)
OrderDecidesNothing ==
    Generating =>
        \A p \in DOMAIN job.read : \A rel \in ToSet(ImportsOf(job.read[p])) :
            resolve_module_paths(Tree, Dir(p), rel)[1] = "none" =>
                Cardinality({dep_dir_coordinate(d) : d \in ToSet(Offering(Tree, rel))}) <= 1

(* The declaration a route came from. *)
ClassOf(r) == CHOOSE d \in ClassDecls(Decls(job.merged)) : d[5][2] = r.class
MethodOf(r) == CHOOSE m \in ToSet(Methods(ClassOf(r)[5])) : Body(m)[3] = r.name

(* The handler of every route of a program that passed the checks is called with
   as many values as it has parameters, each bound from the request. *)
RoutesBind ==
    Accepted => \A i \in 1..Len(job.app.routes) : LET r == job.app.routes[i] IN
        [j \in 1..Len(r.params) |-> r.params[j].name] = [j \in 1..Len(Body(MethodOf(r))[5]) |-> Body(MethodOf(r))[5][j][3]]

(* The path of a route is that of its class and that of its method with one slash
   in between, whichever of the two brings it, and where one of them is missing
   the other as it is. *)
Spelled(anns, names) == LastSaid(anns, names, LAMBDA a : StringArg(a, 1))
Text(path) == IF path = <<>> THEN <<>> ELSE Chars[path[1]]
Unended(path) == IF path # <<>> /\ Last(path) = "/" THEN Front(path) ELSE path
Unbegun(path) == IF path # <<>> /\ path[1] = "/" THEN Tail(path) ELSE path
PathsJoined ==
    Accepted => \A i \in 1..Len(job.app.routes) :
        LET r == job.app.routes[i]
            class == Text(Spelled(ClassOf(r)[2], {"Path"}))
            method == Text(Spelled(Anns(MethodOf(r)), Verbs \cup {"Path"}))
        IN  r.path = IF class = <<>> \/ method = <<>> THEN class \o method
                     ELSE Unended(class) \o <<"/">> \o Unbegun(method)

(* No handler runs for a request without good credentials when its method or the
   class around it is marked @Auth, whatever else is said of it. *)
NamesAuth(anns) == \E i \in 1..Len(anns) : anns[i][2] = "Auth" /\ StringArg(anns[i], 1) # <<>>
Guarded ==
    \A t \in Workers : threads[t].pc \in {"controller", "inject", "bind", "handler", "handled"} =>
        LET r == RouteOf(t) IN
        NamesAuth(ClassOf(r)[2]) \/ NamesAuth(Anns(MethodOf(r))) => threads[t].req[2].cred = "good" /\ app.validator

(* No word of the command line is used twice: as a flag, as the value of an option
   or as an argument.  Two cases are excepted, where the code does use a word
   twice: an option that is taken for the value of the one before it, as in
   `--name -v', and, where an option has no long name, an empty word, which
   passes for that name, and the word behind it.  The fields of the command have
   names and positions of their own. *)
Distinct(c) ==
    /\ \A i, j \in 1..Len(c.options) : i # j => ToSet(Names(c.options[i])) \cap ToSet(Names(c.options[j])) = {}
    /\ \A i, j \in 1..Len(c.arguments) : i # j => c.arguments[i].what # c.arguments[j].what
Nameless == \E i \in 1..Len(job.app.commands[1].options) : Long(job.app.commands[1].options[i]) = ""
Plainly(argv, i) ==
    Dashes[argv[i]] = 0 /\ (Nameless => argv[i] # "" /\ (i > 1 => argv[i - 1] # ""))
WordsUsedOnce ==
    cli # <<>> /\ cli[1].end = "run" /\ Distinct(job.app.commands[1]) =>
        LET uses == cli[1].options \o cli[1].arguments IN
        \A i \in 1..Len(cli[1].argv) :
            Plainly(cli[1].argv, i) => Cardinality({u \in 1..Len(uses) : i \in uses[u].at}) <= 1

(* The program that is built is the one the files and the command ask for. *)
BuildRight == MergedInOrder /\ OrderDecidesNothing /\ TestsAreRun

(* Every route is reached by the path its annotations spell, with the guards of
   its method and class in front and all its parameters bound. *)
RoutesRight == RoutesBind /\ PathsJoined /\ Guarded
=============================================================================
