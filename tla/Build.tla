-------------------------------- MODULE Build --------------------------------
(***************************************************************************)
(* How the driver turns source files into a program (tinox/src/main.rs):     *)
(* resolve_imports reads the files one by one and puts their declarations    *)
(* together, compile_file checks them and generates code, compile_ll_to_exe  *)
(* runs the tools.  One build (job) at a time.                               *)
(*   path of a file: the names of its directories and its stem               *)
(*   content: a name for [parses, typed, decls]; a declaration of the program  *)
(*   is the path of its file and its place there                             *)
(***************************************************************************)
EXTENDS Annotations

CONSTANTS Content,     \* what the contents of a file mean
          Rank,        \* the order of the stems in a directory
          EmptyDirs    \* directories without source files
(* The declarations of the files, those in namespaces too. *)
Declared == UNION {Nested(Content[c].decls) : c \in DOMAIN Content}
(* A file, a namespace and a class are lists: of declarations and of fields. *)
ASSUME ContentAssumption ==
    /\ \A c \in DOMAIN Content : Content[c].decls \in Seq(Declared)
    /\ \A d \in Declared : d[5][1] = "Namespace" => d[5][3] \in Seq(Declared)
    /\ \A d \in Declared : d[5][1] = "Class" => Len(d[5][6]) \in Nat

VARIABLES project,     \* [entry, commands, deps (their directories in order), missing (declared, not installed),
                       \*  opt ("release" when that is asked for and the tool opt is there)]
          disk,        \* path -> content
          job,         \* the build under way
          files        \* files the build has left: "ll", "bc", "o", "rt", "exe"
build_vars == <<project, disk, job, files>>

CORE_MODULES ==
    {"array", "collections", "set", "queue", "heap", "trie", "graph", "iter", "sort", "option", "result", "cache", "pool",
     "math", "mathf", "mathx", "complex", "decimal", "string", "fmt", "format", "encoding", "io", "fs", "env", "process",
     "debug", "socket", "semaphore", "time", "cron", "events", "logger", "validation", "regex", "random", "hash", "uuid",
     "base64", "hex", "uri"}
stdlib_dir == <<"core">>
Stem(p) == Last(p)
Dir(p) == Front(p)

collect_type_decl_names(decls) ==
    Collect(Inside(decls), LAMBDA d : IF d[5][1] \in {"Class", "Interface", "Enum"} THEN <<d[5][2]>> ELSE <<>>)
check_one_type_per_file(decls, p) == collect_type_decl_names(decls) \in {<<>>, <<Stem(p)>>}
collect_top_level_fn_names(decls) ==
    Collect(Inside(decls), LAMBDA d : IF d[5][1] = "Function" /\ d[5][6] # <<"Empty">> THEN <<d[5][2]>> ELSE <<>>)
check_no_top_level_fn(decls) == collect_top_level_fn_names(decls) = <<>>
has_class_named_main(decls) == \E d \in ClassDecls(decls) : d[5][2] = "Main"

(* What imports are looked up in: the files there are, whatever is in them, and
   the dependencies. *)
Tree == [names |-> DOMAIN disk, deps |-> project.deps, missing |-> project.missing]
(* Where a module is: a file, or the files of a directory in order. *)
InDir(tree, dir) == {p \in tree.names : Dir(p) = dir}
IsDir(tree, dir) == dir \in EmptyDirs \/ \E p \in tree.names : Len(p) > Len(dir) /\ SubSeq(p, 1, Len(dir)) = dir
InOrder(ps) ==
    [k \in 1..Cardinality(ps) |-> CHOOSE p \in ps : Cardinality({q \in ps : Rank[Stem(q)] < Rank[Stem(p)]}) = k - 1]
resolve_module_paths(tree, base, rel) ==
    LET at == base \o rel IN
    CASE at \in tree.names -> <<"found", <<at>>>>
      [] at \notin tree.names /\ IsDir(tree, at) ->
            IF InDir(tree, at) = {} THEN <<"error">>
            ELSE <<"found", InOrder(InDir(tree, at))>>
      [] OTHER -> <<"none">>

(* group, artifact and version *)
dep_dir_coordinate(dir) == SubSeq(dir, Len(dir) - 2, Len(dir))
Offering(tree, rel) == SelectSeq(tree.deps, LAMBDA d : resolve_module_paths(tree, d, rel)[1] = "found")
(* mutant: the first dependency wins *)
resolve_in_dep_dirs_first(tree, rel) ==
    IF Offering(tree, rel) = <<>> THEN <<"none">> ELSE resolve_module_paths(tree, Offering(tree, rel)[1], rel)
resolve_in_dep_dirs(tree, rel) ==
    LET offers == Offering(tree, rel) IN
    CASE offers = <<>> -> <<"none">>
      [] offers # <<>> /\ \A i \in DOMAIN offers : dep_dir_coordinate(offers[i]) = dep_dir_coordinate(offers[1]) ->
            resolve_module_paths(tree, offers[1], rel)
      [] OTHER -> <<"error">>

(* The standard library: only core modules, by their path below it. *)
resolve_in_stdlib(tree, rel) ==
    LET core == Len(rel) >= 3 /\ rel[2] = "core"
        tail == IF core THEN SubSeq(rel, 3, Len(rel)) ELSE <<Last(rel)>>
    IN  IF core /\ rel[3] \notin CORE_MODULES
        THEN <<"error", IF <<"tinox.core", rel[3]>> \in tree.missing THEN "not installed" ELSE "extended">>
        ELSE IF resolve_module_paths(tree, stdlib_dir, tail)[1] = "found" THEN resolve_module_paths(tree, stdlib_dir, tail)
        ELSE <<"error">>

resolve_import(tree, dir, rel) ==
    LET own == resolve_module_paths(tree, dir, rel)
        dep == resolve_in_dep_dirs(tree, rel)
    IN  CASE own[1] # "none" -> own
          [] own[1] = "none" /\ dep[1] # "none" -> dep
          [] own[1] = "none" /\ dep[1] = "none" /\ rel[1] = "tinox" -> resolve_in_stdlib(tree, rel)
          [] OTHER -> <<"error">>
-----------------------------------------------------------------------------
ImportsOf(c) == Collect(Content[c].decls, LAMBDA d : IF d[5][1] = "Import" THEN <<d[5][2]>> ELSE <<>>)
OwnDecls(p, c) ==
    Collect([i \in 1..Len(Content[c].decls) |-> i], LAMBDA i : IF Content[c].decls[i][5][1] \in {"Import", "Module"} THEN <<>> ELSE <<<<p, i>>>>)
(* A file that is being put together: imports and files of an import left. *)
Frame(p, c) == [path |-> p, imports |-> ImportsOf(c), paths |-> <<>>, got |-> <<>>, own |-> OwnDecls(p, c)]
Readable(p) ==
    p \in DOMAIN disk /\ LET c == Content[disk[p]] IN c.parses /\ check_one_type_per_file(c.decls, p) /\ check_no_top_level_fn(c.decls)

NoJob == [at |-> "none"]
Failed(why) == job' = [job EXCEPT !.at = "failed", !.why = why]
Top == job.stack[1]
SetTop(f) == job' = [job EXCEPT !.stack = <<f>> \o Tail(@)]

(* A build begins with its entry file, known by its path from then on. *)
StartJob(kind, entry, test) ==
    job' = [at |-> IF Readable(entry) THEN "resolve" ELSE "failed", why |-> "", kind |-> kind, test |-> test,
            opt |-> IF kind \in {"dev", "test"} THEN "debug" ELSE project.opt,
            stack |-> <<Frame(entry, disk[entry])>>, read |-> [q \in {entry} |-> disk[q]], merged |-> <<>>, app |-> <<>>]

(* The next import of the file on top is looked up. *)
NextImport ==
    /\ Top.paths = <<>> /\ Top.imports # <<>>
    /\ \E found \in {resolve_import(Tree, Dir(Top.path), Head(Top.imports))} :
          IF found[1] = "found" THEN SetTop([Top EXCEPT !.imports = Tail(@), !.paths = found[2]])
          ELSE Failed("import")
(* The next file of the import is read, unless it has been. *)
WithFile(read, p) == [q \in DOMAIN read \cup {p} |-> IF q = p THEN disk[p] ELSE read[q]]
NextFile ==
    /\ Top.paths # <<>>
    /\ LET p == Head(Top.paths)
           rest == <<[Top EXCEPT !.paths = Tail(@)]>> \o Tail(job.stack)
       IN  CASE p \in DOMAIN job.read -> job' = [job EXCEPT !.stack = rest]
             [] p \notin DOMAIN job.read /\ ~Readable(p) -> job' = [job EXCEPT !.at = "failed", !.why = "file", !.read = WithFile(@, p)]
             [] OTHER -> job' = [job EXCEPT !.read = WithFile(@, p), !.stack = <<Frame(p, disk[p])>> \o rest]
(* mutant: imported declarations are put behind those of the importer *)
whole_behind(f) == f.own \o f.got
whole(f) == f.got \o f.own
(* What the file on top has goes to the one that imports it. *)
HandedOver(stack) == <<[stack[2] EXCEPT !.got = @ \o whole(stack[1])]>> \o SubSeq(stack, 3, Len(stack))
(* A file is complete: what it imports comes before what it declares. *)
FinishFile ==
    /\ Top.paths = <<>> /\ Top.imports = <<>>
    /\ IF Len(job.stack) = 1
       THEN job' = [job EXCEPT !.at = "generate", !.merged = whole(Top), !.stack = <<>>]
       ELSE job' = [job EXCEPT !.stack = HandedOver(@)]
ResolveStep == job.at = "resolve" /\ (NextImport \/ NextFile \/ FinishFile) /\ UNCHANGED <<project, disk, files>>
-----------------------------------------------------------------------------
(* The parts of the program that run by themselves, in the order they start. *)
Background(ann) ==
    (IF ann.route_entries = <<>> THEN <<>>
     ELSE IF ann.http3_rest_controllers = <<>> THEN <<<<"http">>>> ELSE <<<<"http3">>>>)
    \o [i \in 1..Len(ann.ws_endpoints) |-> <<"ws", ann.ws_endpoints[i]>>]
    \o [i \in 1..Len(ann.amqp10_consumers) |-> <<"amqp10", ann.amqp10_consumers[i]>>]
    \o [i \in 1..Len(ann.amqp091_consumers) |-> <<"amqp091", ann.amqp091_consumers[i]>>]

MainMethod(decls) ==
    LET mains == SelectSeq(Flat(decls), LAMBDA d : d[5][1] = "Class" /\ d[5][2] = "Main")
    IN  IF mains = <<>> THEN <<>> ELSE SelectSeq(Methods(mains[1][5]), LAMBDA m : Body(m)[3] = "main")
(* Main.main is static, takes nothing and returns Int32. *)
emit_class_main_entry_point(decls) ==
    LET m == MainMethod(decls) IN m # <<>> => Body(m[1])[2] = "fnc" /\ Body(m[1])[5] = <<>> /\ Body(m[1])[6] = <<"TName", "Int32">>

(* mutant: the bootstrap takes the entry point of a test *)
entry_point_bootstrap(ann, decls, test) == IF MainMethod(decls) # <<>> \/ Background(ann) # <<>> THEN "bootstrap" ELSE "none"
(* Which of the generators defines the entry point of the program. *)
entry_point(ann, decls, test) ==
    CASE test = <<>> /\ (MainMethod(decls) # <<>> \/ Background(ann) # <<>>) -> "bootstrap"
      [] ann.cli_commands # <<>> -> "command"
      [] test # <<>> -> "test"
      [] OTHER -> "none"

(* Two endpoints on one port; without an argument it is the default one. *)
PortsClash(ann) == \E i, j \in 1..Len(ann.ws_endpoints) : i # j /\ ann.ws_endpoints[i].port = ann.ws_endpoints[j].port
(* The library class an endpoint of a kind needs; without it code generation panics. *)
LibraryClass == [http3 |-> "Http3Server", ws |-> "WsFrame", amqp10 |-> "Amqp10Message", amqp091 |-> "AmqpMessage091"]
Lacking(ann, decls) ==
    \E i \in 1..Len(Background(ann)) :
        /\ Background(ann)[i][1] # "http"
        /\ LibraryClass[Background(ann)[i][1]] \notin {d[5][2] : d \in ClassDecls(decls)}

(* The errors of the checks in order: "" when there are none. *)
compile_errors(kind, ann, decls, typed, test) ==
    CASE kind = "collect" -> ""
      [] kind # "collect" /\ (~typed \/ validate_annotations(decls) # {}) -> "type"
      [] kind = "check" -> ""
      [] kind # "test" /\ ann.cli_commands = <<>> /\ ~has_class_named_main(decls) -> "no main"
      [] kind # "test" /\ PortsClash(ann) -> "port"
      [] kind # "test" /\ Len(ann.http3_rest_controllers) > 1 -> "http3"
      [] ~emit_class_main_entry_point(decls) -> "main"
      [] kind # "test" /\ Lacking(ann, decls) -> "panic"
      [] OTHER -> ""

(* A function is defined for each component and each route; one that is used and
   not defined, or defined twice, makes the code invalid. *)
ValidCode(ann) ==
    LET components == {ann.di_components[i].class : i \in 1..Len(ann.di_components)}
        shims == [i \in 1..Len(ann.route_entries) |-> <<ann.route_entries[i].class, ann.route_entries[i].name>>]
    IN  /\ \A i \in 1..Len(ann.di_components) : \A j \in 1..Len(ann.di_components[i].inject) :
              ann.di_components[i].inject[j].type \in components
        /\ IsInjective(shims)

Decls(merged) == [i \in 1..Len(merged) |-> Content[job.read[merged[i][1]]].decls[merged[i][2]]]
Program(ann, decls, test) ==
    [routes |-> ann.route_entries, components |-> ann.di_components, background |-> Background(ann),
     tests |-> ann.test_entries, commands |-> ann.cli_commands, main |-> MainMethod(decls) # <<>>, entry |-> entry_point(ann, decls, test),
     validator |-> \E d \in ClassDecls(decls) : d[5][2] = "AuthValidator", valid |-> ValidCode(ann)]

(* Checking and code generation; the generated code is written to a file. *)
Generate ==
    /\ job.at = "generate"
    /\ \E decls \in {Decls(job.merged)} : \E ann \in {process_annotations(decls)} :
       \E why \in {compile_errors(job.kind, ann, decls, \A p \in DOMAIN job.read : Content[job.read[p]].typed, job.test)} :
          IF why # "" THEN Failed(why) /\ UNCHANGED files
          ELSE IF job.kind \in {"check", "collect"}
          THEN job' = [job EXCEPT !.at = "ok", !.app = Program(ann, decls, job.test)] /\ UNCHANGED files
          ELSE job' = [job EXCEPT !.at = "verify", !.app = Program(ann, decls, job.test)] /\ files' = files \cup {"ll"}
    /\ UNCHANGED <<project, disk>>

next_tool == [verify |-> IF job.opt = "release" THEN "opt" ELSE "llc", opt |-> "llc", llc |-> "cc", cc |-> "link", link |-> "ok"]
Output == [verify |-> {}, opt |-> {"bc"}, llc |-> {"o"}, cc |-> {"rt"}, link |-> {"exe"}]
(* What a tool that succeeded makes superfluous. *)
Removed == [verify |-> {}, opt |-> {}, llc |-> {"bc"}, cc |-> {}, link |-> {"o", "rt"}]
ToolWorks(tool) ==
    /\ job' = [job EXCEPT !.at = next_tool[tool]]
    /\ files' = (files \ Removed[tool]) \cup Output[tool]
(* The tools may fail for reasons of their own; the verifier and the linker
   fail on code that is not valid or has no entry point. *)
RunTool ==
    /\ job.at \in DOMAIN Output
    /\ \/ /\ job.at = "verify" => job.app.valid
          /\ job.at = "link" => job.app.entry # "none"
          /\ ToolWorks(job.at)
       \/ Failed(job.at) /\ UNCHANGED files
    /\ UNCHANGED <<project, disk>>

BuildStep == ResolveStep \/ Generate \/ RunTool
JobDone == job.at \in {"ok", "failed"}
=============================================================================
