--------------------------- MODULE PackageManager ---------------------------
(***************************************************************************)
(* tinox install and tinox add (pm.rs): commands of several projects run   *)
(* at once on one machine.  A project owns its tinox.toml, its tinox.lock  *)
(* and its .tinox/deps tree; the ~/.tinox/repository tree is shared.  A    *)
(* dependency is downloaded, checked, extracted into a staging directory   *)
(* and renamed into place; a command can die between any two steps, and    *)
(* between the truncation of tinox.toml or tinox.lock and what is written  *)
(* into it (fs::write).  An import is looked up in everything of the       *)
(* project's own tree, and of the shared one in what the project's         *)
(* tinox.toml and the manifests of the packages it leads to declare.       *)
(***************************************************************************)
EXTENDS Manifest, FiniteSets

CONSTANTS
    Procs,           \* the command processes
    Roots,           \* the projects
    Contents,        \* the artifacts that can be downloaded
    Digest,          \* sha256 of an artifact
    TomlOf,          \* the tinox.toml an artifact ships (<<>> when it ships none)
    RawServes,       \* raw url -> the artifacts it serves, first to last
    RepoServes,      \* <<base url, ga, version>> -> the one artifact it serves
    InitToml,        \* the projects' tinox.toml at the start
    Additions,       \* the dependencies `tinox add' is called with
    MaxAttempts,     \* get_with_retry's MAX_ATTEMPTS
    MaxCommands,     \* bound: commands started in a behaviour
    MaxClones,       \* bound: fresh clones in a behaviour
    MaxWalk          \* bound: dependencies declared by all manifests together

ASSUME DigestInjective ==
    \A a, b \in Contents : Digest[a] = Digest[b] => a = b
ASSUME AttemptsPositive == MaxAttempts \in Nat \ {0}
ASSUME NoneIsNoContent == None \notin Contents /\ \A c \in Contents : Digest[c] # None
ASSUME ServesArtifacts ==
    /\ \A u \in DOMAIN RawServes : RawServes[u] \in Seq(Contents) /\ RawServes[u] # <<>>
    /\ \A u \in DOMAIN RepoServes : RepoServes[u] \in Contents

VARIABLES
    toml,      \* root -> its tinox.toml
    lock,      \* root -> tinox.lock: coordinate -> [url, sha256]
    disk,      \* directory -> artifact, or "partial" while it is extracted
    serves,    \* raw url -> how far it has moved along RawServes
    proc,      \* process -> the state of its command
    clean,     \* root -> the last `install' of this tinox.toml returned true
    started,   \* commands started so far
    clones     \* fresh clones so far

vars == <<toml, lock, disk, serves, proc, clean, started, clones>>

(* read_manifest of an installed package: empty when it ships no tinox.toml. *)
ManifestOf == [c \in Contents |-> parse_manifest(TomlOf[c])]

coord(dep) == <<dep.ga, dep.version>>
RawUrl(u)  == <<u, "", "">>
DEFAULT_REPOSITORY_URL == "central-url"

(* Dies with the process: everything a command keeps in memory. *)
Idle == [pc |-> "idle", root |-> None, update |-> FALSE, install |-> FALSE,
         toml |-> <<>>, lock |-> <<>>, changed |-> FALSE, failed |-> FALSE,
         work |-> <<>>, visited |-> {}, attempts |-> 0, bytes |-> None, staging |-> <<>>]

(* <<url>>, or <<>> for the two configuration errors. *)
effective_download_url(dep, owning) ==
    LET configured == SelectSeq(owning.repositories, LAMBDA r : r.id = dep.repository)
    IN  CASE dep.url # None /\ dep.repository # None -> <<>>
          [] dep.url # None -> <<RawUrl(dep.url)>>
          [] dep.repository = None -> <<<<DEFAULT_REPOSITORY_URL, dep.ga, dep.version>>>>
          [] configured = <<>> -> <<>>
          [] OTHER -> <<<<configured[1].url, dep.ga, dep.version>>>>

(* .tinox/deps/<group>/<artifactId>/<version> of the project for an explicit
   url, ~/.tinox/repository/<repoId>/... otherwise.  staging 0 is the final
   name; others are its dot-named siblings. *)
resolved_install_dir(root, dep) ==
    [tree    |-> IF dep.url # None THEN "deps" ELSE "repository",
     at      |-> IF dep.url # None THEN root
                 ELSE IF dep.repository # None THEN dep.repository ELSE "central",
     coord   |-> coord(dep),
     staging |-> 0]

(* mutant: the same staging name for every caller *)
StagingDirShared(dir) == [dir EXCEPT !.staging = 1]

(* STAGING_COUNTER and the pid: a name no other directory has. *)
StagingDir(dir) ==
    LET used == {d.staging : d \in {e \in DOMAIN disk : [e EXCEPT !.staging = 0] = dir}}
    IN  [dir EXCEPT !.staging = CHOOSE n \in 1..Cardinality(used) + 1 : n \notin used]

(* Every other url answers 404. *)
Known(url) == IF url[2] = "" THEN url[1] \in DOMAIN RawServes ELSE url \in DOMAIN RepoServes
Served(url) == IF url[2] = "" THEN RawServes[url[1]][serves[url[1]]] ELSE RepoServes[url]

(* mutant: the lock is not consulted *)
expected_checksum_unpinned(dep, url, l, update) ==
    IF dep.sha256 # None THEN dep.sha256 ELSE None

(* dep.sha256 first; else, without --update, the lock entry of the same
   coordinate and url; else nothing to compare with. *)
expected_checksum(dep, url, l, update) ==
    CASE dep.sha256 # None -> dep.sha256
      [] ~update /\ coord(dep) \in DOMAIN l /\ l[coord(dep)].url = url -> l[coord(dep)].sha256
      [] OTHER -> None

verify_checksum(dep, url, l, update, sha256) ==
    expected_checksum(dep, url, l, update) \in {None, sha256}

upsert_lock_entry(l, c, url, sha256) ==
    [k \in DOMAIN l \cup {c} |-> IF k = c THEN [url |-> url, sha256 |-> sha256] ELSE l[k]]

Work(deps, owning) == [i \in 1..Len(deps) |-> [dep |-> deps[i], owning |-> owning]]

Without(f, x) == [k \in DOMAIN f \ {x} |-> f[k]]
With(f, x, v) == [k \in DOMAIN f \cup {x} |-> IF k = x THEN v ELSE f[k]]
-----------------------------------------------------------------------------
Init ==
    /\ toml = InitToml
    /\ lock = [r \in Roots |-> <<>>]
    /\ disk = <<>>
    /\ serves = [u \in DOMAIN RawServes |-> 1]
    /\ proc = [p \in Procs |-> Idle]
    /\ clean = [r \in Roots |-> FALSE]
    /\ started = 0
    /\ clones = 0

Free(r) == \A p \in Procs : proc[p].root # r     \* one command per project at a time

(* tinox install [--update]: reads the manifest and the lock, and walks. *)
cmd_install(p, r, update) ==
    /\ proc[p].pc = "idle" /\ Free(r) /\ started < MaxCommands
    /\ LET m == parse_manifest(toml[r])
       IN  IF m.dependencies = <<>>
           THEN /\ clean' = [clean EXCEPT ![r] = TRUE]
                /\ UNCHANGED proc
           ELSE /\ proc' = [proc EXCEPT ![p] =
                        [Idle EXCEPT !.pc = "visit", !.root = r, !.update = update,
                                     !.install = TRUE, !.lock = lock[r],
                                     !.work = Work(m.dependencies, m)]]
                /\ UNCHANGED clean
    /\ started' = started + 1
    /\ UNCHANGED <<toml, lock, disk, serves, clones>>

(* tinox add: replaces the dependency's other versions in the manifest and
   begins to write tinox.toml, which fs::write truncates first. *)
cmd_add(p, r, dep) ==
    /\ proc[p].pc = "idle" /\ Free(r) /\ started < MaxCommands
    /\ LET old == parse_manifest(toml[r])
           m   == [old EXCEPT !.dependencies =
                     Append(SelectSeq(@, LAMBDA d : d.ga # dep.ga), dep)]
       IN  proc' = [proc EXCEPT ![p] =
              [Idle EXCEPT !.pc = "write_toml", !.root = r, !.toml = write_manifest(toml[r], m),
                           !.work = Work(<<dep>>, m)]]
    /\ toml' = [toml EXCEPT ![r] = <<>>]
    /\ clean' = [clean EXCEPT ![r] = FALSE]
    /\ started' = started + 1
    /\ UNCHANGED <<lock, disk, serves, clones>>

(* mutant: starts from an empty lock instead of the one on disk *)
write_toml_fresh(p) ==
    /\ proc[p].pc = "write_toml"
    /\ toml' = [toml EXCEPT ![proc[p].root] = proc[p].toml]
    /\ proc' = [proc EXCEPT ![p].pc = "visit", ![p].toml = <<>>]
    /\ UNCHANGED <<lock, disk, serves, clean, started, clones>>

(* The rest of tinox add: the file has its text, and what was added is
   installed against the lock on disk. *)
write_toml(p) ==
    /\ proc[p].pc = "write_toml"
    /\ toml' = [toml EXCEPT ![proc[p].root] = proc[p].toml]
    /\ proc' = [proc EXCEPT ![p].pc = "visit", ![p].toml = <<>>,
                            ![p].lock = lock[proc[p].root]]
    /\ UNCHANGED <<lock, disk, serves, clean, started, clones>>

Dep(p)    == Head(proc[p].work).dep
Url(p)    == effective_download_url(Dep(p), Head(proc[p].work).owning)[1]
Target(p) == resolved_install_dir(proc[p].root, Dep(p))

Go(p, pc)  == proc' = [proc EXCEPT ![p].pc = pc]

(* A dependency that cannot be installed: counted, nothing below it walked. *)
Failed(p) == proc' = [proc EXCEPT ![p].pc = "visit", ![p].failed = TRUE,
                                  ![p].work = Tail(@), ![p].bytes = None,
                                  ![p].attempts = 0, ![p].staging = <<>>]

(* mutant: what is installed already is not walked *)
visit_shallow(p) ==
    /\ proc[p].pc = "visit" /\ proc[p].work # <<>>
    /\ LET d == Dep(p)
           skip == coord(d) \in proc[p].visited \/ Target(p) \in DOMAIN disk
       IN  proc' = [proc EXCEPT ![p].visited = @ \cup {coord(d)},
                                ![p].pc = IF skip THEN "visit" ELSE "get",
                                ![p].work = IF skip THEN Tail(@) ELSE @]
    /\ UNCHANGED <<toml, lock, disk, serves, clean, started, clones>>

(* mutant: no guard against a coordinate reached twice *)
visit_again(p) ==
    /\ proc[p].pc = "visit" /\ proc[p].work # <<>>
    /\ Go(p, IF Target(p) \in DOMAIN disk THEN "descend" ELSE "get")
    /\ UNCHANGED <<toml, lock, disk, serves, clean, started, clones>>

(* install_dep_transitively up to the download: skip a coordinate already
   visited, resolve the url, and take an existing directory for installed. *)
visit(p) ==
    /\ proc[p].pc = "visit" /\ proc[p].work # <<>>
    /\ LET d    == Dep(p)
           seen == proc[p].visited
           url  == effective_download_url(d, Head(proc[p].work).owning)
           dir  == Target(p)
       IN  IF coord(d) \in seen
           THEN proc' = [proc EXCEPT ![p].work = Tail(@)]
           ELSE proc' = [proc EXCEPT ![p].visited = @ \cup {coord(d)},
                            ![p].pc = IF url = <<>> THEN "visit"
                                      ELSE IF dir \in DOMAIN disk THEN "descend" ELSE "get",
                            ![p].failed = @ \/ url = <<>>,
                            ![p].work = IF url = <<>> THEN Tail(@) ELSE @]
    /\ UNCHANGED <<toml, lock, disk, serves, clean, started, clones>>

(* get_with_retry: an answer, a permanent (4xx) failure, or a transient one,
   tried MaxAttempts times. *)
get_with_retry(p) ==
    /\ proc[p].pc = "get"
    /\ \/ /\ Known(Url(p))
          /\ proc' = [proc EXCEPT ![p].pc = "verify", ![p].bytes = Served(Url(p)),
                                  ![p].attempts = 0]
       \/ Failed(p)
       \/ /\ proc[p].attempts + 1 < MaxAttempts
          /\ proc' = [proc EXCEPT ![p].attempts = @ + 1]
    /\ UNCHANGED <<toml, lock, disk, serves, clean, started, clones>>

(* mutant: extracts straight into the final directory *)
verify_in_place(p) ==
    /\ proc[p].pc = "verify"
    /\ disk' = With(disk, Target(p), "partial")
    /\ proc' = [proc EXCEPT ![p].pc = "extract", ![p].staging = Target(p)]
    /\ UNCHANGED <<toml, lock, serves, clean, started, clones>>

(* The checksum, then an empty staging directory beside the target. *)
verify_and_stage(p) ==
    /\ proc[p].pc = "verify"
    /\ IF verify_checksum(Dep(p), Url(p), proc[p].lock, proc[p].update, Digest[proc[p].bytes])
       THEN LET s == StagingDir(Target(p))
            IN  /\ disk' = With(disk, s, "partial")
                /\ proc' = [proc EXCEPT ![p].pc = "extract", ![p].staging = s]
       ELSE Failed(p) /\ UNCHANGED disk
    /\ UNCHANGED <<toml, lock, serves, clean, started, clones>>

(* mutant: the staging directory is cleaned up before the rename *)
extract_cleans(p) ==
    /\ proc[p].pc = "extract"
    /\ disk' = Without(disk, proc[p].staging) /\ Go(p, "rename")
    /\ UNCHANGED <<toml, lock, serves, clean, started, clones>>

(* Extraction: complete, or failed and the staging directory removed. *)
extract(p) ==
    /\ proc[p].pc = "extract"
    /\ \/ disk' = With(disk, proc[p].staging, proc[p].bytes) /\ Go(p, "rename")
       \/ disk' = Without(disk, proc[p].staging) /\ Failed(p)
    /\ UNCHANGED <<toml, lock, serves, clean, started, clones>>

(* The atomic rename; an existing target means another command was first, and
   our copy is dropped.  Either way the digest we computed is recorded. *)
rename(p) ==
    /\ proc[p].pc = "rename"
    /\ disk' = IF Target(p) \in DOMAIN disk
               THEN Without(disk, proc[p].staging)
               ELSE With(Without(disk, proc[p].staging), Target(p), disk[proc[p].staging])
    /\ proc' = [proc EXCEPT ![p].pc = "descend", ![p].changed = TRUE, ![p].staging = <<>>,
                   ![p].lock = upsert_lock_entry(@, coord(Dep(p)), Url(p), Digest[proc[p].bytes]),
                   ![p].bytes = None]
    /\ UNCHANGED <<toml, lock, serves, clean, started, clones>>

(* The installed package's own dependencies come before the remaining ones. *)
descend(p) ==
    /\ proc[p].pc = "descend"
    /\ LET sub == ManifestOf[disk[Target(p)]]
       IN  proc' = [proc EXCEPT ![p].pc = "visit",
                                ![p].work = Work(sub.dependencies, sub) \o Tail(@)]
    /\ UNCHANGED <<toml, lock, disk, serves, clean, started, clones>>

(* The command returns. *)
Return(p) ==
    /\ clean' = IF proc[p].install THEN [clean EXCEPT ![proc[p].root] = ~proc[p].failed] ELSE clean
    /\ proc' = [proc EXCEPT ![p] = Idle]

(* The end of the walk: with no new entry the command returns, otherwise
   fs::write truncates the lock.  An empty tinox.lock reads as no entry. *)
finish(p) ==
    /\ proc[p].pc = "visit" /\ proc[p].work = <<>>
    /\ IF proc[p].changed
       THEN /\ lock' = [lock EXCEPT ![proc[p].root] = <<>>]
            /\ Go(p, "write_lock") /\ UNCHANGED clean
       ELSE Return(p) /\ UNCHANGED lock
    /\ UNCHANGED <<toml, disk, serves, started, clones>>

write_lock(p) ==
    /\ proc[p].pc = "write_lock"
    /\ lock' = [lock EXCEPT ![proc[p].root] = proc[p].lock]
    /\ Return(p)
    /\ UNCHANGED <<toml, disk, serves, started, clones>>

(* The process is killed: its memory is gone, the disk stays as it is, with an
   empty tinox.toml or tinox.lock when it was about to be written. *)
Crash(p) ==
    /\ proc[p].pc # "idle"
    /\ proc' = [proc EXCEPT ![p] = Idle]
    /\ UNCHANGED <<toml, lock, disk, serves, clean, started, clones>>

(* A file behind a raw url is replaced: nothing makes those immutable. *)
Republish(u) ==
    /\ serves[u] < Len(RawServes[u])
    /\ serves' = [serves EXCEPT ![u] = @ + 1]
    /\ UNCHANGED <<toml, lock, disk, proc, clean, started, clones>>

(* The projects are checked out on another machine: tinox.toml and tinox.lock
   come along, the installed trees do not. *)
FreshClone ==
    /\ clones < MaxClones /\ \A p \in Procs : proc[p].pc = "idle"
    /\ clones' = clones + 1
    /\ disk' = <<>>
    /\ clean' = [r \in Roots |-> FALSE]
    /\ UNCHANGED <<toml, lock, serves, proc, started>>

Step(p) == \/ visit(p) \/ get_with_retry(p) \/ verify_and_stage(p) \/ extract(p)
           \/ rename(p) \/ descend(p) \/ finish(p) \/ write_lock(p) \/ write_toml(p)

Next ==
    \/ \E p \in Procs : Step(p) \/ Crash(p)
    \/ \E p \in Procs, r \in Roots, u \in BOOLEAN : cmd_install(p, r, u)
    \/ \E p \in Procs, r \in Roots, d \in Additions : cmd_add(p, r, d)
    \/ \E u \in DOMAIN RawServes : Republish(u)
    \/ FreshClone

Fairness == \A p \in Procs : WF_vars(Step(p))
Spec == Init /\ [][Next]_vars /\ Fairness
-----------------------------------------------------------------------------
Dirs == DOMAIN disk
Final(d) == d.staging = 0

(* One dependency of the walk over the repository tree: those with an explicit
   url are not in it, each coordinate is looked at once, and what an installed
   package declares comes before the rest. *)
collect_global_dep_dir(w) ==
    LET d    == Head(w.todo)
        dir  == resolved_install_dir(None, d)
        seen == [w EXCEPT !.todo = Tail(@), !.visited = @ \cup {coord(d)}]
    IN  CASE w.todo = <<>> -> w
          [] w.todo # <<>> /\ (d.url # None \/ coord(d) \in w.visited) -> [w EXCEPT !.todo = Tail(@)]
          [] w.todo # <<>> /\ d.url = None /\ coord(d) \notin w.visited /\ dir \notin Dirs ->
                [seen EXCEPT !.missing = @ \cup {coord(d)}]
          [] OTHER ->
                [seen EXCEPT !.dirs = @ \cup {dir},
                             !.todo = ManifestOf[disk[dir]].dependencies \o @]

Walk(Visit(_), init) == Scan(LAMBDA w, i : Visit(w), init, [i \in 1..MaxWalk |-> i])

(* mutant: a glob of the whole shared tree *)
global_dep_glob(m) ==
    [dirs |-> {d \in Dirs : d.tree = "repository" /\ Final(d)}, missing |-> {}]

global_dep_dirs(m) ==
    Walk(collect_global_dep_dir,
         [todo |-> m.dependencies, dirs |-> {}, missing |-> {}, visited |-> {}])

(* The glob of .tinox/deps takes every directory it finds there. *)
installed_dep_dirs(r) ==
    LET global == global_dep_dirs(parse_manifest(toml[r]))
    IN  [dirs |-> {d \in Dirs : d.tree = "deps" /\ d.at = r} \cup global.dirs,
         missing |-> global.missing]
-----------------------------------------------------------------------------

(* Every process and directory is in a state the code can be in: a command
   that has a staging directory is extracting or renaming it. *)
TypeOK ==
    /\ \A d \in Dirs : disk[d] \in Contents \cup {"partial"}
    /\ \A p \in Procs :
         /\ proc[p].pc \in {"idle", "write_toml", "visit", "get", "verify", "extract",
                            "rename", "descend", "write_lock"}
         /\ proc[p].pc \in {"verify", "extract", "rename"} => proc[p].bytes \in Contents
         /\ proc[p].pc \in {"extract", "rename"} => proc[p].staging \in Dirs
         /\ proc[p].pc \notin {"idle", "visit", "write_lock"} => proc[p].work # <<>>

(* A directory under its final name holds one whole artifact, whichever
   commands raced for it and wherever they died: install_dep extracts beside
   it and renames. *)
InstalledWhole == \A d \in Dirs : Final(d) => disk[d] \in Contents

(* Two commands never extract into the same staging directory (STAGING_COUNTER
   and the pid). *)
StagingIsPrivate ==
    \A p, q \in Procs : p # q /\ proc[p].staging # <<>> => proc[p].staging # proc[q].staging

(* Whichever commands race and wherever they die, the trees on the disk hold
   whole packages and staging directories of one command each (install_dep). *)
DiskSound == TypeOK /\ InstalledWhole /\ StagingIsPrivate

(* A directory that appears under its final name was put there by a command
   whose download has the digest the project's tinox.lock holds for the same
   coordinate and url. *)
InstallsPinned ==
    \A d \in DOMAIN disk' \ Dirs : Final(d) =>
        \E p \in Procs :
            /\ proc[p].pc = "rename" /\ Target(p) = d
            /\ LET old == lock[proc[p].root]
               IN  ~proc[p].update /\ Dep(p).sha256 = None /\ coord(Dep(p)) \in DOMAIN old
                     /\ old[coord(Dep(p))].url = Url(p)
                   => Digest[disk'[d]] = old[coord(Dep(p))].sha256

(* Without --update and without a sha256 in tinox.toml, nothing is put in
   place whose digest differs from the one the project's tinox.lock holds for
   the same coordinate and url: not after a crash, a retry, a replaced file or
   a checkout on another machine (verify_checksum). *)
PinsAreEnforced == [][InstallsPinned]_vars

(* A command of project r that has truncated a file and not written it yet. *)
Writing(r, pc) == {p \in Procs : proc[p].root = r /\ proc[p].pc = pc}

(* What tinox.lock and tinox.toml hold, or will when the write that has begun
   is done. *)
Pins(r) == IF Writing(r, "write_lock") = {} THEN lock[r]
           ELSE proc[CHOOSE p \in Writing(r, "write_lock") : TRUE].lock
File(r) == IF Writing(r, "write_toml") = {} THEN toml[r]
           ELSE proc[CHOOSE p \in Writing(r, "write_toml") : TRUE].toml

(* The step kills a command between the truncation and the write. *)
KilledIn(r, pc) == \E p \in Writing(r, pc) : Crash(p)

(* tinox.lock loses no entry, wherever commands are killed but inside the write
   of that very file, which empties it: `tinox add' starts from the entries on
   disk, not from an empty lock (cmd_add). *)
LockKept == \A r \in Roots : \/ DOMAIN Pins(r) \subseteq DOMAIN Pins(r)'
                             \/ KilledIn(r, "write_lock")
LockOnlyGrows == [][LockKept]_vars

(* Every command ends, on cyclic dependencies too (the visited set of
   install_dep_transitively). *)
CommandsEnd == \A p \in Procs : proc[p].pc # "idle" ~> proc[p].pc = "idle"

(* `tinox add' leaves every line of tinox.toml alone that is not the package
   manager's, in its order (write_manifest), unless it is killed inside the
   write, which leaves an empty file. *)
TomlKeepsTheRest ==
    [][\A r \in Roots : \/ File(r)' = File(r)
                      \/ Foreign(File(r)') = Foreign(File(r))
                      \/ KilledIn(r, "write_toml")]_vars

(* What `tinox add' writes is what the next command reads: the dependency it
   added in place of its other versions, and everything else as before. *)
AddedIsReadBack ==
    [][\A r \in Roots : File(r)' # File(r) /\ ~KilledIn(r, "write_toml") =>
          LET old == parse_manifest(File(r))
              new == parse_manifest(File(r)')
          IN  /\ new.package = old.package /\ new.repositories = old.repositories
              /\ \E d \in Additions :
                    new.dependencies = Append(SelectSeq(old.dependencies, LAMBDA e : e.ga # d.ga), d)
      ]_vars

(* However often `tinox add' rewrites tinox.toml and tinox.lock, what is not its
   own stays, what it added is read back, and no pin is lost, for commands that
   may be killed anywhere but between the truncation of the file and its write. *)
RewritesKeep == TomlKeepsTheRest /\ LockOnlyGrows /\ AddedIsReadBack

(* Every dependency reached from those tinox.toml declares; Leads says behind
   which of them the walk goes on. *)
Reach(r, Leads(_), w) ==
    LET d   == Head(w.todo)
        dir == resolved_install_dir(r, d)
    IN  IF w.todo = <<>> THEN w
        ELSE [seen |-> w.seen \cup {d},
              todo |-> IF d \in w.seen \/ dir \notin Dirs \/ ~Leads(d) THEN Tail(w.todo)
                       ELSE ManifestOf[disk[dir]].dependencies \o Tail(w.todo)]

Reached(r, Leads(_)) ==
    Walk(LAMBDA w : Reach(r, Leads, w),
         [todo |-> parse_manifest(toml[r]).dependencies, seen |-> {}]).seen

(* What the installer reaches, and what is reached without going through a
   dependency that gives its url. *)
ReachedFrom(r) == Reached(r, LAMBDA d : TRUE)
ReachedByCoordinates(r) == Reached(r, LAMBDA d : d.url = None)

(* Each coordinate is declared one way only: the visited set of the installer
   and of the import walk know it by its coordinate alone. *)
DeclaredOneWay(r, deps) ==
    \A d, e \in deps :
        coord(d) = coord(e) => resolved_install_dir(r, d) = resolved_install_dir(r, e)

Dir(r, deps) == {resolved_install_dir(r, d) : d \in deps}

(* After a `tinox install' that returned true every dependency it leads to is
   in place and none is reported as declared but not installed; imports see
   the ones with a url, and of the others those that are not behind one. *)
InstallIsComplete ==
    \A r \in {s \in Roots : clean[s]} :
        \A reached \in {ReachedFrom(r)}, seen \in {installed_dep_dirs(r)} :
            DeclaredOneWay(r, reached) =>
                /\ Dir(r, reached) \subseteq Dirs
                /\ Dir(r, {d \in reached : d.url # None} \cup ReachedByCoordinates(r))
                      \subseteq seen.dirs
                /\ seen.missing = {}

(* The installer of one project never makes a package of the shared tree
   visible to another project that does not lead to it. *)
ImportsAreScoped ==
    \A r \in Roots : \A found \in {installed_dep_dirs(r).dirs} :
        {d \in found : d.tree = "repository"} \subseteq Dir(r, ReachedFrom(r))

(* After an install everything the project leads to is installed, imports see
   it but for what only a url dependency leads to, and of the shared tree they
   see nothing else (installed_dep_dirs). *)
ImportsRight == InstallIsComplete /\ ImportsAreScoped

(* Not kept by the code, whose import walk skips every dependency with a url
   and so whatever that one's manifest declares: after a `tinox install' that
   returned true imports see every dependency it installed (global_dep_dirs). *)
ImportsSeeEverything ==
    \A r \in {s \in Roots : clean[s]} :
        Dir(r, ReachedFrom(r)) \subseteq installed_dep_dirs(r).dirs

(* Not kept by the code, which takes the staging directory of a killed install
   for a package: the directories imports are resolved in hold whole packages only. *)
ImportsSeeOnlyInstalled ==
    \A r \in Roots : \A d \in installed_dep_dirs(r).dirs : Final(d)
=============================================================================
