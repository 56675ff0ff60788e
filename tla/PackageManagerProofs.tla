------------------------ MODULE PackageManagerProofs ------------------------
(***************************************************************************)
(* What PackageManager guarantees for any number of projects, packages and *)
(* concurrent commands, whatever the manifests say and wherever commands   *)
(* die.  The manifests themselves (parse_manifest, write_manifest) are     *)
(* never looked into: nothing here depends on what a tinox.toml declares.  *)
(***************************************************************************)
EXTENDS PackageManager, NatFacts

Fields == {"pc", "root", "update", "install", "toml", "lock", "changed", "failed", "work",
           "visited", "attempts", "bytes", "staging"}
PCs == {"idle", "write_toml", "visit", "get", "verify", "extract", "rename", "descend",
        "write_lock"}

(* The command has a staging directory on the disk. *)
Staged(p) == proc[p].pc \in {"extract", "rename"}

(* A process is at a point of install_dep_transitively, with what it has   *)
(* downloaded and extracted up to there.                                   *)
ProcOK(p) ==
  /\ DOMAIN proc[p] = Fields /\ proc[p].pc \in PCs
  /\ proc[p].pc \in {"verify", "extract", "rename"} => proc[p].bytes \in Contents
  /\ proc[p].pc \notin {"idle", "visit", "write_lock"} => proc[p].work # <<>>
  /\ Staged(p) => proc[p].staging \in Dirs /\ ~Final(proc[p].staging)
  /\ ~Staged(p) => proc[p].staging = <<>>
  /\ proc[p].pc = "rename" => disk[proc[p].staging] = proc[p].bytes

(* What is on the disk is an artifact, under its final name a whole one.   *)
Trees ==
  /\ IsFiniteSet(Dirs)
  /\ \A d \in Dirs : /\ disk[d] \in Contents \cup {"partial"}
                     /\ Final(d) => disk[d] \in Contents

Private == \A p, q \in Procs :
             p # q /\ Staged(p) /\ Staged(q) => proc[p].staging # proc[q].staging

(* The raw urls are somewhere in what they serve. *)
Serving == /\ DOMAIN serves = DOMAIN RawServes
           /\ \A u \in DOMAIN RawServes : serves[u] \in 1 .. Len(RawServes[u])

DInv == DOMAIN proc = Procs /\ (\A p \in Procs : ProcOK(p)) /\ Trees /\ Private /\ Serving

-----------------------------------------------------------------------------
(* A process at rest. *)
LEMMA IdleFacts ==
  /\ DOMAIN Idle = Fields /\ Idle.pc = "idle" /\ Idle.staging = <<>>
  /\ Idle.root = None /\ Idle.lock = <<>> /\ Idle.visited = {}
BY DEF Idle, Fields

(* Nothing is running and nothing is installed. *)
LEMMA InitDInv == Init => DInv
<1> SUFFICES ASSUME Init PROVE DInv
  OBVIOUS
<1>1. DOMAIN proc = Procs /\ \A p \in Procs : proc[p] = Idle
  BY DEF Init
<1>2. \A p \in Procs : ProcOK(p) /\ ~Staged(p)
  BY <1>1, IdleFacts DEF ProcOK, Staged, PCs
<1>3. Dirs = {}
  BY DEF Init, Dirs
<1>4. Trees
  BY <1>3, FS_EmptySet DEF Trees
<1>5. Serving
  <2>1. \A u \in DOMAIN RawServes : 1 \in 1 .. Len(RawServes[u])
    <3> SUFFICES ASSUME NEW u \in DOMAIN RawServes PROVE 1 \in 1 .. Len(RawServes[u])
      OBVIOUS
    <3>1. RawServes[u] \in Seq(Contents) /\ RawServes[u] # <<>>
      BY ServesArtifacts
    <3> QED BY <3>1
  <2> QED BY <2>1 DEF Init, Serving
<1> QED BY <1>1, <1>2, <1>4, <1>5 DEF DInv, Private

(* The name STAGING_COUNTER and the pid give is new, and not a final one.  *)
LEMMA StagingDirIsNew ==
  ASSUME IsFiniteSet(Dirs), NEW dir, Final(dir), "staging" \in DOMAIN dir,
         dir = [k \in DOMAIN dir |-> dir[k]]
  PROVE  StagingDir(dir) \notin Dirs /\ ~Final(StagingDir(dir))
<1> DEFINE D == {e \in Dirs : [e EXCEPT !.staging = 0] = dir}
           used == {d.staging : d \in D}
           N == 1 .. Cardinality(used) + 1
<1>1. IsFiniteSet(D)
  <2>1. D \in SUBSET Dirs
    OBVIOUS
  <2> HIDE DEF D
  <2> QED BY <2>1, FS_Subset
<1>2. IsFiniteSet(used) /\ Cardinality(used) \in Nat
  <2> DEFINE f == [d \in D |-> d.staging]
  <2>1. f \in Surjection(D, used)
    BY DEF Surjection
  <2> HIDE DEF f, D, used
  <2> QED BY <1>1, <2>1, FS_Surjection, FS_CardinalityType
<1>3. \E n \in N : n \notin used
  <2> SUFFICES ASSUME N \in SUBSET used PROVE FALSE
    OBVIOUS
  <2> HIDE DEF used
  <2>1. Cardinality(N) = Cardinality(used) + 1
    BY <1>2, FS_Interval
  <2>2. Cardinality(N) <= Cardinality(used)
    <3> HIDE DEF N
    <3> QED BY <1>2, FS_Subset
  <2> HIDE DEF N
  <2> QED BY <1>2, <2>1, <2>2
<1>4. PICK n : n = CHOOSE m \in N : m \notin used
  OBVIOUS
<1>5. n \in N /\ n \notin used
  BY <1>3, <1>4
<1>6. StagingDir(dir) = [dir EXCEPT !.staging = n]
  BY <1>4 DEF StagingDir, Dirs
<1> HIDE DEF N
<1>7. PICK s : s = StagingDir(dir)
  OBVIOUS
<1>8. s.staging = n
  BY <1>6, <1>7
<1>9. n # 0
  BY <1>2, <1>5 DEF N
<1>10. [s EXCEPT !.staging = 0] = dir
  <2>1. dir.staging = 0
    BY DEF Final
  <2> QED BY <1>6, <1>7, <2>1
<1>11. s \notin Dirs
  BY <1>5, <1>8, <1>10
<1> QED BY <1>7, <1>8, <1>9, <1>11 DEF Final

-----------------------------------------------------------------------------
(* A step of command p that leaves the others' staging directories alone.  *)
LEMMA StepDInv ==
  ASSUME DInv, NEW p \in Procs, DOMAIN proc' = Procs, ProcOK(p)', Trees',
         UNCHANGED serves,
         \A q \in Procs \ {p} : proc'[q] = proc[q],
         \A q \in Procs \ {p} : Staged(q) =>
            /\ proc[q].staging \in Dirs' /\ disk'[proc[q].staging] = disk[proc[q].staging]
            /\ Staged(p)' => proc'[p].staging # proc[q].staging
  PROVE  DInv'
<1>1. ASSUME NEW q \in Procs \ {p}
      PROVE  ProcOK(q)' /\ (Staged(q)' <=> Staged(q)) /\ proc'[q].staging = proc[q].staging
  <2>1. proc'[q] = proc[q] /\ ProcOK(q)
    BY DEF DInv
  <2>2. Staged(q)' <=> Staged(q)
    BY <2>1 DEF Staged
  <2>3. CASE Staged(q)
    BY <2>1, <2>2, <2>3 DEF ProcOK, Final
  <2>4. CASE ~Staged(q)
    BY <2>1, <2>2, <2>4 DEF ProcOK, Staged
  <2> QED BY <2>1, <2>2, <2>3, <2>4
<1>2. \A q \in Procs : ProcOK(q)'
  BY <1>1
<1>3. Private'
  BY <1>1 DEF DInv, Private
<1>4. Serving'
  BY DEF DInv, Serving
<1> QED BY <1>2, <1>3, <1>4 DEF DInv

(* A step that touches nothing on the disk. *)
LEMMA MemoryStep ==
  ASSUME DInv, NEW p \in Procs, UNCHANGED <<disk, serves>>, DOMAIN proc' = Procs,
         \A q \in Procs \ {p} : proc'[q] = proc[q],
         ProcOK(p)', Staged(p)' => Staged(p) /\ proc'[p].staging = proc[p].staging
  PROVE  DInv'
<1>1. Trees'
  BY DEF DInv, Trees, Dirs
<1>2. \A q \in Procs \ {p} : Staged(q) =>
         /\ proc[q].staging \in Dirs' /\ disk'[proc[q].staging] = disk[proc[q].staging]
         /\ Staged(p)' => proc'[p].staging # proc[q].staging
  BY DEF DInv, ProcOK, Private, Dirs
<1> QED BY <1>1, <1>2, StepDInv

(* A dependency that fails: the command goes on without it. *)
LEMMA FailedProc ==
  ASSUME DInv, NEW p \in Procs, Failed(p)
  PROVE  /\ DOMAIN proc' = Procs /\ \A q \in Procs \ {p} : proc'[q] = proc[q]
         /\ ProcOK(p)' /\ ~Staged(p)' /\ proc'[p].pc = "visit"
<1>1. DOMAIN proc = Procs /\ DOMAIN proc[p] = Fields
  BY DEF DInv, ProcOK
<1>2. /\ DOMAIN proc' = Procs /\ \A q \in Procs \ {p} : proc'[q] = proc[q]
      /\ DOMAIN proc'[p] = Fields /\ proc'[p].pc = "visit" /\ proc'[p].staging = <<>>
  BY <1>1 DEF Failed, Fields
<1> QED BY <1>2 DEF ProcOK, Staged, PCs

(* A command begins. *)
LEMMA CommandDInv ==
  ASSUME DInv, NEW p \in Procs, proc[p].pc = "idle", UNCHANGED <<disk, serves>>,
         NEW x, DOMAIN x = Fields, x.staging = <<>>,
         x.pc = "visit" \/ (x.pc = "write_toml" /\ x.work # <<>>),
         proc' = [proc EXCEPT ![p] = x]
  PROVE  DInv'
<1>1. DOMAIN proc = Procs
  BY DEF DInv
<1>2. DOMAIN proc' = Procs /\ proc'[p] = x /\ \A q \in Procs \ {p} : proc'[q] = proc[q]
  BY <1>1
<1>3. ProcOK(p)' /\ ~Staged(p)'
  BY <1>2 DEF ProcOK, Staged, PCs
<1> QED BY <1>2, <1>3, MemoryStep

(* tinox install begins. *)
LEMMA InstallDInv ==
  ASSUME DInv, NEW p \in Procs, NEW r \in Roots, NEW u, cmd_install(p, r, u)
  PROVE  DInv'
<1> DEFINE m == parse_manifest(toml[r])
           w == Work(m.dependencies, m)
           x == [Idle EXCEPT !.pc = "visit", !.root = r, !.update = u, !.install = TRUE,
                             !.lock = lock[r], !.work = w]
<1>1. proc[p].pc = "idle" /\ UNCHANGED <<disk, serves>>
  BY DEF cmd_install
<1>2. CASE UNCHANGED proc
  <2>1. UNCHANGED <<disk, serves, proc>>
    BY <1>1, <1>2
  <2> QED BY <2>1 DEF DInv, ProcOK, Staged, Trees, Private, Serving, Dirs
<1>3. CASE proc' = [proc EXCEPT ![p] = x]
  <2> HIDE DEF w, m
  <2>1. DOMAIN x = Fields /\ x.pc = "visit" /\ x.staging = <<>>
    BY IdleFacts DEF Fields
  <2> HIDE DEF x
  <2>2. x.pc = "visit" \/ (x.pc = "write_toml" /\ x.work # <<>>)
    BY <2>1
  <2> QED BY <1>1, <1>3, <2>1, <2>2, CommandDInv
<1> QED BY <1>2, <1>3 DEF cmd_install

(* tinox add begins. *)
LEMMA AddDInv ==
  ASSUME DInv, NEW p \in Procs, NEW r \in Roots, NEW d, cmd_add(p, r, d)
  PROVE  DInv'
<1>1. PICK t, m :
        proc' = [proc EXCEPT ![p] = [Idle EXCEPT !.pc = "write_toml", !.root = r,
                                                 !.toml = t, !.work = Work(<<d>>, m)]]
  BY DEF cmd_add
<1>2. proc[p].pc = "idle" /\ UNCHANGED <<disk, serves>>
  BY DEF cmd_add
<1> DEFINE w == Work(<<d>>, m)
           x == [Idle EXCEPT !.pc = "write_toml", !.root = r, !.toml = t, !.work = w]
<1>3. w # <<>>
  <2>1. DOMAIN w = 1 .. 1
    BY DEF Work
  <2> QED BY <2>1
<1> HIDE DEF w
<1>4. /\ DOMAIN x = Fields /\ x.pc = "write_toml" /\ x.work # <<>> /\ x.staging = <<>>
      /\ proc' = [proc EXCEPT ![p] = x]
  BY <1>1, <1>3, IdleFacts DEF Fields, w
<1> HIDE DEF x
<1> QED BY <1>2, <1>4, CommandDInv

(* The walk takes the next dependency. *)
LEMMA VisitDInv ==
  ASSUME DInv, NEW p \in Procs, visit(p)
  PROVE  DInv'
<1>1. /\ DOMAIN proc = Procs /\ DOMAIN proc[p] = Fields
      /\ proc[p].pc = "visit" /\ proc[p].work # <<>> /\ UNCHANGED <<disk, serves>>
      /\ proc[p].staging = <<>>
  BY DEF DInv, ProcOK, Staged, visit
<1>2. \/ proc' = [proc EXCEPT ![p].work = Tail(@)]
      \/ \E v, f : proc' = [proc EXCEPT ![p].visited = v, ![p].pc = "visit",
                                        ![p].failed = f, ![p].work = Tail(@)]
      \/ \E v, f : \E pc \in {"descend", "get"} :
            proc' = [proc EXCEPT ![p].visited = v, ![p].pc = pc,
                                 ![p].failed = f, ![p].work = @]
  BY DEF visit
<1>3. /\ DOMAIN proc' = Procs /\ \A q \in Procs \ {p} : proc'[q] = proc[q]
      /\ DOMAIN proc'[p] = Fields /\ proc'[p].staging = <<>>
      /\ \/ proc'[p].pc = "visit"
         \/ proc'[p].pc \in {"descend", "get"} /\ proc'[p].work # <<>>
  <2>1. CASE proc' = [proc EXCEPT ![p].work = Tail(@)]
    BY <1>1, <2>1 DEF Fields
  <2>2. ASSUME NEW v, NEW f, proc' = [proc EXCEPT ![p].visited = v, ![p].pc = "visit",
                                                  ![p].failed = f, ![p].work = Tail(@)]
        PROVE  /\ DOMAIN proc' = Procs /\ \A q \in Procs \ {p} : proc'[q] = proc[q]
               /\ DOMAIN proc'[p] = Fields /\ proc'[p].staging = <<>> /\ proc'[p].pc = "visit"
    BY <1>1, <2>2 DEF Fields
  <2>3. ASSUME NEW v, NEW f, NEW pc \in {"descend", "get"},
               proc' = [proc EXCEPT ![p].visited = v, ![p].pc = pc, ![p].failed = f, ![p].work = @]
        PROVE  /\ DOMAIN proc' = Procs /\ \A q \in Procs \ {p} : proc'[q] = proc[q]
               /\ DOMAIN proc'[p] = Fields /\ proc'[p].staging = <<>>
               /\ proc'[p].pc = pc /\ proc'[p].work # <<>>
    BY <1>1, <2>3 DEF Fields
  <2>4. CASE \E v, f : proc' = [proc EXCEPT ![p].visited = v, ![p].pc = "visit",
                                           ![p].failed = f, ![p].work = Tail(@)]
    <3>1. PICK v, f : proc' = [proc EXCEPT ![p].visited = v, ![p].pc = "visit",
                                           ![p].failed = f, ![p].work = Tail(@)]
      BY <2>4
    <3>2. /\ DOMAIN proc' = Procs /\ \A q \in Procs \ {p} : proc'[q] = proc[q]
          /\ DOMAIN proc'[p] = Fields /\ proc'[p].staging = <<>> /\ proc'[p].pc = "visit"
      BY <2>2, <3>1
    <3> QED BY <3>2
  <2>5. CASE \E v, f : \E pc \in {"descend", "get"} :
                proc' = [proc EXCEPT ![p].visited = v, ![p].pc = pc,
                                     ![p].failed = f, ![p].work = @]
    <3>1. PICK v, f : \E pc \in {"descend", "get"} :
                proc' = [proc EXCEPT ![p].visited = v, ![p].pc = pc,
                                     ![p].failed = f, ![p].work = @]
      BY <2>5
    <3>2. PICK pc \in {"descend", "get"} :
                proc' = [proc EXCEPT ![p].visited = v, ![p].pc = pc,
                                     ![p].failed = f, ![p].work = @]
      BY <3>1
    <3>3. /\ DOMAIN proc' = Procs /\ \A q \in Procs \ {p} : proc'[q] = proc[q]
          /\ DOMAIN proc'[p] = Fields /\ proc'[p].staging = <<>>
          /\ proc'[p].pc = pc /\ proc'[p].work # <<>>
      BY <2>3, <3>2
    <3> QED BY <3>3
  <2> QED BY <1>2, <2>1, <2>4, <2>5
<1>4. ProcOK(p)' /\ ~Staged(p)'
  BY <1>3 DEF ProcOK, Staged, PCs
<1> QED BY <1>1, <1>3, <1>4, MemoryStep

(* The download: an artifact, a failure or another attempt. *)
LEMMA GetDInv ==
  ASSUME DInv, NEW p \in Procs, get_with_retry(p)
  PROVE  DInv'
<1>1. /\ DOMAIN proc = Procs /\ DOMAIN proc[p] = Fields
      /\ proc[p].pc = "get" /\ proc[p].work # <<>> /\ UNCHANGED <<disk, serves>>
      /\ proc[p].staging = <<>>
  BY DEF DInv, ProcOK, Staged, get_with_retry
<1>2. CASE Failed(p)
  BY <1>1, <1>2, FailedProc, MemoryStep
<1>3. CASE proc' = [proc EXCEPT ![p].attempts = @ + 1]
  <2>1. /\ DOMAIN proc' = Procs /\ \A q \in Procs \ {p} : proc'[q] = proc[q]
        /\ DOMAIN proc'[p] = Fields /\ proc'[p].staging = <<>>
        /\ proc'[p].pc = "get" /\ proc'[p].work # <<>>
    BY <1>1, <1>3 DEF Fields
  <2>2. ProcOK(p)' /\ ~Staged(p)'
    BY <2>1 DEF ProcOK, Staged, PCs
  <2> QED BY <1>1, <2>1, <2>2, MemoryStep
<1>4. ASSUME Known(Url(p)), proc' = [proc EXCEPT ![p].pc = "verify", ![p].bytes = Served(Url(p)),
                                                 ![p].attempts = 0]
      PROVE  DInv'
  <2>1. Served(Url(p)) \in Contents
    <3>1. CASE Url(p)[2] = ""
      <4>1. PICK u \in DOMAIN RawServes : u = Url(p)[1]
        BY <1>4, <3>1 DEF Known
      <4>2. serves[u] \in 1 .. Len(RawServes[u]) /\ RawServes[u] \in Seq(Contents)
        BY ServesArtifacts DEF DInv, Serving
      <4>3. RawServes[u][serves[u]] \in Contents
        BY <4>2
      <4> QED BY <3>1, <4>1, <4>3 DEF Served
    <3>2. CASE Url(p)[2] # ""
      BY <1>4, <3>2, ServesArtifacts DEF Known, Served
    <3> QED BY <3>1, <3>2
  <2>2. /\ DOMAIN proc' = Procs /\ \A q \in Procs \ {p} : proc'[q] = proc[q]
        /\ DOMAIN proc'[p] = Fields /\ proc'[p].staging = <<>>
        /\ proc'[p].pc = "verify" /\ proc'[p].work # <<>> /\ proc'[p].bytes \in Contents
    BY <1>1, <1>4, <2>1 DEF Fields
  <2>3. ProcOK(p)' /\ ~Staged(p)'
    BY <2>2 DEF ProcOK, Staged, PCs
  <2> QED BY <1>1, <2>2, <2>3, MemoryStep
<1> QED BY <1>2, <1>3, <1>4 DEF get_with_retry

(* The checksum and the new staging directory. *)
LEMMA VerifyDInv ==
  ASSUME DInv, NEW p \in Procs, verify_and_stage(p)
  PROVE  DInv'
<1>1. /\ DOMAIN proc = Procs /\ DOMAIN proc[p] = Fields
      /\ proc[p].pc = "verify" /\ proc[p].work # <<>> /\ UNCHANGED serves
      /\ proc[p].bytes \in Contents /\ IsFiniteSet(Dirs)
  BY DEF DInv, ProcOK, Staged, verify_and_stage, Trees
<1>2. CASE Failed(p) /\ UNCHANGED disk
  BY <1>1, <1>2, FailedProc, MemoryStep
<1>3. ASSUME NEW s, s = StagingDir(Target(p)), disk' = With(disk, s, "partial"),
             proc' = [proc EXCEPT ![p].pc = "extract", ![p].staging = s]
      PROVE  DInv'
  <2>1. s \notin Dirs /\ ~Final(s)
    <3>1. /\ Final(Target(p)) /\ "staging" \in DOMAIN Target(p)
          /\ Target(p) = [k \in DOMAIN Target(p) |-> Target(p)[k]]
      BY DEF Target, resolved_install_dir, Final
    <3> QED BY <1>1, <1>3, <3>1, StagingDirIsNew
  <2>2. Dirs' = Dirs \cup {s} /\ disk'[s] = "partial" /\ \A d \in Dirs : disk'[d] = disk[d]
    BY <1>3, <2>1 DEF With, Dirs
  <2>3. Trees'
    <3>1. IsFiniteSet(Dirs \cup {s})
      BY <1>1, FS_AddElement
    <3>2. \A d \in Dirs' : /\ disk'[d] \in Contents \cup {"partial"}
                           /\ Final(d) => disk'[d] \in Contents
      BY <2>1, <2>2 DEF DInv, Trees
    <3> QED BY <2>2, <3>1, <3>2 DEF Trees, Final
  <2>4. /\ DOMAIN proc' = Procs /\ \A q \in Procs \ {p} : proc'[q] = proc[q]
        /\ DOMAIN proc'[p] = Fields /\ proc'[p].staging = s
        /\ proc'[p].pc = "extract" /\ proc'[p].work # <<>> /\ proc'[p].bytes \in Contents
    BY <1>1, <1>3 DEF Fields
  <2>5. ProcOK(p)'
    BY <2>1, <2>2, <2>4 DEF ProcOK, Staged, PCs, Final
  <2>6. \A q \in Procs \ {p} : Staged(q) =>
           /\ proc[q].staging \in Dirs' /\ disk'[proc[q].staging] = disk[proc[q].staging]
           /\ Staged(p)' => proc'[p].staging # proc[q].staging
    BY <2>1, <2>2, <2>4 DEF DInv, ProcOK
  <2> QED BY <1>1, <2>3, <2>4, <2>5, <2>6, StepDInv
<1> QED BY <1>2, <1>3 DEF verify_and_stage

(* A staging directory is dropped. *)
LEMMA DropDInv ==
  ASSUME DInv, NEW p \in Procs, Staged(p)
  PROVE  LET s == proc[p].staging
         IN  /\ IsFiniteSet(Dirs \ {s})
             /\ DOMAIN Without(disk, s) = Dirs \ {s}
             /\ \A d \in Dirs \ {s} : Without(disk, s)[d] = disk[d]
             /\ \A q \in Procs \ {p} : Staged(q) => proc[q].staging \in Dirs \ {s}
<1> DEFINE s == proc[p].staging
<1>1. IsFiniteSet(Dirs \ {s})
  BY FS_RemoveElement DEF DInv, Trees
<1>2. DOMAIN Without(disk, s) = Dirs \ {s} /\ \A d \in Dirs \ {s} : Without(disk, s)[d] = disk[d]
  BY DEF Without, Dirs
<1>3. \A q \in Procs \ {p} : Staged(q) => proc[q].staging \in Dirs \ {s}
  BY DEF DInv, ProcOK, Private
<1> QED BY <1>1, <1>2, <1>3

(* The extraction, complete or undone. *)
LEMMA ExtractDInv ==
  ASSUME DInv, NEW p \in Procs, extract(p)
  PROVE  DInv'
<1>1. PICK s : s = proc[p].staging
  OBVIOUS
<1>2. /\ DOMAIN proc = Procs /\ DOMAIN proc[p] = Fields /\ Staged(p)
      /\ proc[p].pc = "extract" /\ proc[p].work # <<>> /\ UNCHANGED serves
      /\ proc[p].bytes \in Contents /\ s \in Dirs /\ ~Final(s)
  BY <1>1 DEF DInv, ProcOK, Staged, extract
<1>3. CASE disk' = With(disk, s, proc[p].bytes) /\ Go(p, "rename")
  <2>1. Dirs' = Dirs /\ disk'[s] = proc[p].bytes /\ \A d \in Dirs : d # s => disk'[d] = disk[d]
    BY <1>2, <1>3 DEF With, Dirs
  <2>2. Trees'
    <3>1. \A d \in Dirs' : /\ disk'[d] \in Contents \cup {"partial"}
                           /\ Final(d) => disk'[d] \in Contents
      BY <1>2, <2>1 DEF DInv, Trees
    <3> QED BY <2>1, <3>1 DEF DInv, Trees, Final
  <2>3. /\ DOMAIN proc' = Procs /\ \A q \in Procs \ {p} : proc'[q] = proc[q]
        /\ DOMAIN proc'[p] = Fields /\ proc'[p].staging = s /\ proc'[p].pc = "rename"
        /\ proc'[p].work # <<>> /\ proc'[p].bytes = proc[p].bytes
    BY <1>1, <1>2, <1>3 DEF Fields, Go
  <2>4. ProcOK(p)'
    BY <1>2, <2>1, <2>3 DEF ProcOK, Staged, PCs, Final
  <2>5. \A q \in Procs \ {p} : Staged(q) =>
           /\ proc[q].staging \in Dirs' /\ disk'[proc[q].staging] = disk[proc[q].staging]
           /\ Staged(p)' => proc'[p].staging # proc[q].staging
    BY <1>1, <1>2, <2>1, <2>3 DEF DInv, ProcOK, Private
  <2> QED BY <1>2, <2>2, <2>3, <2>4, <2>5, StepDInv
<1>4. CASE disk' = Without(disk, s) /\ Failed(p)
  <2>1. /\ IsFiniteSet(Dirs \ {s}) /\ Dirs' = Dirs \ {s}
        /\ \A d \in Dirs \ {s} : disk'[d] = disk[d]
        /\ \A q \in Procs \ {p} : Staged(q) => proc[q].staging \in Dirs \ {s}
    BY <1>1, <1>2, <1>4, DropDInv DEF Dirs
  <2>2. Trees'
    BY <2>1 DEF DInv, Trees, Final
  <2>3. /\ DOMAIN proc' = Procs /\ \A q \in Procs \ {p} : proc'[q] = proc[q]
        /\ ProcOK(p)' /\ ~Staged(p)'
    BY <1>4, FailedProc
  <2> QED BY <1>2, <2>1, <2>2, <2>3, StepDInv
<1> QED BY <1>1, <1>3, <1>4 DEF extract

(* The rename, or the removal of a copy that came too late. *)
LEMMA RenameDInv ==
  ASSUME DInv, NEW p \in Procs, rename(p)
  PROVE  DInv'
<1>1. PICK s : s = proc[p].staging
  OBVIOUS
<1>2. PICK T : T = Target(p)
  OBVIOUS
<1>3. /\ DOMAIN proc = Procs /\ DOMAIN proc[p] = Fields /\ Staged(p)
      /\ proc[p].pc = "rename" /\ proc[p].work # <<>> /\ UNCHANGED serves
      /\ proc[p].bytes \in Contents /\ s \in Dirs /\ ~Final(s) /\ disk[s] = proc[p].bytes
  BY <1>1 DEF DInv, ProcOK, Staged, rename
<1>4. Final(T) /\ T # s
  BY <1>2, <1>3 DEF Target, resolved_install_dir, Final
<1>5. /\ IsFiniteSet(Dirs \ {s}) /\ DOMAIN Without(disk, s) = Dirs \ {s}
      /\ \A d \in Dirs \ {s} : Without(disk, s)[d] = disk[d]
      /\ \A q \in Procs \ {p} : Staged(q) => proc[q].staging \in Dirs \ {s} /\ proc[q].staging # T
  BY <1>1, <1>3, <1>4, DropDInv DEF DInv, ProcOK
<1>6. \/ T \in Dirs /\ disk' = Without(disk, s)
      \/ T \notin Dirs /\ disk' = With(Without(disk, s), T, proc[p].bytes)
  BY <1>1, <1>2, <1>3 DEF rename, Dirs
<1>7. /\ Dirs' = (Dirs \ {s}) \cup {T}
      /\ \A d \in Dirs \ {s} : d # T => disk'[d] = disk[d]
      /\ disk'[T] \in Contents
  <2>1. CASE T \in Dirs /\ disk' = Without(disk, s)
    <3>1. Dirs' = Dirs \ {s} /\ T \in Dirs \ {s}
      BY <1>4, <1>5, <2>1 DEF Dirs
    <3>2. disk[T] \in Contents
      BY <1>4, <2>1 DEF DInv, Trees
    <3> QED BY <1>5, <2>1, <3>1, <3>2
  <2>2. CASE T \notin Dirs /\ disk' = With(Without(disk, s), T, proc[p].bytes)
    <3>1. /\ Dirs' = (Dirs \ {s}) \cup {T} /\ disk'[T] = proc[p].bytes
          /\ \A d \in Dirs \ {s} : disk'[d] = Without(disk, s)[d]
      BY <1>5, <2>2 DEF With, Dirs
    <3> QED BY <1>3, <1>5, <3>1
  <2> QED BY <1>6, <2>1, <2>2
<1>8. Trees'
  <2>1. IsFiniteSet((Dirs \ {s}) \cup {T})
    BY <1>5, FS_AddElement
  <2>2. \A d \in Dirs' : /\ disk'[d] \in Contents \cup {"partial"}
                         /\ Final(d) => disk'[d] \in Contents
    BY <1>7 DEF DInv, Trees
  <2> QED BY <1>7, <2>1, <2>2 DEF Trees, Final
<1>9. /\ DOMAIN proc' = Procs /\ \A q \in Procs \ {p} : proc'[q] = proc[q]
      /\ DOMAIN proc'[p] = Fields /\ proc'[p].staging = <<>> /\ proc'[p].pc = "descend"
      /\ proc'[p].work = proc[p].work
  BY <1>3 DEF rename, Fields
<1>10. ProcOK(p)' /\ ~Staged(p)'
  BY <1>3, <1>9 DEF ProcOK, Staged, PCs
<1>11. \A q \in Procs \ {p} : Staged(q) =>
          proc[q].staging \in Dirs' /\ disk'[proc[q].staging] = disk[proc[q].staging]
  BY <1>5, <1>7
<1> QED BY <1>3, <1>8, <1>9, <1>10, <1>11, StepDInv

(* The walk goes on, a file is written, or the command ends. *)
LEMMA WalkDInv ==
  ASSUME DInv, NEW p \in Procs,
         descend(p) \/ finish(p) \/ write_lock(p) \/ write_toml(p) \/ Crash(p)
  PROVE  DInv'
<1>1. DOMAIN proc = Procs /\ DOMAIN proc[p] = Fields /\ ProcOK(p)
  BY DEF DInv, ProcOK
<1>2. UNCHANGED <<disk, serves>>
  BY DEF descend, finish, write_lock, write_toml, Crash
<1>3. ASSUME ~Staged(p), DOMAIN proc' = Procs, \A q \in Procs \ {p} : proc'[q] = proc[q],
             DOMAIN proc'[p] = Fields, proc'[p].staging = <<>>,
             proc'[p].pc \in {"visit", "write_lock"}
      PROVE  DInv'
  <2>1. ProcOK(p)' /\ ~Staged(p)'
    BY <1>3 DEF ProcOK, Staged, PCs
  <2> QED BY <1>2, <1>3, <2>1, MemoryStep
<1>4. CASE proc' = [proc EXCEPT ![p] = Idle]
  <2>1. DOMAIN proc' = Procs /\ proc'[p] = Idle /\ \A q \in Procs \ {p} : proc'[q] = proc[q]
    BY <1>1, <1>4
  <2>2. ProcOK(p)' /\ ~Staged(p)'
    BY <2>1, IdleFacts DEF ProcOK, Staged, PCs
  <2> QED BY <1>2, <2>1, <2>2, MemoryStep
<1>5. CASE descend(p)
  <2>1. PICK w : proc' = [proc EXCEPT ![p].pc = "visit", ![p].work = w]
    BY <1>5 DEF descend
  <2>2. ~Staged(p) /\ proc[p].staging = <<>>
    BY <1>1, <1>5 DEF descend, ProcOK, Staged
  <2> QED BY <1>1, <1>3, <2>1, <2>2 DEF Fields
<1>6. CASE write_toml(p)
  <2>1. PICK l : proc' = [proc EXCEPT ![p].pc = "visit", ![p].toml = <<>>, ![p].lock = l]
    BY <1>6 DEF write_toml
  <2>2. ~Staged(p) /\ proc[p].staging = <<>>
    BY <1>1, <1>6 DEF write_toml, ProcOK, Staged
  <2> QED BY <1>1, <1>3, <2>1, <2>2 DEF Fields
<1>7. CASE finish(p) /\ Go(p, "write_lock")
  <2>1. ~Staged(p) /\ proc[p].staging = <<>>
    BY <1>1, <1>7 DEF finish, ProcOK, Staged
  <2> QED BY <1>1, <1>3, <1>7, <2>1 DEF Go, Fields
<1> QED BY <1>4, <1>5, <1>6, <1>7 DEF finish, write_lock, Return, Crash

(* The steps of the surroundings. *)
LEMMA WorldDInv ==
  ASSUME DInv, (\E u \in DOMAIN RawServes : Republish(u)) \/ FreshClone \/ UNCHANGED vars
  PROVE  DInv'
<1>1. ASSUME NEW u \in DOMAIN RawServes, Republish(u)
      PROVE  DInv'
  <2>1. UNCHANGED <<disk, proc>> /\ serves[u] < Len(RawServes[u])
        /\ serves' = [serves EXCEPT ![u] = serves[u] + 1]
    BY <1>1 DEF Republish
  <2>2. Len(RawServes[u]) \in Nat /\ Serving
    BY ServesArtifacts DEF DInv
  <2>3. serves[u] + 1 \in 1 .. Len(RawServes[u])
    <3>1. \A k \in Nat : \A i \in 1 .. k : i < k => i + 1 \in 1 .. k
      OBVIOUS
    <3> QED BY <2>1, <2>2, <3>1 DEF Serving
  <2>4. Serving'
    BY <2>1, <2>2, <2>3 DEF Serving
  <2> QED BY <2>1, <2>4 DEF DInv, ProcOK, Staged, Trees, Private, Dirs
<1>2. CASE FreshClone
  <2>1. UNCHANGED <<proc, serves>> /\ Dirs' = {} /\ \A p \in Procs : proc[p].pc = "idle"
    BY <1>2 DEF FreshClone, Dirs
  <2>2. \A p \in Procs : ProcOK(p)' /\ ~Staged(p)'
    BY <2>1 DEF DInv, ProcOK, Staged
  <2>3. Trees'
    BY <2>1, FS_EmptySet DEF Trees
  <2>4. Private' /\ Serving'
    BY <2>1, <2>2 DEF DInv, Private, Serving
  <2> QED BY <2>1, <2>2, <2>3, <2>4 DEF DInv
<1>3. CASE UNCHANGED vars
  <2>1. UNCHANGED <<disk, serves, proc>>
    BY <1>3 DEF vars
  <2> QED BY <2>1 DEF DInv, ProcOK, Staged, Trees, Private, Serving, Dirs
<1> QED BY <1>1, <1>2, <1>3

(* The disk invariant is inductive. *)
LEMMA NextDInv == DInv /\ [Next]_vars => DInv'
<1> SUFFICES ASSUME DInv, [Next]_vars PROVE DInv'
  OBVIOUS
<1>1. ASSUME NEW p \in Procs, Step(p) \/ Crash(p) PROVE DInv'
  BY <1>1, VisitDInv, GetDInv, VerifyDInv, ExtractDInv, RenameDInv, WalkDInv DEF Step
<1>2. ASSUME NEW p \in Procs, NEW r \in Roots, NEW u \in BOOLEAN, cmd_install(p, r, u)
      PROVE  DInv'
  BY <1>2, InstallDInv
<1>3. ASSUME NEW p \in Procs, NEW r \in Roots, NEW d \in Additions, cmd_add(p, r, d)
      PROVE  DInv'
  BY <1>3, AddDInv
<1> QED BY <1>1, <1>2, <1>3, WorldDInv DEF Next

(* Whichever commands race and wherever they die, the trees hold whole     *)
(* packages, and no staging directory belongs to two commands.             *)
THEOREM TreesAreWhole == Spec => []DiskSound
<1>1. DInv => DiskSound
  <2> SUFFICES ASSUME DInv PROVE DiskSound
    OBVIOUS
  <2>1. TypeOK
    BY DEF DInv, ProcOK, Staged, Trees, TypeOK, PCs
  <2>2. InstalledWhole
    BY DEF DInv, Trees, InstalledWhole
  <2>3. StagingIsPrivate
    BY DEF DInv, ProcOK, Private, StagingIsPrivate
  <2> QED BY <2>1, <2>2, <2>3 DEF DiskSound
<1> QED BY <1>1, InitDInv, NextDInv, PTL DEF Spec

-----------------------------------------------------------------------------
(* What a command carries about the dependency at the head of its work.    *)
CoordOf(x) == coord(Head(x.work).dep)
UrlOf(x)   == effective_download_url(Head(x.work).dep, Head(x.work).owning)[1]

(* It is between its url and its place on the disk. *)
Fetching(x) == x.pc \in {"get", "verify", "extract", "rename"}

(* The command has not recorded the coordinate itself. *)
Fresh(x, k) == k \notin x.visited \/ (Fetching(x) /\ k = CoordOf(x))

(* A running command that has read its project's lock knows every entry, and *)
(* unchanged as long as the command has not recorded that coordinate; what   *)
(* it stages passed the checksum.                                            *)
Pinned(x, l) == x.pc # "idle" =>
  /\ x.root \in Roots
  /\ Fetching(x) => CoordOf(x) \in x.visited
  /\ x.pc # "write_toml" =>
       \A k \in DOMAIN l[x.root] : /\ k \in DOMAIN x.lock
                                   /\ Fresh(x, k) => x.lock[k] = l[x.root][k]
  /\ \A k \in DOMAIN x.lock : x.lock[k].sha256 # None
  /\ x.pc \in {"extract", "rename"} =>
       verify_checksum(Head(x.work).dep, UrlOf(x), x.lock, x.update, Digest[x.bytes])

(* One command per project, and no lock entry without a digest. *)
KInv ==
  /\ DOMAIN lock = Roots
  /\ \A r \in Roots : \A k \in DOMAIN lock[r] : lock[r][k].sha256 # None
  /\ \A p \in Procs : Pinned(proc[p], lock)
  /\ \A p, q \in Procs :
       p # q /\ proc[p].pc # "idle" /\ proc[q].pc # "idle" => proc[p].root # proc[q].root

(* Pinned is about the values alone. *)
LEMMA PinnedThen ==
  ASSUME NEW p, NEW x, NEW l, proc'[p] = x, lock' = l
  PROVE  Pinned(proc[p], lock)' <=> Pinned(x, l)
BY DEF Pinned, Fetching, Fresh

(* A step of command p alone, with the lock files as they are. *)
LEMMA StepKInv ==
  ASSUME KInv, NEW p \in Procs, UNCHANGED lock,
         \A q \in Procs \ {p} : proc'[q] = proc[q],
         Pinned(proc'[p], lock),
         proc'[p].pc # "idle" =>
            \A q \in Procs \ {p} : proc[q].pc # "idle" => proc[q].root # proc'[p].root
  PROVE  KInv'
<1>1. ASSUME NEW q \in Procs PROVE Pinned(proc[q], lock)'
  <2>1. Pinned(proc'[q], lock)
    <3>1. CASE q = p
      BY <3>1
    <3>2. CASE q # p
      BY <3>2 DEF KInv
    <3> QED BY <3>1, <3>2
  <2>2. PICK x : x = proc'[q]
    OBVIOUS
  <2>3. PICK l : l = lock
    OBVIOUS
  <2>4. proc'[q] = x /\ lock' = l /\ Pinned(x, l)
    BY <2>1, <2>2, <2>3
  <2> QED BY <2>4, PinnedThen
<1>2. ASSUME NEW a \in Procs, NEW b \in Procs, a # b, proc'[a].pc # "idle", proc'[b].pc # "idle"
      PROVE  proc'[a].root # proc'[b].root
  <2>1. CASE a = p
    BY <1>2, <2>1
  <2>2. CASE b = p
    BY <1>2, <2>2
  <2>3. CASE a # p /\ b # p
    BY <1>2, <2>3 DEF KInv
  <2> QED BY <2>1, <2>2, <2>3
<1>3. /\ DOMAIN lock' = Roots
      /\ \A r \in Roots : \A k \in DOMAIN lock'[r] : lock'[r][k].sha256 # None
  BY DEF KInv
<1> QED BY <1>1, <1>2, <1>3 DEF KInv

(* A step that keeps what the command knows. *)
LEMMA QuietKInv ==
  ASSUME KInv, NEW p \in Procs, UNCHANGED lock, proc[p].pc # "idle",
         \A q \in Procs \ {p} : proc'[q] = proc[q],
         proc'[p].root = proc[p].root,
         Pinned(proc'[p], lock)
  PROVE  KInv'
<1>1. \A q \in Procs \ {p} : proc[q].pc # "idle" => proc[q].root # proc'[p].root
  BY DEF KInv
<1> QED BY <1>1, StepKInv

(* A command begins with the lock of its project. *)
LEMMA CommandKInv ==
  ASSUME KInv, NEW p \in Procs, NEW r \in Roots, Free(r), UNCHANGED lock, NEW x,
         \A q \in Procs \ {p} : proc'[q] = proc[q], proc'[p] = x,
         x.root = r,
         (x.pc = "visit" /\ x.lock = lock[r]) \/ (x.pc = "write_toml" /\ x.lock = <<>>)
  PROVE  KInv'
<1>1. Pinned(x, lock)
  BY DEF KInv, Pinned, Fetching
<1>2. \A q \in Procs \ {p} : proc[q].root # r
  BY DEF Free
<1> QED BY <1>1, <1>2, StepKInv

(* tinox install and tinox add. *)
LEMMA CommandsKInv ==
  ASSUME DInv, KInv, NEW p \in Procs, NEW r \in Roots,
         (\E u \in BOOLEAN : cmd_install(p, r, u)) \/ (\E d \in Additions : cmd_add(p, r, d))
  PROVE  KInv'
<1>1. Free(r) /\ UNCHANGED lock /\ DOMAIN proc = Procs
  BY DEF cmd_install, cmd_add, DInv
<1>2. CASE UNCHANGED proc
  BY <1>1, <1>2 DEF KInv, Pinned, Fetching, Fresh
<1>3. ASSUME NEW u, NEW w,
             proc' = [proc EXCEPT ![p] = [Idle EXCEPT !.pc = "visit", !.root = r, !.update = u,
                                             !.install = TRUE, !.lock = lock[r], !.work = w]]
      PROVE  KInv'
  <2>1. PICK x : x = [Idle EXCEPT !.pc = "visit", !.root = r, !.update = u,
                                  !.install = TRUE, !.lock = lock[r], !.work = w]
    OBVIOUS
  <2>2. x.pc = "visit" /\ x.root = r /\ x.lock = lock[r]
    BY <2>1, IdleFacts DEF Fields
  <2>3. proc'[p] = x /\ \A q \in Procs \ {p} : proc'[q] = proc[q]
    BY <1>1, <1>3, <2>1
  <2>4. (x.pc = "visit" /\ x.lock = lock[r]) \/ (x.pc = "write_toml" /\ x.lock = <<>>)
    BY <2>2
  <2> QED BY <1>1, <2>2, <2>3, <2>4, CommandKInv
<1>4. ASSUME NEW t, NEW w,
             proc' = [proc EXCEPT ![p] = [Idle EXCEPT !.pc = "write_toml", !.root = r,
                                                      !.toml = t, !.work = w]]
      PROVE  KInv'
  <2>1. PICK x : x = [Idle EXCEPT !.pc = "write_toml", !.root = r, !.toml = t, !.work = w]
    OBVIOUS
  <2>2. x.pc = "write_toml" /\ x.root = r /\ x.lock = <<>>
    BY <2>1, IdleFacts DEF Fields
  <2>3. proc'[p] = x /\ \A q \in Procs \ {p} : proc'[q] = proc[q]
    BY <1>1, <1>4, <2>1
  <2> QED BY <1>1, <2>2, <2>3, CommandKInv
<1>5. ASSUME NEW u \in BOOLEAN, cmd_install(p, r, u) PROVE KInv'
  <2>1. UNCHANGED proc \/ \E w :
          proc' = [proc EXCEPT ![p] = [Idle EXCEPT !.pc = "visit", !.root = r, !.update = u,
                                           !.install = TRUE, !.lock = lock[r], !.work = w]]
    BY <1>5 DEF cmd_install
  <2> QED BY <1>2, <1>3, <2>1
<1>6. ASSUME NEW d \in Additions, cmd_add(p, r, d) PROVE KInv'
  <2>1. PICK t, w : proc' = [proc EXCEPT ![p] = [Idle EXCEPT !.pc = "write_toml", !.root = r,
                                                             !.toml = t, !.work = w]]
    BY <1>6 DEF cmd_add
  <2> QED BY <1>4, <2>1
<1> QED BY <1>5, <1>6

(* The walk up to the download: what it visits it has not recorded before. *)
LEMMA VisitKInv ==
  ASSUME DInv, KInv, NEW p \in Procs, visit(p)
  PROVE  KInv'
<1>1. /\ DOMAIN proc = Procs /\ DOMAIN proc[p] = Fields /\ UNCHANGED lock
      /\ proc[p].pc = "visit" /\ Pinned(proc[p], lock)
  BY DEF DInv, ProcOK, visit, KInv
<1>2. PICK c : c = CoordOf(proc[p])
  OBVIOUS
<1>3. \/ proc' = [proc EXCEPT ![p].work = Tail(@)]
      \/ /\ c \notin proc[p].visited
         /\ \E f, w : \E pc \in {"visit", "descend"} :
              proc' = [proc EXCEPT ![p].visited = @ \cup {c}, ![p].pc = pc,
                                   ![p].failed = f, ![p].work = w]
      \/ /\ c \notin proc[p].visited
         /\ \E f : proc' = [proc EXCEPT ![p].visited = @ \cup {c}, ![p].pc = "get",
                                        ![p].failed = f, ![p].work = @]
  BY <1>2 DEF visit, CoordOf, Dep
<1>4. CASE proc' = [proc EXCEPT ![p].work = Tail(@)]
  <2>1. PICK x : x = proc'[p]
    OBVIOUS
  <2>2. /\ \A q \in Procs \ {p} : proc'[q] = proc[q]
        /\ x.pc = "visit" /\ x.root = proc[p].root /\ x.lock = proc[p].lock
        /\ x.visited = proc[p].visited
    BY <1>1, <1>4, <2>1 DEF Fields
  <2>3. Pinned(x, lock)
    BY <1>1, <2>2 DEF Pinned, Fresh, Fetching
  <2> QED BY <1>1, <2>1, <2>2, <2>3, QuietKInv
<1>5. ASSUME NEW f, NEW w, NEW pc \in {"visit", "descend"},
             proc' = [proc EXCEPT ![p].visited = @ \cup {c}, ![p].pc = pc,
                                  ![p].failed = f, ![p].work = w]
      PROVE  KInv'
  <2>1. PICK x : x = proc'[p]
    OBVIOUS
  <2>2. /\ \A q \in Procs \ {p} : proc'[q] = proc[q]
        /\ x.pc = pc /\ x.root = proc[p].root /\ x.lock = proc[p].lock
        /\ x.visited = proc[p].visited \cup {c}
    BY <1>1, <1>5, <2>1 DEF Fields
  <2>3. Pinned(x, lock)
    BY <1>1, <2>2 DEF Pinned, Fresh, Fetching
  <2> QED BY <1>1, <2>1, <2>2, <2>3, QuietKInv
<1>6. ASSUME NEW f, c \notin proc[p].visited,
             proc' = [proc EXCEPT ![p].visited = @ \cup {c}, ![p].pc = "get",
                                  ![p].failed = f, ![p].work = @]
      PROVE  KInv'
  <2>1. PICK x : x = proc'[p]
    OBVIOUS
  <2>2. /\ \A q \in Procs \ {p} : proc'[q] = proc[q]
        /\ x.pc = "get" /\ x.root = proc[p].root /\ x.lock = proc[p].lock
        /\ x.visited = proc[p].visited \cup {c} /\ x.work = proc[p].work
    BY <1>1, <1>6, <2>1 DEF Fields
  <2>3. CoordOf(x) = c
    BY <1>2, <2>2 DEF CoordOf
  <2>4. Pinned(x, lock)
    BY <1>1, <1>6, <2>2, <2>3 DEF Pinned, Fresh, Fetching
  <2> QED BY <1>1, <2>1, <2>2, <2>4, QuietKInv
<1> QED
  <2>1. CASE c \notin proc[p].visited /\ \E f, w : \E pc \in {"visit", "descend"} :
              proc' = [proc EXCEPT ![p].visited = @ \cup {c}, ![p].pc = pc,
                                   ![p].failed = f, ![p].work = w]
    BY <1>5, <2>1
  <2>2. CASE c \notin proc[p].visited /\ \E f :
              proc' = [proc EXCEPT ![p].visited = @ \cup {c}, ![p].pc = "get",
                                   ![p].failed = f, ![p].work = @]
    BY <1>6, <2>2
  <2> QED BY <1>3, <1>4, <2>1, <2>2

(* A dependency that fails is left behind. *)
LEMMA FailedKInv ==
  ASSUME DInv, KInv, NEW p \in Procs, proc[p].pc \notin {"idle", "write_toml"},
         UNCHANGED lock, Failed(p)
  PROVE  KInv'
<1>1. DOMAIN proc = Procs /\ DOMAIN proc[p] = Fields /\ Pinned(proc[p], lock)
  BY DEF DInv, ProcOK, KInv
<1>2. PICK x : x = proc'[p]
  OBVIOUS
<1>3. /\ \A q \in Procs \ {p} : proc'[q] = proc[q]
      /\ x.pc = "visit" /\ x.root = proc[p].root /\ x.lock = proc[p].lock
      /\ x.visited = proc[p].visited
  BY <1>1, <1>2 DEF Failed, Fields
<1>4. Pinned(x, lock)
  BY <1>1, <1>3 DEF Pinned, Fresh, Fetching
<1> QED BY <1>1, <1>2, <1>3, <1>4, QuietKInv

(* A step on the way from the url to the directory. *)
LEMMA FetchKInv ==
  ASSUME KInv, NEW p \in Procs, UNCHANGED lock, Fetching(proc[p]), NEW x, x = proc'[p],
         \A q \in Procs \ {p} : proc'[q] = proc[q],
         Fetching(x), x.root = proc[p].root, x.lock = proc[p].lock, x.work = proc[p].work,
         x.visited = proc[p].visited,
         x.pc \in {"extract", "rename"} =>
            verify_checksum(Head(x.work).dep, UrlOf(x), x.lock, x.update, Digest[x.bytes])
  PROVE  KInv'
<1>1. Pinned(proc[p], lock) /\ proc[p].pc \notin {"idle", "write_toml"} /\ x.pc # "write_toml"
  BY DEF KInv, Fetching
<1>2. CoordOf(x) = CoordOf(proc[p])
  BY DEF CoordOf
<1>3. Pinned(x, lock)
  BY <1>1, <1>2 DEF Pinned, Fresh
<1> QED BY <1>1, <1>3, QuietKInv

(* The download. *)
LEMMA GetKInv ==
  ASSUME DInv, KInv, NEW p \in Procs, get_with_retry(p)
  PROVE  KInv'
<1>1. /\ DOMAIN proc = Procs /\ DOMAIN proc[p] = Fields
      /\ proc[p].pc = "get" /\ UNCHANGED lock /\ Fetching(proc[p])
  BY DEF DInv, ProcOK, get_with_retry, Fetching
<1>2. CASE Failed(p)
  BY <1>1, <1>2, FailedKInv
<1>3. ASSUME NEW pc \in {"get", "verify"}, NEW x, x = proc'[p], x.pc = pc,
             \A q \in Procs \ {p} : proc'[q] = proc[q],
             x.root = proc[p].root, x.lock = proc[p].lock, x.work = proc[p].work,
             x.visited = proc[p].visited
      PROVE  KInv'
  <2>1. Fetching(x) /\ x.pc \notin {"extract", "rename"}
    BY <1>3 DEF Fetching
  <2> QED BY <1>1, <1>3, <2>1, FetchKInv
<1>4. CASE proc' = [proc EXCEPT ![p].attempts = @ + 1]
  <2>1. PICK x : x = proc'[p]
    OBVIOUS
  <2>2. /\ \A q \in Procs \ {p} : proc'[q] = proc[q]
        /\ x.pc = "get" /\ x.root = proc[p].root /\ x.lock = proc[p].lock
        /\ x.work = proc[p].work /\ x.visited = proc[p].visited
    BY <1>1, <1>4, <2>1 DEF Fields
  <2> QED BY <1>3, <2>1, <2>2
<1>5. CASE proc' = [proc EXCEPT ![p].pc = "verify", ![p].bytes = Served(Url(p)), ![p].attempts = 0]
  <2>1. PICK x : x = proc'[p]
    OBVIOUS
  <2>2. /\ \A q \in Procs \ {p} : proc'[q] = proc[q]
        /\ x.pc = "verify" /\ x.root = proc[p].root /\ x.lock = proc[p].lock
        /\ x.work = proc[p].work /\ x.visited = proc[p].visited
    BY <1>1, <1>5, <2>1 DEF Fields
  <2> QED BY <1>3, <2>1, <2>2
<1> QED BY <1>2, <1>4, <1>5 DEF get_with_retry

(* The checksum lets only a matching download through. *)
LEMMA VerifyKInv ==
  ASSUME DInv, KInv, NEW p \in Procs, verify_and_stage(p)
  PROVE  KInv'
<1>1. /\ DOMAIN proc = Procs /\ DOMAIN proc[p] = Fields
      /\ proc[p].pc = "verify" /\ UNCHANGED lock /\ Fetching(proc[p])
  BY DEF DInv, ProcOK, verify_and_stage, Fetching
<1>2. CASE Failed(p)
  BY <1>1, <1>2, FailedKInv
<1>3. ASSUME NEW s, proc' = [proc EXCEPT ![p].pc = "extract", ![p].staging = s],
             verify_checksum(Dep(p), Url(p), proc[p].lock, proc[p].update, Digest[proc[p].bytes])
      PROVE  KInv'
  <2>1. PICK x : x = proc'[p]
    OBVIOUS
  <2>2. /\ \A q \in Procs \ {p} : proc'[q] = proc[q]
        /\ x.pc = "extract" /\ x.root = proc[p].root /\ x.lock = proc[p].lock
        /\ x.work = proc[p].work /\ x.visited = proc[p].visited
        /\ x.update = proc[p].update /\ x.bytes = proc[p].bytes
    BY <1>1, <1>3, <2>1 DEF Fields
  <2>3. Dep(p) = Head(x.work).dep /\ Url(p) = UrlOf(x)
    BY <2>2 DEF Dep, Url, UrlOf
  <2>4. verify_checksum(Head(x.work).dep, UrlOf(x), x.lock, x.update, Digest[x.bytes])
    BY <1>3, <2>2, <2>3
  <2>5. Fetching(x)
    BY <2>2 DEF Fetching
  <2> QED BY <1>1, <2>1, <2>2, <2>4, <2>5, FetchKInv
<1> QED BY <1>2, <1>3 DEF verify_and_stage

(* Extraction changes nothing the command knows. *)
LEMMA ExtractKInv ==
  ASSUME DInv, KInv, NEW p \in Procs, extract(p)
  PROVE  KInv'
<1>1. /\ DOMAIN proc = Procs /\ DOMAIN proc[p] = Fields /\ Pinned(proc[p], lock)
      /\ proc[p].pc = "extract" /\ UNCHANGED lock /\ Fetching(proc[p])
  BY DEF DInv, ProcOK, extract, Fetching, KInv
<1>2. CASE Failed(p)
  BY <1>1, <1>2, FailedKInv
<1>3. CASE Go(p, "rename")
  <2>1. PICK x : x = proc'[p]
    OBVIOUS
  <2>2. /\ \A q \in Procs \ {p} : proc'[q] = proc[q]
        /\ x.pc = "rename" /\ x.root = proc[p].root /\ x.lock = proc[p].lock
        /\ x.work = proc[p].work /\ x.visited = proc[p].visited
        /\ x.update = proc[p].update /\ x.bytes = proc[p].bytes
    BY <1>1, <1>3, <2>1 DEF Fields, Go
  <2>3. UrlOf(proc[p]) = UrlOf(x)
    BY <2>2 DEF UrlOf
  <2>4. verify_checksum(Head(x.work).dep, UrlOf(x), x.lock, x.update, Digest[x.bytes])
    BY <1>1, <2>2, <2>3 DEF Pinned
  <2>5. Fetching(x)
    BY <2>2 DEF Fetching
  <2> QED BY <1>1, <2>1, <2>2, <2>4, <2>5, FetchKInv
<1> QED BY <1>2, <1>3 DEF extract

(* The entry the rename records is one the command has visited. *)
LEMMA RenameKInv ==
  ASSUME DInv, KInv, NEW p \in Procs, rename(p)
  PROVE  KInv'
<1>1. /\ DOMAIN proc = Procs /\ DOMAIN proc[p] = Fields /\ Pinned(proc[p], lock)
      /\ proc[p].pc = "rename" /\ UNCHANGED lock /\ Fetching(proc[p])
      /\ proc[p].bytes \in Contents
  BY DEF DInv, ProcOK, rename, Fetching, KInv
<1>2. PICK c : c = CoordOf(proc[p])
  OBVIOUS
<1>3. PICK u : u = Url(p)
  OBVIOUS
<1>4. PICK s : s = Digest[proc[p].bytes]
  OBVIOUS
<1>5. s # None
  BY <1>1, <1>4, NoneIsNoContent
<1>6. PICK x : x = proc'[p]
  OBVIOUS
<1>7. /\ \A q \in Procs \ {p} : proc'[q] = proc[q]
      /\ x.pc = "descend" /\ x.root = proc[p].root
      /\ x.lock = upsert_lock_entry(proc[p].lock, c, u, s)
      /\ x.visited = proc[p].visited
  <2>1. proc' = [proc EXCEPT ![p].pc = "descend", ![p].changed = TRUE, ![p].staging = <<>>,
                   ![p].lock = upsert_lock_entry(@, c, u, s), ![p].bytes = None]
    BY <1>2, <1>3, <1>4 DEF rename, CoordOf, Dep
  <2> QED BY <1>1, <1>6, <2>1 DEF Fields
<1>8. /\ DOMAIN x.lock = DOMAIN proc[p].lock \cup {c}
      /\ x.lock[c].sha256 = s
      /\ \A k \in DOMAIN proc[p].lock : k # c => x.lock[k] = proc[p].lock[k]
  BY <1>7 DEF upsert_lock_entry
<1>9. c \in proc[p].visited
  BY <1>1, <1>2 DEF Pinned
<1>10. Pinned(x, lock)
  <2>1. \A k \in DOMAIN x.lock : x.lock[k].sha256 # None
    BY <1>1, <1>5, <1>8 DEF Pinned
  <2>2. ASSUME NEW k \in DOMAIN lock[x.root]
        PROVE  k \in DOMAIN x.lock /\ (Fresh(x, k) => x.lock[k] = lock[x.root][k])
    <3>1. k \in DOMAIN proc[p].lock /\ (Fresh(proc[p], k) => proc[p].lock[k] = lock[x.root][k])
      BY <1>1, <1>7 DEF Pinned
    <3>2. Fresh(x, k) => k # c /\ Fresh(proc[p], k)
      BY <1>7, <1>9 DEF Fresh, Fetching
    <3> QED BY <1>8, <3>1, <3>2
  <2> QED BY <1>1, <1>7, <2>1, <2>2 DEF Pinned, Fetching
<1> QED BY <1>1, <1>6, <1>7, <1>10, QuietKInv

(* The walk goes on to the dependencies of what is installed. *)
LEMMA DescendKInv ==
  ASSUME DInv, KInv, NEW p \in Procs, descend(p)
  PROVE  KInv'
<1>1. /\ DOMAIN proc = Procs /\ DOMAIN proc[p] = Fields /\ Pinned(proc[p], lock)
      /\ proc[p].pc = "descend" /\ UNCHANGED lock
  BY DEF DInv, ProcOK, descend, KInv
<1>2. PICK w : proc' = [proc EXCEPT ![p].pc = "visit", ![p].work = w]
  BY DEF descend
<1>3. PICK x : x = proc'[p]
  OBVIOUS
<1>4. /\ \A q \in Procs \ {p} : proc'[q] = proc[q]
      /\ x.pc = "visit" /\ x.root = proc[p].root /\ x.lock = proc[p].lock
      /\ x.visited = proc[p].visited
  BY <1>1, <1>2, <1>3 DEF Fields
<1>5. Pinned(x, lock)
  BY <1>1, <1>4 DEF Pinned, Fresh, Fetching
<1> QED BY <1>1, <1>3, <1>4, <1>5, QuietKInv

(* A step that touches the lock of the project p works in alone. *)
LEMMA LockStep ==
  ASSUME DInv, KInv, NEW p \in Procs, NEW R \in Roots, R = proc[p].root, proc[p].pc # "idle",
         DOMAIN lock' = Roots, \A r \in Roots \ {R} : lock'[r] = lock[r],
         \A k \in DOMAIN lock'[R] : lock'[R][k].sha256 # None,
         \A q \in Procs \ {p} : proc'[q] = proc[q],
         proc'[p].pc = "idle" \/ proc'[p].root = R,
         Pinned(proc[p], lock)'
  PROVE  KInv'
<1>1. \A r \in Roots \ {R} : lock'[r] = lock[r]
  OBVIOUS
<1>2. \A r \in Roots : \A k \in DOMAIN lock'[r] : lock'[r][k].sha256 # None
  BY <1>1 DEF KInv
<1>3. ASSUME NEW q \in Procs \ {p} PROVE Pinned(proc[q], lock)'
  <2>1. PICK x : x = proc'[q]
    OBVIOUS
  <2>2. PICK n : n = lock'
    OBVIOUS
  <2>3. Pinned(x, n)
    <3>1. CASE x.pc = "idle"
      BY <3>1 DEF Pinned
    <3>2. CASE x.pc # "idle"
      <4>1. x = proc[q] /\ Pinned(x, lock) /\ x.root # R
        BY <2>1, <3>2 DEF KInv
      <4>2. n[x.root] = lock[x.root]
        BY <1>1, <2>2, <3>2, <4>1 DEF Pinned
      <4> QED BY <4>1, <4>2 DEF Pinned
    <3> QED BY <3>1, <3>2
  <2> QED BY <2>1, <2>2, <2>3, PinnedThen
<1>4. ASSUME NEW a \in Procs, NEW b \in Procs, a # b, proc'[a].pc # "idle", proc'[b].pc # "idle"
      PROVE  proc'[a].root # proc'[b].root
  <2>1. CASE a = p
    BY <1>4, <2>1 DEF KInv
  <2>2. CASE b = p
    BY <1>4, <2>2 DEF KInv
  <2>3. CASE a # p /\ b # p
    BY <1>4, <2>3 DEF KInv
  <2> QED BY <2>1, <2>2, <2>3
<1> QED BY <1>1, <1>2, <1>3, <1>4 DEF KInv

(* The walk is over: the command returns, or truncates the lock. *)
LEMMA FinishKInv ==
  ASSUME DInv, KInv, NEW p \in Procs, finish(p)
  PROVE  KInv'
<1>1. /\ DOMAIN proc = Procs /\ DOMAIN proc[p] = Fields /\ Pinned(proc[p], lock)
      /\ proc[p].pc = "visit" /\ DOMAIN lock = Roots
  BY DEF DInv, ProcOK, finish, KInv
<1>2. PICK R \in Roots : R = proc[p].root
  BY <1>1 DEF Pinned
<1>3. CASE UNCHANGED lock /\ proc' = [proc EXCEPT ![p] = Idle]
  <2>1. proc'[p] = Idle /\ \A q \in Procs \ {p} : proc'[q] = proc[q]
    BY <1>1, <1>3
  <2>2. Pinned(proc'[p], lock) /\ proc'[p].pc = "idle"
    BY <2>1, IdleFacts DEF Pinned
  <2> QED BY <1>3, <2>1, <2>2, StepKInv
<1>4. CASE lock' = [lock EXCEPT ![R] = <<>>] /\ Go(p, "write_lock")
  <2>1. PICK x : x = proc'[p]
    OBVIOUS
  <2>2. /\ \A q \in Procs \ {p} : proc'[q] = proc[q]
        /\ x.pc = "write_lock" /\ x.root = R /\ x.lock = proc[p].lock
    BY <1>1, <1>2, <1>4, <2>1 DEF Fields, Go
  <2>3. PICK n : n = lock'
    OBVIOUS
  <2>4. DOMAIN n[R] = {}
    BY <1>1, <1>4, <2>3
  <2>5. Pinned(x, n)
    BY <1>1, <1>2, <2>2, <2>4 DEF Pinned, Fetching
  <2>6. Pinned(proc[p], lock)'
    BY <2>1, <2>3, <2>5, PinnedThen
  <2>7. /\ DOMAIN lock' = Roots /\ \A r \in Roots \ {R} : lock'[r] = lock[r]
        /\ \A k \in DOMAIN lock'[R] : lock'[R][k].sha256 # None
    BY <1>1, <1>4, <2>3, <2>4
  <2>8. proc[p].pc # "idle" /\ proc'[p].root = R
    BY <1>1, <2>1, <2>2
  <2> QED BY <1>2, <2>2, <2>6, <2>7, <2>8, LockStep
<1> QED BY <1>2, <1>3, <1>4 DEF finish, Return

(* The lock is written. *)
LEMMA WriteLockKInv ==
  ASSUME DInv, KInv, NEW p \in Procs, write_lock(p)
  PROVE  KInv'
<1>1. DOMAIN proc = Procs /\ Pinned(proc[p], lock) /\ proc[p].pc = "write_lock"
  BY DEF DInv, write_lock, KInv
<1>2. PICK R \in Roots : R = proc[p].root
  BY <1>1 DEF Pinned
<1>3. /\ proc'[p] = Idle /\ \A q \in Procs \ {p} : proc'[q] = proc[q]
      /\ lock' = [lock EXCEPT ![R] = proc[p].lock]
  BY <1>1, <1>2 DEF write_lock, Return
<1>4. /\ DOMAIN lock' = Roots /\ \A r \in Roots \ {R} : lock'[r] = lock[r]
      /\ \A k \in DOMAIN lock'[R] : lock'[R][k].sha256 # None
  BY <1>1, <1>3 DEF Pinned, KInv
<1>5. Pinned(proc[p], lock)'
  <2>1. PICK n : n = lock'
    OBVIOUS
  <2>2. Pinned(Idle, n)
    BY IdleFacts DEF Pinned
  <2> QED BY <1>3, <2>1, <2>2, PinnedThen
<1>6. proc'[p].pc = "idle" \/ proc'[p].root = R
  BY <1>3, IdleFacts
<1>7. proc[p].pc # "idle"
  BY <1>1
<1> QED BY <1>2, <1>3, <1>4, <1>5, <1>6, <1>7, LockStep

(* tinox add reads the lock when tinox.toml is written. *)
LEMMA WriteTomlKInv ==
  ASSUME DInv, KInv, NEW p \in Procs, write_toml(p)
  PROVE  KInv'
<1>1. /\ DOMAIN proc = Procs /\ DOMAIN proc[p] = Fields /\ Pinned(proc[p], lock)
      /\ proc[p].pc = "write_toml" /\ UNCHANGED lock
  BY DEF DInv, ProcOK, write_toml, KInv
<1>2. PICK x : x = proc'[p]
  OBVIOUS
<1>3. /\ \A q \in Procs \ {p} : proc'[q] = proc[q]
      /\ x.pc = "visit" /\ x.root = proc[p].root /\ x.lock = lock[x.root]
  BY <1>1, <1>2 DEF write_toml, Fields
<1>4. Pinned(x, lock)
  BY <1>1, <1>3 DEF Pinned, KInv, Fetching
<1> QED BY <1>1, <1>2, <1>3, <1>4, QuietKInv

(* A command that is killed forgets; the surroundings touch no lock. *)
LEMMA WorldKInv ==
  ASSUME DInv, KInv,
         \/ \E p \in Procs : Crash(p)
         \/ \E u \in DOMAIN RawServes : Republish(u)
         \/ FreshClone
         \/ UNCHANGED vars
  PROVE  KInv'
<1>1. ASSUME NEW p \in Procs, Crash(p) PROVE KInv'
  <2>1. UNCHANGED lock /\ proc'[p] = Idle /\ \A q \in Procs \ {p} : proc'[q] = proc[q]
    BY <1>1 DEF DInv, Crash
  <2>2. Pinned(proc'[p], lock) /\ proc'[p].pc = "idle"
    BY <2>1, IdleFacts DEF Pinned
  <2> QED BY <2>1, <2>2, StepKInv
<1>2. CASE UNCHANGED <<proc, lock>>
  BY <1>2 DEF KInv, Pinned, Fetching, Fresh
<1> QED BY <1>1, <1>2 DEF Republish, FreshClone, vars

(* The lock invariant is inductive. *)
LEMMA NextKInv == DInv /\ KInv /\ [Next]_vars => KInv'
<1> SUFFICES ASSUME DInv, KInv, [Next]_vars PROVE KInv'
  OBVIOUS
<1>1. ASSUME NEW p \in Procs, Step(p) PROVE KInv'
  BY <1>1, VisitKInv, GetKInv, VerifyKInv, ExtractKInv, RenameKInv, DescendKInv,
     FinishKInv, WriteLockKInv, WriteTomlKInv DEF Step
<1>2. ASSUME NEW p \in Procs, NEW r \in Roots,
             \/ \E u \in BOOLEAN : cmd_install(p, r, u)
             \/ \E d \in Additions : cmd_add(p, r, d)
      PROVE  KInv'
  BY <1>2, CommandsKInv
<1>3. ASSUME \/ \E p \in Procs : Crash(p)
             \/ \E u \in DOMAIN RawServes : Republish(u)
             \/ FreshClone
             \/ UNCHANGED vars
      PROVE  KInv'
  BY <1>3, WorldKInv
<1> QED BY <1>1, <1>2, <1>3 DEF Next

(* Pins, for any processes and lock files. *)
PinsOf(P, l, r) ==
  LET W == {p \in Procs : P[p].root = r /\ P[p].pc = "write_lock"}
  IN  IF W = {} THEN l[r] ELSE P[CHOOSE p \in W : TRUE].lock

(* The pins of this state and of the next one. *)
LEMMA PinsNow ==
  ASSUME NEW r
  PROVE  Pins(r) = PinsOf(proc, lock, r) /\ Pins(r)' = PinsOf(proc', lock', r)
BY DEF Pins, PinsOf, Writing

(* Where a command writes the lock of its project alone, the pins are what   *)
(* it holds.                                                                 *)
LEMMA PinsOfWriter ==
  ASSUME NEW P, NEW l, NEW r, NEW p \in Procs, P[p].root = r, P[p].pc = "write_lock",
         \A q \in Procs \ {p} : P[q].pc # "idle" => P[q].root # r
  PROVE  PinsOf(P, l, r) = P[p].lock
<1> DEFINE W == {q \in Procs : P[q].root = r /\ P[q].pc = "write_lock"}
<1>1. W = {p}
  OBVIOUS
<1>2. (CHOOSE q \in W : TRUE) = p
  BY <1>1
<1> QED BY <1>1, <1>2 DEF PinsOf

(* Where no command writes it, they are in the file. *)
LEMMA PinsOfFile ==
  ASSUME NEW P, NEW l, NEW r, \A q \in Procs : P[q].pc = "write_lock" => P[q].root # r
  PROVE  PinsOf(P, l, r) = l[r]
BY DEF PinsOf

(* A step of p that is not about the lock of r keeps its pins. *)
LEMMA QuietPins ==
  ASSUME NEW p \in Procs, \A q \in Procs \ {p} : proc'[q] = proc[q],
         NEW r, lock'[r] = lock[r],
         ~(proc[p].root = r /\ proc[p].pc = "write_lock"),
         ~(proc'[p].root = r /\ proc'[p].pc = "write_lock")
  PROVE  Pins(r)' = Pins(r)
<1> DEFINE W == {q \in Procs : proc[q].root = r /\ proc[q].pc = "write_lock"}
           V == {q \in Procs : proc'[q].root = r /\ proc'[q].pc = "write_lock"}
<1>1. V = W
  OBVIOUS
<1>2. CASE W = {}
  BY <1>1, <1>2, PinsNow DEF PinsOf
<1>3. CASE W # {}
  <2>1. PICK q : q = CHOOSE x \in W : TRUE
    OBVIOUS
  <2>2. q \in W
    BY <1>3, <2>1
  <2>3. proc'[q] = proc[q]
    BY <2>2
  <2>4. PinsOf(proc, lock, r) = proc[q].lock /\ PinsOf(proc', lock', r) = proc'[q].lock
    BY <1>1, <1>3, <2>1 DEF PinsOf
  <2> QED BY <2>3, <2>4, PinsNow
<1> QED BY <1>2, <1>3

(* The truncation and the write lose no pin of their project. *)
LEMMA WritesKeepPins ==
  ASSUME DInv, KInv, KInv', NEW p \in Procs, finish(p) \/ write_lock(p)
  PROVE  LockKept
<1>1. /\ DOMAIN proc = Procs /\ DOMAIN proc[p] = Fields /\ Pinned(proc[p], lock)
      /\ DOMAIN lock = Roots /\ proc[p].pc \in {"visit", "write_lock"}
  BY DEF DInv, ProcOK, KInv, finish, write_lock
<1>2. PICK R \in Roots : R = proc[p].root
  BY <1>1 DEF Pinned
<1>3. \A q \in Procs \ {p} : /\ proc'[q] = proc[q]
                             /\ proc[q].pc # "idle" => proc[q].root # R
  BY <1>1, <1>2 DEF finish, write_lock, Return, Go, KInv
<1>4. /\ \A r \in Roots : r # R => lock'[r] = lock[r]
      /\ proc'[p] = Idle \/ proc'[p].root = R
  BY <1>1, <1>2 DEF finish, write_lock, Return, Go, Fields
<1>5. ASSUME NEW r \in Roots, r # R PROVE Pins(r)' = Pins(r)
  <2>1. /\ ~(proc[p].root = r /\ proc[p].pc = "write_lock")
        /\ ~(proc'[p].root = r /\ proc'[p].pc = "write_lock")
    BY <1>2, <1>4, <1>5, IdleFacts
  <2> QED BY <1>3, <1>4, <1>5, <2>1, QuietPins
<1>6. DOMAIN Pins(R) \subseteq DOMAIN Pins(R)'
  <2>1. CASE finish(p) /\ Go(p, "write_lock")
    <3>1. proc[p].pc = "visit"
      BY <2>1 DEF finish
    <3>2. proc'[p].pc = "write_lock" /\ proc'[p].root = R /\ proc'[p].lock = proc[p].lock
      BY <1>1, <1>2, <2>1 DEF Go, Fields
    <3>3. PinsOf(proc, lock, R) = lock[R]
      <4>1. \A q \in Procs : proc[q].pc = "write_lock" => proc[q].root # R
        BY <1>3, <3>1
      <4> QED BY <4>1, PinsOfFile
    <3>4. PICK Q : Q = proc'
      OBVIOUS
    <3>5. PinsOf(Q, lock', R) = Q[p].lock
      <4>1. \A q \in Procs \ {p} : Q[q].pc # "idle" => Q[q].root # R
        BY <1>3, <3>4
      <4>2. Q[p].root = R /\ Q[p].pc = "write_lock"
        BY <3>2, <3>4
      <4>3. PICK l : l = lock'
        OBVIOUS
      <4>4. PinsOf(Q, l, R) = Q[p].lock
        BY <4>1, <4>2, PinsOfWriter
      <4> QED BY <4>3, <4>4
    <3>6. DOMAIN lock[R] \subseteq DOMAIN proc[p].lock
      BY <1>1, <1>2, <3>1 DEF Pinned
    <3> QED BY <3>2, <3>3, <3>4, <3>5, <3>6, PinsNow
  <2>2. CASE proc' = [proc EXCEPT ![p] = Idle]
    <3>1. proc'[p].pc = "idle"
      BY <1>1, <2>2, IdleFacts
    <3>2. PICK Q : Q = proc'
      OBVIOUS
    <3>3. PinsOf(Q, lock', R) = lock'[R]
      <4>1. \A q \in Procs : Q[q].pc = "write_lock" => Q[q].root # R
        BY <1>3, <3>1, <3>2
      <4> QED BY <4>1, PinsOfFile
    <3>4. CASE finish(p)
      <4>1. lock' = lock /\ proc[p].pc = "visit"
        <5>1. proc[p].pc = "visit"
          BY <3>4 DEF finish
        <5>2. ~Go(p, "write_lock")
          BY <1>1, <3>1 DEF Go, Fields
        <5> QED BY <3>4, <5>1, <5>2 DEF finish
      <4>2. PinsOf(proc, lock, R) = lock[R]
        <5>1. \A q \in Procs : proc[q].pc = "write_lock" => proc[q].root # R
          BY <1>3, <4>1
        <5> QED BY <5>1, PinsOfFile
      <4> QED BY <3>2, <3>3, <4>1, <4>2, PinsNow
    <3>5. CASE write_lock(p)
      <4>1. lock'[R] = proc[p].lock /\ proc[p].pc = "write_lock"
        BY <1>1, <1>2, <3>5 DEF write_lock
      <4>2. PinsOf(proc, lock, R) = proc[p].lock
        <5>1. \A q \in Procs \ {p} : proc[q].pc # "idle" => proc[q].root # R
          BY <1>3
        <5>2. proc[p].root = R
          BY <1>2
        <5> QED BY <4>1, <5>1, <5>2, PinsOfWriter
      <4> QED BY <3>2, <3>3, <4>1, <4>2, PinsNow
    <3> QED BY <3>4, <3>5
  <2> QED BY <2>1, <2>2 DEF finish, write_lock, Return
<1> QED BY <1>5, <1>6 DEF LockKept

(* No step loses a pin, but the one that kills a command inside the write. *)
LEMMA NextLockKept == DInv /\ KInv /\ KInv' /\ [Next]_vars => LockKept
<1> SUFFICES ASSUME DInv, KInv, KInv', [Next]_vars PROVE LockKept
  OBVIOUS
<1>1. ASSUME NEW p \in Procs, UNCHANGED lock, \A q \in Procs \ {p} : proc'[q] = proc[q],
             proc[p].pc # "write_lock", proc'[p].pc # "write_lock"
      PROVE  LockKept
  BY <1>1, QuietPins DEF LockKept
<1>2. DOMAIN proc = Procs /\ \A p \in Procs : DOMAIN proc[p] = Fields
  BY DEF DInv, ProcOK
<1>3. ASSUME UNCHANGED <<lock, proc>> PROVE LockKept
  <2>1. \A r \in Roots : Pins(r)' = Pins(r)
    BY <1>3 DEF Pins, Writing
  <2> QED BY <2>1 DEF LockKept
<1>4. ASSUME NEW p \in Procs, Failed(p)
      PROVE  /\ proc'[p].pc = "visit" /\ \A q \in Procs \ {p} : proc'[q] = proc[q]
  BY <1>2, <1>4 DEF Failed, Fields
<1>5. ASSUME NEW p \in Procs, Step(p) PROVE LockKept
  <2>1. CASE visit(p)
    <3>1. UNCHANGED lock /\ proc[p].pc = "visit"
      BY <2>1 DEF visit
    <3>2. proc'[p].pc # "write_lock" /\ \A q \in Procs \ {p} : proc'[q] = proc[q]
      <4>1. CASE proc' = [proc EXCEPT ![p].work = Tail(@)]
        BY <1>2, <3>1, <4>1 DEF Fields
      <4>2. ASSUME NEW v, NEW f, NEW w, NEW pc \in {"visit", "descend", "get"},
                   proc' = [proc EXCEPT ![p].visited = v, ![p].pc = pc, ![p].failed = f, ![p].work = w]
            PROVE  proc'[p].pc # "write_lock" /\ \A q \in Procs \ {p} : proc'[q] = proc[q]
        BY <1>2, <4>2 DEF Fields
      <4> DEFINE d    == Dep(p)
                 url  == effective_download_url(d, Head(proc[p].work).owning)
                 next == IF url = <<>> THEN "visit"
                         ELSE IF Target(p) \in Dirs THEN "descend" ELSE "get"
                 fail == proc[p].failed \/ url = <<>>
                 rest == IF url = <<>> THEN Tail(proc[p].work) ELSE proc[p].work
      <4>3. CASE coord(d) \notin proc[p].visited
        <5>1. proc' = [proc EXCEPT ![p].visited = @ \cup {coord(d)}, ![p].pc = next,
                                   ![p].failed = fail, ![p].work = rest]
          BY <2>1, <4>3 DEF visit, Dirs
        <5>2. next \in {"visit", "descend", "get"}
          OBVIOUS
        <5> HIDE DEF next, fail, rest
        <5> QED BY <4>2, <5>1, <5>2
      <4> QED BY <2>1, <4>1, <4>3 DEF visit
    <3> QED BY <1>1, <3>1, <3>2
  <2>2. CASE get_with_retry(p)
    <3>1. UNCHANGED lock /\ proc[p].pc = "get"
      BY <2>2 DEF get_with_retry
    <3>2. proc'[p].pc # "write_lock" /\ \A q \in Procs \ {p} : proc'[q] = proc[q]
      BY <1>2, <1>4, <2>2 DEF get_with_retry, Fields
    <3> QED BY <1>1, <3>1, <3>2
  <2>3. CASE verify_and_stage(p)
    <3>1. UNCHANGED lock /\ proc[p].pc = "verify"
      BY <2>3 DEF verify_and_stage
    <3>2. proc'[p].pc # "write_lock" /\ \A q \in Procs \ {p} : proc'[q] = proc[q]
      BY <1>2, <1>4, <2>3 DEF verify_and_stage, Fields
    <3> QED BY <1>1, <3>1, <3>2
  <2>4. CASE extract(p)
    <3>1. UNCHANGED lock /\ proc[p].pc = "extract"
      BY <2>4 DEF extract
    <3>2. proc'[p].pc # "write_lock" /\ \A q \in Procs \ {p} : proc'[q] = proc[q]
      BY <1>2, <1>4, <2>4 DEF extract, Go, Fields
    <3> QED BY <1>1, <3>1, <3>2
  <2>5. CASE rename(p)
    <3>1. UNCHANGED lock /\ proc[p].pc = "rename"
      BY <2>5 DEF rename
    <3>2. proc'[p].pc # "write_lock" /\ \A q \in Procs \ {p} : proc'[q] = proc[q]
      BY <1>2, <2>5 DEF rename, Fields
    <3> QED BY <1>1, <3>1, <3>2
  <2>6. CASE descend(p)
    <3>1. UNCHANGED lock /\ proc[p].pc = "descend"
      BY <2>6 DEF descend
    <3>2. proc'[p].pc # "write_lock" /\ \A q \in Procs \ {p} : proc'[q] = proc[q]
      BY <1>2, <2>6 DEF descend, Fields
    <3> QED BY <1>1, <3>1, <3>2
  <2>7. CASE write_toml(p)
    <3>1. UNCHANGED lock /\ proc[p].pc = "write_toml"
      BY <2>7 DEF write_toml
    <3>2. proc'[p].pc # "write_lock" /\ \A q \in Procs \ {p} : proc'[q] = proc[q]
      BY <1>2, <2>7 DEF write_toml, Fields
    <3> QED BY <1>1, <3>1, <3>2
  <2> QED BY <1>5, <2>1, <2>2, <2>3, <2>4, <2>5, <2>6, <2>7, WritesKeepPins DEF Step
<1>6. ASSUME NEW p \in Procs, Crash(p) PROVE LockKept
  <2>1. /\ UNCHANGED lock /\ proc'[p] = Idle /\ \A q \in Procs \ {p} : proc'[q] = proc[q]
    BY <1>2, <1>6 DEF Crash
  <2>2. ASSUME NEW r \in Roots, ~KilledIn(r, "write_lock") PROVE Pins(r)' = Pins(r)
    <3>1. ~(proc[p].root = r /\ proc[p].pc = "write_lock")
      BY <1>6, <2>2 DEF KilledIn, Writing
    <3>2. ~(proc'[p].root = r /\ proc'[p].pc = "write_lock")
      BY <2>1, IdleFacts
    <3> QED BY <2>1, <3>1, <3>2, QuietPins
  <2> QED BY <2>2 DEF LockKept
<1>7. ASSUME NEW p \in Procs, NEW r \in Roots, NEW u \in BOOLEAN, cmd_install(p, r, u)
      PROVE  LockKept
  <2>1. /\ UNCHANGED lock /\ proc[p].pc = "idle"
        /\ UNCHANGED proc \/ \E x : x.pc = "visit" /\ proc' = [proc EXCEPT ![p] = x]
    <3>1. UNCHANGED proc \/ \E w :
            proc' = [proc EXCEPT ![p] = [Idle EXCEPT !.pc = "visit", !.root = r, !.update = u,
                                             !.install = TRUE, !.lock = lock[r], !.work = w]]
      BY <1>7 DEF cmd_install
    <3>2. \A w : [Idle EXCEPT !.pc = "visit", !.root = r, !.update = u,
                              !.install = TRUE, !.lock = lock[r], !.work = w].pc = "visit"
      BY IdleFacts DEF Fields
    <3> QED BY <1>7, <3>1, <3>2 DEF cmd_install
  <2> QED BY <1>1, <1>2, <1>3, <2>1
<1>8. ASSUME NEW p \in Procs, NEW r \in Roots, NEW d \in Additions, cmd_add(p, r, d)
      PROVE  LockKept
  <2>1. PICK t, w : proc' = [proc EXCEPT ![p] = [Idle EXCEPT !.pc = "write_toml", !.root = r,
                                                             !.toml = t, !.work = w]]
    BY <1>8 DEF cmd_add
  <2>2. UNCHANGED lock /\ proc[p].pc = "idle"
    BY <1>8 DEF cmd_add
  <2>3. proc'[p].pc # "write_lock" /\ \A q \in Procs \ {p} : proc'[q] = proc[q]
    BY <1>2, <2>1, IdleFacts DEF Fields
  <2> QED BY <1>1, <2>2, <2>3
<1>9. CASE (\E u \in DOMAIN RawServes : Republish(u)) \/ FreshClone \/ UNCHANGED vars
  BY <1>3, <1>9 DEF Republish, FreshClone, vars
<1> QED BY <1>5, <1>6, <1>7, <1>8, <1>9 DEF Next

(* No lock has an entry and no command runs. *)
LEMMA InitKInv == Init => KInv
<1> SUFFICES ASSUME Init PROVE KInv
  OBVIOUS
<1>1. DOMAIN lock = Roots /\ \A r \in Roots : DOMAIN lock[r] = {}
  BY DEF Init
<1>2. \A p \in Procs : proc[p].pc = "idle"
  BY IdleFacts DEF Init
<1> QED BY <1>1, <1>2 DEF KInv, Pinned

(* Only the rename puts a directory under its final name. *)
LEMMA OnlyRenameInstalls ==
  ASSUME DInv, [Next]_vars, NEW d \in Dirs' \ Dirs, Final(d)
  PROVE  \E p \in Procs : rename(p)
<1> SUFFICES ASSUME \A p \in Procs : ~rename(p) PROVE FALSE
  OBVIOUS
<1>1. disk' # disk
  BY DEF Dirs
<1>2. ASSUME NEW p \in Procs, verify_and_stage(p) PROVE FALSE
  <2>1. PICK s : s = StagingDir(Target(p))
    OBVIOUS
  <2>2. disk' = With(disk, s, "partial")
    BY <1>1, <1>2, <2>1 DEF verify_and_stage
  <2>3. /\ Final(Target(p)) /\ "staging" \in DOMAIN Target(p)
        /\ Target(p) = [k \in DOMAIN Target(p) |-> Target(p)[k]]
    BY DEF Target, resolved_install_dir, Final
  <2>4. ~Final(s)
    BY <2>1, <2>3, StagingDirIsNew DEF DInv, Trees
  <2>5. Dirs' = Dirs \cup {s}
    BY <2>2 DEF With, Dirs
  <2> QED BY <2>4, <2>5
<1>3. ASSUME NEW p \in Procs, extract(p) PROVE FALSE
  <2>1. proc[p].staging \in Dirs
    BY <1>3 DEF DInv, ProcOK, Staged, extract
  <2>2. Dirs' \subseteq Dirs \cup {proc[p].staging}
    BY <1>3 DEF extract, With, Without, Dirs
  <2> QED BY <2>1, <2>2
<1>4. ASSUME NEW p \in Procs, Step(p) \/ Crash(p) PROVE FALSE
  BY <1>1, <1>2, <1>3, <1>4 DEF Step, visit, get_with_retry, descend, finish, write_lock, write_toml, Crash
<1>5. ASSUME NEW p, NEW r, NEW u, cmd_install(p, r, u) PROVE FALSE
  BY <1>1, <1>5 DEF cmd_install
<1>6. ASSUME NEW p, NEW r, NEW a, cmd_add(p, r, a) PROVE FALSE
  BY <1>1, <1>6 DEF cmd_add
<1>7. ~FreshClone
  BY DEF FreshClone, Dirs
<1>8. ASSUME NEW u, Republish(u) PROVE FALSE
  BY <1>1, <1>8 DEF Republish
<1>9. ~UNCHANGED vars
  BY <1>1 DEF vars
<1> QED BY <1>4, <1>5, <1>6, <1>7, <1>8, <1>9 DEF Next

(* What a rename puts in place has the digest of the project's lock. *)
LEMMA StepPinned == DInv /\ KInv /\ [Next]_vars => InstallsPinned
<1> SUFFICES ASSUME DInv, KInv, [Next]_vars, NEW d \in Dirs' \ Dirs, Final(d)
             PROVE  \E p \in Procs :
                      /\ proc[p].pc = "rename" /\ Target(p) = d
                      /\ LET old == lock[proc[p].root]
                         IN  ~proc[p].update /\ Dep(p).sha256 = None
                               /\ coord(Dep(p)) \in DOMAIN old
                               /\ old[coord(Dep(p))].url = Url(p)
                             => Digest[disk'[d]] = old[coord(Dep(p))].sha256
  BY DEF InstallsPinned, Dirs
<1>1. PICK p \in Procs : rename(p)
  BY OnlyRenameInstalls
<1>2. PICK x : x = proc[p]
  OBVIOUS
<1>3. PICK T : T = Target(p)
  OBVIOUS
<1>4. PICK s : s = x.staging
  OBVIOUS
<1>5. /\ x.pc = "rename" /\ Pinned(x, lock) /\ s \in Dirs /\ disk[s] = x.bytes
  BY <1>1, <1>2, <1>4 DEF DInv, KInv, ProcOK, Staged, rename
<1>6. \/ disk' = Without(disk, s)
      \/ disk' = With(Without(disk, s), T, x.bytes)
  BY <1>1, <1>2, <1>3, <1>4, <1>5 DEF rename
<1>7. d = T /\ disk'[d] = x.bytes
  <2>1. CASE disk' = Without(disk, s)
    BY <2>1 DEF Without, Dirs
  <2>2. CASE disk' = With(Without(disk, s), T, x.bytes)
    <3>1. Dirs' \subseteq Dirs \cup {T} /\ disk'[T] = x.bytes
      BY <2>2 DEF With, Without, Dirs
    <3> QED BY <3>1
  <2> QED BY <1>6, <2>1, <2>2
<1>8. ASSUME ~x.update, Dep(p).sha256 = None, coord(Dep(p)) \in DOMAIN lock[x.root],
             lock[x.root][coord(Dep(p))].url = Url(p)
      PROVE  Digest[x.bytes] = lock[x.root][coord(Dep(p))].sha256
  <2>1. PICK c : c = coord(Dep(p))
    OBVIOUS
  <2>2. PICK u : u = Url(p)
    OBVIOUS
  <2>3. PICK e : e = Head(x.work).dep
    OBVIOUS
  <2>4. c = CoordOf(x) /\ u = UrlOf(x) /\ e = Dep(p) /\ c = coord(e)
    BY <1>2, <2>1, <2>2, <2>3 DEF CoordOf, UrlOf, Dep, Url
  <2>5. Fresh(x, c)
    BY <1>5, <2>4 DEF Fresh, Fetching
  <2>6. /\ c \in DOMAIN x.lock /\ x.lock[c] = lock[x.root][c] /\ x.lock[c].sha256 # None
        /\ verify_checksum(e, u, x.lock, x.update, Digest[x.bytes])
    BY <1>5, <1>8, <2>1, <2>3, <2>4, <2>5 DEF Pinned
  <2>7. expected_checksum(e, u, x.lock, x.update) = x.lock[c].sha256
    BY <1>8, <2>1, <2>2, <2>4, <2>6 DEF expected_checksum
  <2> QED BY <2>1, <2>6, <2>7 DEF verify_checksum
<1>9. proc[p].pc = "rename" /\ Target(p) = d
  BY <1>2, <1>3, <1>5, <1>7
<1> QED BY <1>2, <1>7, <1>8, <1>9

(* Nothing is put in place whose digest differs from the one tinox.lock     *)
(* holds for the same coordinate and url: not after a crash, a retry, a     *)
(* replaced file or a checkout on another machine (verify_checksum).        *)
THEOREM PinsHold == Spec => PinsAreEnforced
<1>1. DInv /\ KInv /\ [Next]_vars => DInv' /\ KInv'
  BY NextDInv, NextKInv
<1>2. DInv /\ KInv /\ [Next]_vars => [InstallsPinned]_vars
  BY StepPinned
<1> QED BY <1>1, <1>2, InitDInv, InitKInv, PTL DEF Spec, PinsAreEnforced

(* No command loses an entry of a tinox.lock, killed or not, unless it is   *)
(* killed between the truncation of that file and its write: cmd_add and     *)
(* cmd_install start from the file, and no second command of the project     *)
(* runs meanwhile.                                                           *)
THEOREM LocksGrow == Spec => LockOnlyGrows
<1>1. DInv /\ KInv /\ [Next]_vars => DInv' /\ KInv'
  BY NextDInv, NextKInv
<1>2. DInv /\ KInv /\ DInv' /\ KInv' /\ [Next]_vars => [LockKept]_vars
  BY NextLockKept
<1> QED BY <1>1, <1>2, InitDInv, InitKInv, PTL DEF Spec, LockOnlyGrows
=============================================================================
