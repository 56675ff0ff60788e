------------------------------ MODULE Manifest ------------------------------
(***************************************************************************)
(* tinox.toml as the package manager reads and rewrites it (pm.rs).  A     *)
(* file is a sequence of trimmed lines: a header, a `key = value' line, or *)
(* any other text.  parse_manifest extracts what the package manager       *)
(* understands; write_manifest replaces exactly that and keeps the rest.   *)
(***************************************************************************)
EXTENDS Loops, SequencesExt

None == "none"                      \* an absent url, repository or sha256

Header(h)  == [kind |-> "header", key |-> h,  val |-> ""]
Kv(k, v)   == [kind |-> "kv",     key |-> k,  val |-> v]
Text(t)    == [kind |-> "text",   key |-> t,  val |-> ""]
Blank      == Text("")

manifest_section_for(h) ==
    CASE h = "[[dependencies]]" -> "Dependency"
      [] h = "[[repositories]]" -> "Repository"
      [] h = "[package]"        -> "Package"
      [] OTHER                  -> "Other"

empty_dep  == [ga |-> "", version |-> "", url |-> None, repository |-> None, sha256 |-> None]
empty_repo == [id |-> "", url |-> ""]
empty_pkg  == [name |-> "", version |-> "", description |-> ""]

(* The group and artifactId keys are one key, "ga", here: every use of them
   in the package manager is of the pair. *)
DepKeys  == {"ga", "version"}
OptKeys  == {"url", "repository", "sha256"}
PkgKeys  == {"name", "version", "description"}

(* Closes the [[dependencies]] or [[repositories]] table that is open. *)
Flush(s) ==
    [s EXCEPT !.deps  = IF s.section = "Dependency" THEN Append(@, s.cur) ELSE @,
              !.repos = IF s.section = "Repository" THEN Append(@, s.repo) ELSE @,
              !.cur = empty_dep, !.repo = empty_repo]

ParseLine(s, line) ==
    CASE line.kind = "header" ->
            LET sec == manifest_section_for(line.key)
            IN  [Flush(s) EXCEPT !.section = sec,
                                 !.have = @ \/ sec = "Package"]
      [] line.kind = "kv" /\ s.section = "Package" /\ line.key \in PkgKeys ->
            [s EXCEPT !.pkg[line.key] = line.val]
      [] line.kind = "kv" /\ s.section = "Dependency" /\
         (line.key \in DepKeys \/ (line.key \in OptKeys /\ line.val # "")) ->
            [s EXCEPT !.cur[line.key] = line.val]
      [] line.kind = "kv" /\ s.section = "Repository" /\ line.key \in {"id", "url"} ->
            [s EXCEPT !.repo[line.key] = line.val]
      [] OTHER -> s

(* A manifest: package is <<>> or <<p>> (an Option), the tables in order. *)
parse_manifest(file) ==
    LET init == [section |-> "None", have |-> FALSE, pkg |-> empty_pkg,
                 deps |-> <<>>, cur |-> empty_dep, repos |-> <<>>, repo |-> empty_repo]
        end  == Flush(Scan(ParseLine, init, file))
    IN  [package |-> IF end.have THEN <<end.pkg>> ELSE <<>>,
         dependencies |-> end.deps, repositories |-> end.repos]

PackageLines(p) == <<Kv("name", p.name), Kv("version", p.version),
                     Kv("description", p.description)>>

(* mutant: the url is not written back *)
format_dependency_bare(d) ==
    <<Header("[[dependencies]]"), Kv("ga", d.ga), Kv("version", d.version)>>

format_dependency(d) ==
    LET opt(k) == IF d[k] # None THEN <<Kv(k, d[k])>> ELSE <<>>
    IN  <<Header("[[dependencies]]"), Kv("ga", d.ga), Kv("version", d.version)>>
          \o opt("url") \o opt("repository") \o opt("sha256")

format_repository(r) == <<Header("[[repositories]]"), Kv("id", r.id), Kv("url", r.url)>>

(* The tables one after the other, a blank line before each. *)
Tables(Format(_), tables) ==
    Scan(LAMBDA acc, t : acc \o <<Blank>> \o Format(t), <<>>, tables)

(* mutant: every key of [package] is taken for one of its own three *)
CopyLineGreedy(m, s, line) ==
    LET sec == IF line.kind = "header" THEN manifest_section_for(line.key) ELSE s.section
        own == sec \in {"Dependency", "Repository"} \/ (sec = "Package" /\ line.kind = "kv")
        fresh == IF line.kind = "header" /\ sec = "Package" /\ m.package # <<>>
                 THEN PackageLines(m.package[1]) ELSE <<>>
    IN  [section |-> sec,
         saw |-> s.saw \/ (line.kind = "header" /\ sec = "Package"),
         out |-> IF own THEN s.out ELSE s.out \o <<line>> \o fresh]

(* One line of the existing file under write_manifest's loop. *)
CopyLine(m, s, line) ==
    LET sec == IF line.kind = "header" THEN manifest_section_for(line.key) ELSE s.section
        own == sec \in {"Dependency", "Repository"}
        fresh == IF line.kind = "header" /\ sec = "Package" /\ m.package # <<>>
                 THEN PackageLines(m.package[1]) ELSE <<>>
        stale == line.kind = "kv" /\ sec = "Package" /\ line.key \in PkgKeys
    IN  [section |-> sec,
         saw |-> s.saw \/ (line.kind = "header" /\ sec = "Package"),
         out |-> IF own \/ stale THEN s.out ELSE s.out \o <<line>> \o fresh]

(* A last blank line is the newline the rest is appended to. *)
write_manifest(file, m) ==
    LET copy == Scan(LAMBDA s, l : CopyLine(m, s, l),
                         [section |-> "None", saw |-> FALSE, out |-> <<>>], file)
        kept == IF copy.out # <<>> /\ Last(copy.out) = Blank
                THEN Front(copy.out) ELSE copy.out
        pkg  == IF ~copy.saw /\ m.package # <<>>
                THEN <<Header("[package]")>> \o PackageLines(m.package[1]) ELSE <<>>
    IN  kept \o pkg \o Tables(format_repository, m.repositories)
             \o Tables(format_dependency, m.dependencies)
-----------------------------------------------------------------------------
(* What must hold of a rewrite, for any file and any manifest. *)

(* The lines of a file that are not the package manager's: everything outside
   the two kinds of tables, but the package's own three keys. *)
Foreign(file) ==
    LET step(s, line) ==
          LET sec == IF line.kind = "header" THEN manifest_section_for(line.key) ELSE s.section
          IN  [section |-> sec,
               out |-> IF sec \in {"Dependency", "Repository"} \/ line = Blank
                          \/ (sec = "Package" /\ line.kind = "kv" /\ line.key \in PkgKeys)
                       THEN s.out ELSE Append(s.out, line)]
    IN  Scan(step, [section |-> "None", out |-> <<>>], file).out
=============================================================================
