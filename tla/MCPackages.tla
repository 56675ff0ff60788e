----------------------------- MODULE MCPackages -----------------------------
(* Two projects on one machine.  `app' names A by url; A's artifact leads to B
   on the default repository, B to C on the repository its own manifest names,
   and C back to B.  `lib' names B alone.  A's url is overwritten once. *)
EXTENDS PackageManager

CONSTANTS p1, p2

DepLines(ga, v, url, repo, sha) ==
    format_dependency([ga |-> ga, version |-> v, url |-> url, repository |-> repo, sha256 |-> sha])

MCDigest == [c \in {"a1", "a2", "b", "c"} |->
                CASE c = "a1" -> "d1" [] c = "a2" -> "d2" [] c = "b" -> "d3" [] OTHER -> "d4"]
MCTomlOf == [c \in {"a1", "a2", "b", "c"} |->
    CASE c = "a1" -> <<Header("[package]"), Kv("name", "A")>> \o DepLines("B", "1", None, None, None)
      [] c = "b"  -> format_repository([id |-> "corp", url |-> "corp-url"])
                       \o DepLines("C", "1", None, "corp", None)
      [] c = "c"  -> DepLines("B", "1", None, None, None)
      [] OTHER    -> <<>>]
MCRawServes == [u \in {"ua"} |-> <<"a1", "a2">>]
MCRepoServes == [u \in {<<"central-url", "B", "1">>, <<"corp-url", "C", "1">>} |->
                    IF u[2] = "B" THEN "b" ELSE "c"]
MCInitToml == [r \in {"app", "lib"} |->
    IF r = "app"
    THEN <<Text("# app"), Header("[package]"), Kv("name", "app"), Kv("entry", "Main.tnx"), Blank>>
           \o DepLines("A", "1", "ua", None, None)
           \o <<Header("[build]"), Kv("version", "3")>>
    ELSE <<Header("[metrics]"), Kv("url", "x")>> \o DepLines("B", "1", None, None, "d3")]
MCAdditions == {[ga |-> "A", version |-> "2", url |-> "ua", repository |-> None, sha256 |-> None]}
=============================================================================
