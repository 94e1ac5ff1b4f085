----------------------------- MODULE MCCleaners -----------------------------
EXTENDS Cleaners

CONSTANTS p1, p2, me, docker, vscode, updater, agent

(* Files: cache directories and the Trash; artefacts nested, below .git,   *)
(* and a root with an artefact's name; app data.                           *)
MCCaches == {<<"C">>, <<"C", "go">>, <<"C", "go", "a">>, <<"C", "go", "d">>, <<"C", "go", "d", "b">>,
             <<"Trash">>, <<"Trash", "b">>}
MCDev    == {<<"R">>, <<"R", "dist">>, <<"R", "dist", "a">>, <<"R", "dist", "build">>,
             <<"R", "dist", "build", "b">>, <<"R", ".git">>, <<"R", ".git", "build">>,
             <<"R", ".git", "build", "b">>}
MCBuild  == {<<"build">>, <<"build", "dist">>, <<"build", "dist", "b">>}
(* Directories that cannot be read, and a file of two names.               *)
MCSealedCache == {<<"C">>, <<"C", "go">>, <<"C", "go", "a">>, <<"C", "go", "locked">>,
                  <<"C", "go", "locked", "b">>}
MCSealedDev == {<<"R">>, <<"R", "dist">>, <<"R", "dist", "a">>, <<"R", "dist", "locked">>,
                <<"R", "dist", "locked", "b">>}
MCLinked == {<<"L">>, <<"L", "Code">>, <<"L", "Code", "a">>, <<"L", "Code", "b">>, <<"L", "Code", "h">>,
             <<"L", "Code", "locked">>, <<"L", "Code", "locked", "b">>}
MCAppIn(n) == {<<"L">>, <<"L", n>>, <<"L", n, "b">>}
MCHome   == {<<"L">>, <<".docker">>, <<".docker", "b">>}
MCTrees  == [c \in Commands |->
    CASE c = "caches" -> {MCCaches, MCSealedCache}
      [] c = "dev"    -> {MCDev, MCBuild, MCSealedDev}
      [] c = "apps"   -> {MCAppIn("Docker Desktop"), MCAppIn("Code"), MCAppIn("com.docker.docker"),
                          MCAppIn("mobilesync"), MCHome, MCLinked}
      [] OTHER        -> {{}}]
MCFile     == {<<"C", "go", "a">>, <<"C", "go", "d", "b">>, <<"Trash", "b">>, <<"C", "go", "locked", "b">>,
               <<"R", "dist", "a">>, <<"R", "dist", "build", "b">>, <<"R", ".git", "build", "b">>,
               <<"build", "dist", "b">>, <<"R", "dist", "locked", "b">>,
               <<"L", "Code", "a">>, <<"L", "Code", "b">>, <<"L", "Code", "h">>, <<"L", "Code", "locked", "b">>,
               <<"L", "Docker Desktop", "b">>, <<"L", "com.docker.docker", "b">>, <<"L", "mobilesync", "b">>,
               <<".docker", "b">>}
MCSize     == [p \in MCFile |-> IF p[Len(p)] = "b" THEN 2 ELSE 1]
MCInode    == [p \in MCFile |-> IF p[Len(p)] = "h" THEN <<"L", "Code", "a">> ELSE p]
MCSealed   == {<<"C", "go", "locked">>, <<"R", "dist", "locked">>, <<"L", "Code", "locked">>}
MCCacheDirs == {<<"C", "go">>}
MCReportOnly == {<<"Trash">>}
MCCacheRoots == {<<"C">>}
MCScanRoots == {<<"R">>, <<"build">>}
MCLibraryRoots == {<<"L">>}
MCCurated  == (<<".docker">> :> <<"docker">>)
MCKey == [n \in {"Docker Desktop", "Code", "com.docker.docker", "mobilesync", "L", "b"} |->
    CASE n = "Docker Desktop"    -> <<"docker", "desktop">>
      [] n = "Code"              -> <<"code">>
      [] n = "com.docker.docker" -> <<"com", "docker", "docker">>
      [] OTHER                   -> <<n>>]
MCOwner == (<<"L", "Docker Desktop">> :> docker) @@ (<<"L", "Code">> :> vscode)
            @@ (<<"L", "com.docker.docker">> :> docker) @@ (<<".docker">> :> docker)
MCName     == (docker :> <<"whale">>) @@ (vscode :> <<"visual", "studio", "code">>)
MCBundleId == (docker :> <<"com", "docker", "docker">>) @@ (vscode :> <<"com", "microsoft", "vscode">>)

(* Command lines: an automation browser, one with a user's profile, a      *)
(* browser with a window.                                                  *)
MCLine == {[words |-> {"--headless"}, dirs |-> << <<"tmp", "job", "profile">> >>],
           [words |-> {"--headless"}, dirs |-> << <<"home", "profile">>, <<"tmp", "job">> >>],
           [words |-> {}, dirs |-> << <<"tmp", "job">> >>]}
MCGlobs == {<<"tmp", "*">>}

MCMoving == [c \in Commands |->
    CASE c \in {"caches", "dev"} -> {"files"} [] c = "apps" -> {"files", "apps"}
      [] c = "orphans" -> {"processes"} [] OTHER -> {"services"}]

(* A directory names its app well enough to be found by it.                *)
ASSUME MCOrdinary ==
    OrdinaryMachine /\ \A d \in DOMAIN MCOwner : Lookup(KeyOf(d), {MCOwner[d]}, {})
=============================================================================
