---------------------------- MODULE MCOutportCli ----------------------------
(* Instances of OutportCli for TLC: two projects, "app" and "app-x", whose   *)
(* names are chosen so that an instance of the first can take a name of the  *)
(* second, and configs with one or two services.                             *)
EXTENDS OutportCli, TLC

App  == <<"app">>
AppX == <<"app", "-", "x">>

MCProjects  == {App, AppX}
MCInstances == {"main", "x", "y"}
MCTokens    == {"app", "api", "-", ".", "main", "x", "y"}

\* Keys in the order of the strings "app-x/main" < "app-x/x" < ... < "app/main".
MCKeyRank ==
  [k \in MCProjects \X MCInstances |->
     (IF k[1] = App THEN 3 ELSE 0)
       + (CASE k[2] = "main" -> 0 [] k[2] = "x" -> 1 [] OTHER -> 2)]

\* One hash value for everything: every assignment after the first collides.
MCHashAll == [ks \in (MCProjects \X MCInstances) \X Services |-> MinPort]

\* Paths: every directory under one spelling, or "d1" also as "D1".
MCSameFile == [d \in Dirs |-> IF d = "D1" THEN "d1" ELSE d]

Cfg(project, svc, pref, stems, ext) ==
  [project |-> project, svc |-> svc,
   pref  |-> [s \in Services |-> IF s \in svc THEN pref ELSE 0],
   stems |-> [s \in Services |-> IF s \in svc THEN stems[s] ELSE {}],
   ext   |-> ext]

Hosts2(project) == [s \in {1, 2} |-> IF s = 1 THEN {<<"api", "-">> \o project} ELSE {project}]

OneApp   == Cfg(App, {2}, 20, Hosts2(App), {})
TwoApp   == Cfg(App, {1, 2}, 20, Hosts2(App), {})
OneAppX  == Cfg(AppX, {2}, 20, Hosts2(AppX), {})
ExtApp   == Cfg(App, {2}, 0, Hosts2(App), {"ext"})

MCConfigs == {OneApp, TwoApp, OneAppX}
MCInit == {[r \in Roots |-> IF r = "d1" THEN OneApp ELSE OneAppX],
           [r \in Roots |-> OneApp]}

\* Edits that leave the project name alone.
Grow  == {<<OneApp, TwoApp>>}
Shrink == {<<TwoApp, OneApp>>}
Fail  == {<<ExtApp, Gone>>, <<OneApp, NoConfig>>}
\* Edits that change it.
Renamed == {<<OneApp, OneAppX>>}
Moved   == Renamed \cup {<<OneAppX, NoConfig>>, <<OneApp, NoConfig>>, <<OneAppX, Gone>>}

GrowShrink  == Grow \cup Shrink
FailEdits   == GrowShrink \cup Fail \cup Moved
FailConfigs == {OneApp, TwoApp, ExtApp, OneAppX}
OneOneExt   == {[r \in Roots |-> IF r = "d1" THEN OneApp ELSE ExtApp]}

MCSymmetry == Permutations(Procs)

BusyNone == {{}}
=============================================================================
