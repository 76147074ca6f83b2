------------------------------- MODULE EnvFiles ------------------------------
(***************************************************************************)
(* What a project's .env files say: outport.yml, outport.local.yml and the *)
(* files themselves are edited by the user, up and share write the files   *)
(* from the config (mergeEnvFiles), down cleans them.  Loading is in       *)
(* ProjectConfig, the managed block in Dotenv; ports are kept from run to  *)
(* run, and the approval of files outside the project is given.            *)
(***************************************************************************)
EXTENDS ProjectConfig, Dotenv

CONSTANTS
  RawConfigs, Locals,   \* contents of outport.yml, and of outport.local.yml (or None)
  Paths,                \* every env file as configs spell it, in alphabetical order
  FileOf,               \* path -> the file: filepath.Join removes "." and ".."
  EditedFiles,          \* bound: those the user edits
  Ports,                \* service -> its port
  Ways,                 \* how commands write: https (the CA is installed), tunnels (label -> URL)
  UserLines,            \* lines the user types
  MaxEdits, MaxLines    \* bounds

VARIABLES
  raw, local,   \* the two config files
  files,        \* env file -> its lines
  written,      \* history: what the last up or share wrote from, None after any other step
  edits

vars == <<raw, local, files, written, edits>>

Files == {FileOf[p] : p \in ToSet(Paths)}

Loaded == {Load(rawConfig, override) : rawConfig \in RawConfigs, override \in Locals \cup {None}}
            \ {NoConfig}

\* mergeEnvFiles: path -> variable -> value.
ServiceVars(cfg, p) ==
  LET writers == {s \in DOMAIN cfg.services : p \in cfg.services[s].files}
  IN  [n \in {cfg.services[s].env_var : s \in writers} |->
         <<Ports[CHOOSE s \in writers : cfg.services[s].env_var = n]>>]
EnvFileVars(w, p) ==
  LET service  == ServiceVars(w.cfg, p)
      resolved == ResolveComputed(w.cfg, TemplateVars(w.cfg, Ports, w.https, w.tunnels))
      computed == {n \in DOMAIN resolved : p \in DOMAIN resolved[n]}
  IN  [n \in DOMAIN service \cup computed |-> IF n \in computed THEN resolved[n][p] ELSE service[n]]
CollectEnvFiles(cfg) ==
  (UNION {cfg.services[s].files : s \in DOMAIN cfg.services})
    \cup (UNION {DOMAIN cfg.computed[n].files : n \in DOMAIN cfg.computed})

\* The paths of one file, in the order in which the commands visit them.
Spellings(cfg, f) == Keep(Paths, {p \in CollectEnvFiles(cfg) : FileOf[p] = f})

\* One Merge for each path: the block of a later spelling replaces that of an earlier one.
MergeEach(w, spellings, old) ==
  LET Merged[i \in 0..Len(spellings)] ==
        IF i = 0 THEN old ELSE Merge(Merged[i - 1], EnvFileVars(w, spellings[i]))
  IN  Merged[Len(spellings)]
MergeEnvFiles(w, old) == [f \in Files |-> MergeEach(w, Spellings(w.cfg, f), old[f])]

\* cleanEnvFiles: one RemoveBlock for each path.
CleanEach(spellings, old) ==
  LET Cleaned[i \in 0..Len(spellings)] == IF i = 0 THEN old ELSE RemoveBlock(Cleaned[i - 1])
  IN  Cleaned[Len(spellings)]
CleanEnvFiles(cfg, old) == [f \in Files |-> CleanEach(Spellings(cfg, f), old[f])]

\* up and share; nothing happens when the config does not load.
Write ==
  LET cfg == Load(raw, local) IN
  /\ cfg # NoConfig
  /\ \E way \in Ways :
       LET w == [cfg |-> cfg, https |-> way.https, tunnels |-> way.tunnels] IN
       files' = MergeEnvFiles(w, files) /\ written' = w
  /\ UNCHANGED <<raw, local, edits>>

Down ==
  LET cfg == Load(raw, local) IN
  /\ cfg # NoConfig
  /\ files' = CleanEnvFiles(cfg, files)
  /\ written' = None
  /\ UNCHANGED <<raw, local, edits>>

Edit == edits < MaxEdits /\ edits' = edits + 1 /\ written' = None
EditConfig ==
  /\ Edit
  /\ \/ raw' \in RawConfigs \ {raw} /\ UNCHANGED local
     \/ local' \in Locals \ {local} /\ UNCHANGED raw
  /\ UNCHANGED files
InsertLine ==
  /\ Edit
  /\ \E f \in EditedFiles, line \in UserLines :
       LET lines == IF files[f] = NoFile THEN <<>> ELSE files[f] IN
       /\ Len(lines) < MaxLines
       /\ \E i \in 1..(Len(lines) + 1) : files' = [files EXCEPT ![f] = InsertAt(lines, i, line)]
  /\ UNCHANGED <<raw, local>>
DeleteLine ==
  /\ Edit
  /\ \E f \in EditedFiles :
       /\ files[f] # NoFile
       /\ \E i \in DOMAIN files[f] : files' = [files EXCEPT ![f] = RemoveAt(files[f], i)]
  /\ UNCHANGED <<raw, local>>

\* What up and share write from, and the lines that a file may have.
Sources == {[cfg |-> cfg, https |-> way.https, tunnels |-> way.tunnels] : cfg \in Loaded, way \in Ways}
WrittenLines(w, p) == {Assign(n, EnvFileVars(w, p)[n]) : n \in DOMAIN EnvFileVars(w, p)}
Line ==
  UserLines \cup {BeginMarker, EndMarker, Blank}
    \cup UNION {WrittenLines(w, p) : w \in Sources, p \in ToSet(Paths)}

ASSUME PathsOnce ==
  /\ Paths \in Seq(ToSet(Paths))
  /\ \A i, j \in DOMAIN Paths : Paths[i] = Paths[j] => i = j

ASSUME EnvConstants ==
  /\ NoFile \notin Seq(Line)
  /\ EditedFiles \subseteq Files
  /\ None \notin Sources
  /\ \A cfg \in Loaded :
       /\ \A s \in DOMAIN cfg.services :
            cfg.services[s].env_var \in ToSet(VarNames) /\ cfg.services[s].files \subseteq ToSet(Paths)
       /\ \A n \in DOMAIN cfg.computed :
            n \in ToSet(VarNames) /\ DOMAIN cfg.computed[n].files \subseteq ToSet(Paths)

Init ==
  /\ raw \in RawConfigs /\ local = None
  /\ files = [f \in Files |-> NoFile]
  /\ written = None /\ edits = 0

Next == Write \/ Down \/ EditConfig \/ InsertLine \/ DeleteLine
Spec == Init /\ [][Next]_vars

-----------------------------------------------------------------------------
(* Properties.                                                               *)

\* The values that a file gives a variable, from top to bottom, wherever they stand.
Values(file, n) ==
  LET lines == Lines(file)
      found == Keep(lines, {line \in ToSet(lines) : VarName(line) = n})
  IN  [i \in DOMAIN found |-> found[i][3]]

\* "Outport's deterministic port assignments always win" (dotenv.go): after up or share, every
\* env file of a service has its port under its variable and every file of a computed value has
\* what its template says, each exactly once - however the lines and the markers were edited
\* before, and for every config that loads.  Of a file that the config spells in two ways this
\* holds for the variables of the last spelling only: its block replaces those before.
WrittenOnce ==
  written # None =>
    \A f \in Files :
      LET spellings == Spellings(written.cfg, f) IN
      spellings # <<>> =>
        /\ \A s \in DOMAIN written.cfg.services :
             Last(spellings) \in written.cfg.services[s].files =>
               Values(files[f], written.cfg.services[s].env_var) = << <<Ports[s]>> >>
        /\ \A n \in DOMAIN written.cfg.computed :
             Last(spellings) \in DOMAIN written.cfg.computed[n].files =>
               Values(files[f], n) =
                 << ExpandVars(Template(written.cfg.computed[n], Last(spellings)),
                               TemplateVars(written.cfg, Ports, written.https, written.tunnels)) >>

\* Running the same command again changes nothing (dotenv_test.go TestMerge_IsIdempotent)
\* but blank lines at the end, also when the markers were damaged before the first run.
WriteSettles ==
  written # None =>
    \A f \in Files : Lines(MergeEnvFiles(written, files)[f]) = Lines(files[f])

\* The lines that are not Outport's, in a file whose markers nobody duplicated: those
\* outside the one block, without blank lines.
Intact(lines) == \A m \in {BeginMarker, EndMarker} : Cardinality(Marks(lines, m)) <= 1
InBlock(lines) ==
  UNION {b .. e : b \in Marks(lines, BeginMarker), e \in Marks(lines, EndMarker)}
OwnLines(lines) ==
  LET block  == InBlock(lines)
      masked == [i \in DOMAIN lines |-> IF i \in block THEN Blank ELSE lines[i]]
  IN  Keep(masked, ToSet(lines) \ {Blank})

\* No command loses, adds or reorders a line of the user but the definitions of the
\* variables it manages from then on; after down nothing else is left.
Managed(w, f) ==
  UNION {DOMAIN EnvFileVars(w, p) : p \in ToSet(Spellings(w.cfg, f))}
Kept(old, new, managed) ==
  Intact(old) /\ Intact(new) => OwnLines(new) = RemoveVars(OwnLines(old), managed)
OwnLinesStep ==
  edits' = edits =>
    \A f \in Files :
      Kept(Lines(files[f]), Lines(files'[f]),
           IF written' = None THEN {} ELSE Managed(written', f))
OwnLinesKept == [][OwnLinesStep]_vars
=============================================================================
