# Outport in TLA+

Outport gives every checkout of every project on a developer's machine ports and
`.test` names of its own, writes them into `.env` files, and runs a daemon that
routes the names to the ports. This directory holds TLA+ models of it, TLC
configurations that check them on small instances, and TLAPS proofs for every
value of the constants. Every definition is translated from the Go source;
`PROJECT.json` names the lines each one stands for.

Check a run inside this directory with `tlc -config <run>.cfg <module>`, the
proofs with `tlapm <Module>Proofs.tla`.

## 1. The system

### Components, their state, their operations

| Component | State | Operations | What makes it correct |
|---|---|---|---|
| Port allocator (`internal/allocator`) | none | `Allocate(project, instance, service, preferred, used, busy)` | the preferred port or the first free one after the hash, never a used, reserved or busy one; one round and no more |
| Registry (`internal/registry`) | a map key -> allocation in memory | `Set`, `Remove`, `FindByDir`, `FindByProject`, `FindHostname`, `UsedPorts`, `RemoveStale`, `PruneDuplicateDirs` | one entry per directory, one owner per port and per name |
| Registry file (`registry.json`) | a file, a temporary file | `Load`, `Save` | a reader gets a registry some process saved, as a whole |
| Instance identity (`internal/instance`) | none | `Resolve`, `GenerateCode` | a directory keeps its instance name |
| Allocation (`internal/allocation`) | none | `Build`, `ComputeHostnames`, `ComputeAliases`, template variables | names of different instances differ |
| CLI commands (`cmd`) | a private copy of the registry per process, the `.env` files | `up [--force]`, `down`, `rename`, `promote`, `system prune` | registry, `.env` files and directories stay in step |
| Dotenv (`internal/dotenv`) | managed blocks in `.env` files | `Merge`, `RemoveBlock` | the developer's own lines survive |
| Env paths (`internal/envpath`) | approvals stored in the registry | `ClassifyEnvFiles`, `ConfirmExternalFiles` | no file outside the project is written unasked |
| Config (`internal/config`) | `outport.yml`, `outport.local.yml` | `Load`, merge, validation, `${VAR}` expansion | a loaded config is valid |
| Route table and watcher (`internal/daemon/routes.go`) | routes, wildcards, allocations under a lock; a goroutine | rebuild, tunnel merge, `Lookup` | requests go where the registry on disk says |
| Tunnel state (`internal/tunnel/state.go`) | `tunnels.json`: writer's pid, URLs, names | `WriteState`, `ReadState`, `RemoveState` | the state of a dead share is not used |
| share, tunnel manager (`cmd/share.go`, `internal/tunnel`) | child processes, their stop functions | `StartAll` with its timeout, `StopAll` | all tunnels or none; nothing is left running |
| Dashboard (`internal/dashboard`) | clients' event channels, health checker, caches | connect, disconnect, tick, registry event | checks run iff someone watches; a client sees the latest state |
| Proxy, DNS, daemon (`internal/daemon`) | a cache of reverse proxies; three servers | `ServeHTTP`, `Run` | the daemon ends as a whole |
| Certificates (`internal/certmanager`) | CA and leaf files, certificates in memory | `GetCertificate`, `GetOrCreateCert` | a served pair matches and is valid |
| System setup (`cmd/system_*.go`, `internal/platform`) | files and services of the operating system | `system start`, `stop`, `uninstall` | a failed step can be repeated |
| ports, ports kill, doctor, rendering | none | reports over other components' state | - |

### How they interact

```
 developer --- edits outport.yml ------------------------------+
                                                               v
 up / down / rename / promote / prune  (processes, no lock among them)
     | read, later replace                  | merge or remove blocks
     v                                      v
 registry.json   tunnels.json           .env files
     |  rename event  |  ^
     v                v  +--- share (process; children: tunnels)
 WatchAndRebuild goroutine --> route table --> proxy, TLS, dashboard
```

The components share files, not messages. Every CLI command loads
`registry.json` once, works on that copy, writes `.env` files in the meantime and
replaces `registry.json` at its end. The daemon watches the directory and
rebuilds its table on each rename event. The dashboard reads the table and
pushes events to browsers, from the watcher goroutine and from the health
checker's.

### What is hard

- CLI processes interleave at every file access; prompts stretch a command over
  minutes; a command may be killed, refused or fail after part of its writes.
- All processes share one temporary file name, and readers may have the old or
  the new file open during a rename.
- Configs, project names and directories change between commands; a directory
  may be reached under two paths.
- The watcher reads a file after the event announced it, and the file may have
  changed again; events of two files are queued; the daemon restarts.
- Map iteration order decides which of several entries a lookup finds.
- Clients of the dashboard connect and leave at the same time; two goroutines
  each build a snapshot and send it later.
- share starts several child processes under one deadline, holds what it read for
  as long as it runs, and takes everything back in a deferred function.
- Certificates are generated under a lock that each path releases by hand, cached
  in memory and in two files, and signed by a CA that setup may exchange.
- System setup is a sequence of file writes and external programs, any of which may
  fail or be the last one; the next command infers from files what was done.
- The managed block of an `.env` file is found by markers that the user can edit.

`PROJECT.json` lists the hazards line by line with the properties that cover
them.

## 2. The modules

```
 Allocator ---+                         AllocatorLoop --> MCAllocatorLoop
              +--> OutportCli --> MCOutportCli
 Registry     |       \---> EnvHistory --> MCEnvHistory, OutportCliProofs
   Allocation |
   Instance --+        RegistryFile --> MCRegistryFile, RegistryFileProofs
                            \-- INSTANCE AtomicFile
 RouteDaemon --> Dashboard --> MCRouteDaemon, RouteDaemonProofs
 HealthChecker --> MCHealthChecker, HealthCheckerProofs
 ShareSession --> MCShareSession, ShareSessionProofs
 CertStore --> MCCertStore, CertStoreProofs
 SystemSetup --> Doctor --> MCSystemSetup, SystemSetupProofs
 Dotenv, ProjectConfig --> EnvFiles --> MCEnvFiles
 AllocatorLoop, EnvFiles --> AlgorithmProofs
```

**`Allocator`** states what `Allocate` promises as a relation, `IsAllocated(p,
start, preferred, used, busy)`: the preferred port if it is available, otherwise
the first available one going round the range from the hash. The preferred port
may lie outside the range, the reserved port (DNS) is never available. The hash
is a parameter. **`AllocatorLoop`** is the loop itself, one step per evaluation
of the closure `unavailable`, with other programs opening and closing ports
between them, and is shown to keep that promise. This is why the commands may use
`IsAllocated` instead of a loop.

**`Registry`** has the in-memory operations as operators on a function from keys to
allocations or `NoAlloc`. Where Go iterates over a map and the outcome depends on
the order (`FindByDir` with several entries for one directory, `canonicalKey`),
the operator returns the set of possible outcomes. `SameFile` maps a path to the
directory it denotes, so that case-insensitive file systems and symbolic links
appear as two paths of one directory. `FindByDir` finds the path as spelled
before it compares directories, as the code does.

**`Allocation`** has `Build` (ports, hostnames, aliases of an entry) and
`EnvBlock` (what a `.env` block says). A name is a sequence of tokens, so that
inserting the instance behind the last occurrence of the project's name is
modelled by what it does: instance `x` of `app` is called `app-x`, which may be
the name of another project. **`Instance`** has `Resolve` and `GenerateCode`.

**`OutportCli`** is the system of commands. A process is `Idle` or has a record: its
copy of the registry, the config it read, the files it has yet to write. Its
steps are

| Action | Code |
|---|---|
| `Up`, `Down`, `Rename`, `PromoteOnly`, `PromoteDemote`, `Prune` | from the start of the command to its first write: load config and registry, resolve the instance, allocate, check hostnames, compute the entry |
| `WriteEnv` | one file merged or cleaned |
| `CleanSkipped`, `MergeFails` | a file that cannot be written: `down` ignores it, the others end |
| `PromoteRest`, `PromoteDenied` | the second half of `promote`, and its refusal |
| `Save` | `registry.json` is replaced by the process's copy |
| `Abort` | an I/O error or a kill at any point |
| `EditConfig` | the developer changes or removes a config, or deletes a directory |

A command that fails before its first write changes nothing and is the absence of a
step. Reading config and registry is one step because no command writes a
config; `.env` files are written in any order, which covers the sorted one. A file
has a block or none here; what a block does to the lines around it is in
`EnvFiles`.

**`EnvHistory`** extends it by two history variables: the env files the running command
has `written`, and those that are `unsettled`, which may be out of step with the
registry because of one of the events its head lists (section 5). Every step of it is a
step of `OutportCli` (`HistoryWatches`). `EnvMatchesRegistry` and `NoOrphanBlocks` speak of
all other files: whatever the configs of the checkouts are and whatever was edited or
killed, a file may be out of step for one of these reasons and no other.

**`RegistryFile`** splits `Save` and `Load` into system calls: open (truncate or
create) the temporary file, write its blocks one by one, rename; open, read blocks
until the end. Inodes are modelled, so a process goes on writing to or reading
from the file it has opened after its name has moved. **`AtomicFile`** is the
abstract register: a load returns the value that was current when it was opened,
and a save takes effect at once, or never. `RegistryFile` implements it when
saves do not overlap (`AtomicSaves`).

**`RouteDaemon`** is the goroutine `WatchAndRebuild` with the route table, against
`registry.json` and `tunnels.json` that change at any moment. Every read of a
file is a step, every critical section is a step. `BuildRoutes`,
`BuildTunnelRoutes`, `Swap` (`UpdateWithAllocations`), `Merge`
(`MergeTunnelRoutes`) and `Lookup` are the functions of the same names. The registry
is a set of claims of names to ports, so that a name may have several owners:
`rename` and `promote` do not look, and two services with one primary hostname load. The
last claim that Go's map iteration comes to wins, so `BuildRoutes` and
`BuildTunnelRoutes` are the sets of tables that may come of a registry.

**`HealthChecker`** is the part of the dashboard that starts and stops: the handler of
every browser (`Subscribe`, `CountConnected`, `Start`; `Leave`, `CountLeaving`,
`Stop`, `Unsubscribe` are separate critical sections of `handleSSE`) and the `run()`
goroutine of every `Start` (`Check`, `Select`, `Tick`, `Return`). `run()` evaluates
`h.stopCh` and `h.ticker` without the mutex; what it may see is any value assigned
since it last held the mutex, independently for the two. The goroutines are a
sequence, goroutine `k` being the one that `Start` made with channel `k`. What
probes find and which events are sent is left out: nothing above depends on it.
A stopped ticker does not tick any more, as in every Go since 1.23 (`go.mod`
asks for 1.27).

**`Dashboard`** extends `RouteDaemon`: the same watcher now calls `OnUpdate` after each
update of the table, which refreshes the cache of `tunnels.json`, builds a snapshot
and sends it (`RefreshCaches`, `BuildUpdate`, `SendUpdate`); the health checker's
goroutine does the same when it finds a change (`OnHealthChange`,
`RefreshOnChange`, `SendChange`); a browser subscribes, is sent a first snapshot and
then reads its channel, which drops what does not fit. Seen without the dashboard's
variables every step of it is a step of `RouteDaemon` or none
(`DashboardImplements`), so what is proved of the daemon alone holds of both.

**`ShareSession`** is `outport share`: `StartAll` with a goroutine for every tunnel
(`Spawn`, `Select`: URL, end of output, deadline or signal, whichever of those that
are ready), `Collect`, the stop functions, then `WriteState`, the prompt, `WriteUrls`,
`Save`, the wait for a signal and the deferred `CleanUp`, `Stop`, `Restore`. Next to a
session run `up`, `down`, edits of the config and another session; their own
interleavings are those of `OutportCli` and so they are one step each here. Of the
registry only the version of the ports and the approval of an external file are
kept, of a block its version and whose URLs it holds. The output, JSON or text, QR
codes and the parsing of what cloudflared prints are left out.

**`CertStore`** is `GetCertificate` step by step: the read of the memory, the lock, the
second look, the files, generation, the two files one after the other, each of which
a kill may leave partial. Time passes, the cache is deleted, the CA is exchanged, the
daemon starts again with whatever CA is there. A certificate is its key, the CA that
signed it and its expiry.

**`SystemSetup`** has the commands `system start`, `stop`, `restart`, `uninstall`, `setup`,
`setup --reset` and the restart after an upgrade, on Linux. A command is a program
counter over the steps of the code; every step that calls a program or writes a file
may fail or be killed half way. Around it the machine reboots, another binary is
installed, the resolver's file is edited, another server takes the ports.
**`Doctor`** adds the checks of `outport doctor` as operators over that state.

**`Dotenv`** has `Merge` and `RemoveBlock` on the lines of a file, **`ProjectConfig`** has
`Load`: the merge of `outport.local.yml`, normalisation, the rules of validation,
references and the expansion of templates. **`EnvFiles`** puts them together: a user who
edits the two configs and the lines of a file, markers included, and commands that
write and clean the files. A config names paths, and several may be spellings of one file
(`FileOf`): variables are collected for every path and merged path by path, in
alphabetical order.

The definitions marked "Mutant" or "for the mutant" next to an action are plausible errors in it. No
specification uses them; putting one in the place of the original must break the
property it is listed with in `PROJECT.json`.

## 3. What the runs check

| Run | Instance | Checks |
|---|---|---|
| `cli_concurrent` | 2 processes, 3 commands, all commands, kills and failures, a config that gains a service, a directory under two paths | `TypeOK`; `PortsDisjoint`: neither the file nor any copy gives a port to two instances; `ReservedNeverGiven`; `OneEntryPerDirectory` |
| `cli_files` | 1 process, 4 commands, 2 checkouts of a project that declare 1 and 2 services and an external file; configs change or go, a directory vanishes and returns, kills and failures, `rename` from elsewhere | `EnvMatchesRegistry`: whenever nothing runs, the settled `.env` of every entry says what the entry says; `NoOrphanBlocks`: no settled file has a block of an instance that is not registered; `MovesKeepAllocations`, `UpKeepsDirectories` |
| `cli_edits` | 1 process, 4 commands, 2 directories, one under two paths; services, env files and project names change, directories vanish, prompts are declined, kills; an instance name of one project makes a host name of the other | `UpKeepsPorts`, `UpRepairs`, `PruneLeavesOneEach`; `NoNewClash`: no `up` takes a name somebody else has |
| `alloc_loop` | 5 ports, every set of used ones, a reserved one inside and one outside the range | `NothingSkipped`, `MeetsItsPromise`, `Terminates` |
| `file_atomic` | 2 writers in turn, 2 readers, files of 1 and 2 blocks, 4 inodes, kills | `ReadsWhole`, `AtomicSaves` (implements `AtomicFile`) |
| `routes` | 2 names and a subdomain, 3 ports, a registry in which each name has one owner and one in which a name has two, 1 tunnel, 2 writes, 1 restart, 1 browser, 1 health event | `RoutesAgree`, `RegistryServed`, `TunnelsServed`, `Uninterrupted`; `DashboardCatchesUp`: when the files and the browser come to rest, so does the daemon, and it serves and shows what is on disk |
| `health` | 2 browsers, 4 visits, so that up to 4 goroutines overlap | `NoneLost`: a goroutine waits on a channel that is closed or will be; `CheckedIffWatched`; `RunnersEnd` |
| `system` | all commands, 2 binaries, 6 CAs, 3 faults | `NothingOutlivesCA`: nothing trusts or signs with a CA that is gone; `DoctorSound`: a clean report can be believed; `ResetRepairs`; `TrustKept`; `RestartUpdates` |
| `certs` | 1 name, 2 handshakes at a time, 2 CAs, 3 units of time, 2 faults | `AnswersGood`, `OneCertPerLife`, `HandshakesEnd` |
| `share` | 2 sessions with 2 tunnels and 1, another command, 1 fault | `AllOrNothing`; `RoutesBeforeTunnels`: the daemon is not told of tunnels that are being stopped; `UrlsTakenBack`; `SessionsEnd` |
| `env_files` | 9 configs, two of which spell one file in two ways, 3 overrides, 6 kinds of lines typed anywhere, 3 edits | `WrittenOnce`: each variable once, with its value; `WriteSettles`: a second run changes nothing; `OwnLinesKept` |

One run ends in a counterexample to something the repository says of itself:

| Run | What it shows |
|---|---|
| `share_denied` | The user refuses `share`'s prompt for an env file outside the project. `runShare` returns an error, and the function it deferred writes all env files, this one included, with the approval given by itself (`share.go:138-143`): `ExternalNeedsApproval` fails. |

### Bounds

- `MaxCommands` (3 or 4) of `OutportCli`. A race needs two commands and one before them
  that registered something. An unbounded number of commands, processes and kills is
  covered by the proofs of section 4 for the invariants proved there.
- The port range has 3 to 6 ports with the reserved one inside it, so that
  allocation wraps, passes the reserved port and runs out. One hash value for all
  services (`MCHashAll`) makes every assignment after the first a collision.
- Ports held by other programs vary in `alloc_loop` only. In the CLI they change which
  port a service gets, never which are given twice, and the proofs cover them.
- Two services suffice for an order between an old and a new one; two
  directories for a main instance and another; three instance names for a
  code that is taken and one that is not.
- Files of two blocks can be torn in every way one cares about: first block of
  one save, second of another. Four inodes are the most that two names and two
  readers can hold at a time.
- `cli_files`: with two checkouts, one `up` in each leaves two commands for a move, a
  second one or a `down`; the configs differ from the start, so that `promote` finds a
  demoted checkout that declares another service than its own.
- `routes`: one name has two owners and so two ports in the second registry, neither of
  which is the one it has in the first; the other name keeps its one port throughout.
- `MaxWrites = 2` in `routes` lets a file change between its event and its read;
  `RouteDaemon` alone was also checked with three writes, the third before the
  merge. `MaxRestarts = 1` separates a fresh table from one that has lived. A
  channel of one place (`ChanSize`, 16 in the code) is full after one event, so that
  dropping happens; one browser, because the broadcaster treats each alike and
  nothing passes between them.
- `MaxVisits = 4` of `health` gives an old goroutine two newer channels to pick up, and one
  more start after that; three browsers with three visits were checked as well.
- `system`: two binaries are an old and a new one. Five places may name a CA at a
  time, so six always leave one that is new. `MaxFaults = 3` lets the start, its
  repetition and the command after it each go wrong.
- `certs`: two handshakes make every race for the lock, two CAs an old and a new
  one; six keys are more than the places that hold one, so a new one is always
  there. `Validity = 3`, `Window = 1` and `MaxNow = 3` let a certificate
  enter its window, and the one after it be issued.
- `share`: a session of two tunnels is needed for one to fail beside one that came
  up; the second session shares one of its names. One fault is one failed write,
  kill or exit of a cloudflared. `MaxStarting = 1`: sessions share nothing while they
  start their tunnels, so the two do that in turn.
- `env_files`: three edits are enough to break a marker pair in every way (a second
  begin, a missing end, one before the other) and to change a config in between; a
  file has no more than eight lines when a line is typed.
- Symmetry is used for processes, writers, readers and inodes, in runs without
  liveness properties only.

Deadlock is not checked where the bound makes the end: the CLI, share and `env_files`
runs, after the last command or edit; nor for the loop that has returned and the
daemon with no event left. `file_atomic`, `system` and `certs` do check it.

### Fairness

- `AllocatorLoop`, `WF_loopVars(Step)`: the loop has no wait in it.
- `Dashboard`, weak fairness of the watcher's goroutine with its callback, of the
  health checker's goroutine once it has found a change, and of a connected browser
  that reads: the goroutines wait for nothing but events and never block on a send
  (`broadcaster.go:39-44`). Whether a browser that has stopped reading is still served is
  not asked.
- `HealthChecker`, `WF_vars(Run(r))` for every goroutine: it waits for nothing but its
  select, and tickers tick.
- `CertStore`, weak fairness of each handshake's steps and strong fairness of taking the
  lock, for reading or for writing: `sync.RWMutex` lets no waiter starve.
- `ShareSession`, weak fairness of a session's main function, of the goroutines of
  `StartAll`, of the deadline and of the wait for a process that was told to stop,
  which is killed after three seconds (`cloudflare.go:141-152`).

Nothing is assumed about commands, users, browsers, restarts, signals or what
cloudflared prints, all of which are optional. No fairness is assumed of CLI
processes, which may stop at a prompt for good.

## 4. What is proved

All theorems hold for every value of the constants that satisfies the `ASSUME`s of
the modules: any number of processes, directories, projects, ports, names, files, tunnels, handshakes and
CAs, and of kills. The type invariants of `AllocatorLoop`, `RegistryFile` and
`RouteDaemon` are parts of the inductive invariants there; those of the other
modules are theorems. That of `EnvFiles` (`EnvTypeOK`) is stated with the proofs.

**`OutportCliProofs`**, for any number of commands that overlap: `TypeCorrect`
(`TypeOK`), `PortsNeverShared` (`PortsDisjoint`), `ReservedNeverAllocated`
(`ReservedNeverGiven`) and, if no directory changes its project's name, `OneEntryEach`
(`OneEntryPerDirectory`). What is on disk is not enough for an induction: a process
saves the copy it made long ago. The invariants therefore speak of every copy in
existence (`Copies`), and the reason they survive lost updates is that a copy is only
ever made from one registry by operations that keep ports and directories apart; two
copies may well contradict each other, but they replace one another as a whole. The
lemmas say for each registry operation that it preserves this: `Set` with ports not
taken by others, `Remove`, moving an entry to another key, pruning. A promote between
its halves needs a part of its own: the entry it will move must still be in its copy.
`DirInv` adds to "one entry per directory" that an entry's project is the one its
directory names, without which the instance found for a directory need not be the
entry it was found in.

The other theorems of this module are about commands that run one at a time
(`OneAtATime`), with kills, failing files and edits in between. The registry is then
still the one a command read, and each theorem rests on what the command owes to it at
every step until it saves (`Pledge`):

| Theorem | Property | Beyond `OneAtATime` |
|---|---|---|
| `UpTakesNoPortAway` | `UpKeepsPorts` | |
| `UpTakesNoDirectory` | `UpKeepsDirectories` | `NamesStay` |
| `MovesLoseNothing` | `MovesKeepAllocations` | |
| `NamesNotTaken` | `NoNewClash` | |
| `PruneSparesOne` | `PruneLeavesOneEach` | `ConfigsOnlyGo` |
| `UpLeavesItRight` | `UpRepairs` | `GoneForGood` |
| `EnvAgrees` | `EnvMatchesRegistry` | `NamesStay` |
| `NoBlockOrphaned` | `NoOrphanBlocks` | `NamesStay` |

`MovesLoseNothing` counts entries: a move is an injection from the old keys to the
new ones. The last two are about `HSpec`, with any configs, edits, kills and failures.
Registry and files agree only when no command runs. In between, `HistInv` says which of
them are out of step and why: an unsettled file, one that is written already (`written`)
and will agree with the copy that is to be saved, or one whose write is still pending
(`Right`). `Suits` and `Ready` say what a command owes until it saves: every file of
every entry it changes is written or about to be, and what is written says what the copy
says; for each command a lemma shows that its plan does so (`UpReady`,
`DownReady`, `MoveReady`, `PruneReady` and those of the two halves of `promote`), and
`SaveRight` that the copy, once saved, then agrees with all but the files that `HSave`
makes unsettled.

**`AlgorithmProofs`** is about the two algorithms at the bottom. Of the allocator's loop:
`AllocateSkipsNothing` (`NothingSkipped`) and `AllocateMeetsItsPromise`
(`MeetsItsPromise`). The invariant is that every port fewer `Steps` from the hash than the
current one was unavailable at some time during the call.

Of the `.env` files: `PortsAlwaysWin` (`WrittenOnce`), `WritingSettles` (`WriteSettles`)
and `OwnLinesAreKept` (`OwnLinesKept`), for files of any length, any number of edits, and
every config that loads, of a file that a config spells in several ways for the variables
of its last spelling. The state alone does not say enough for an induction: what
a merge leaves depends on the text it started from. `AsWritten` therefore says that after
an `up` or a `share` every file is the `Merge` of some earlier text, and the
properties are facts about `Merge` and `RemoveBlock` for every text:

- `Merge` is made of parts (`MergeIs`), and what `Keep` keeps of them is known part by
  part (`KeepCat`). The block has each managed variable once (`KeepOnce`), what
  stands around it none of them (`MergeValues`). That the value is the right one
  needs the rules of validation: two services with a file in common differ in their
  variables, and no computed value has the name of a service's (`ServiceValue`,
  `ComputedValue`). This is where a `Load` that validated before it merged
  `outport.local.yml` would fail.
- `SplitBlock` finds the block that `Merge` wrote, whatever stray markers were in the text
  before (`MergedSplit`): those left by earlier edits stand in front of the new block,
  never behind it. A second `Merge` then splits, filters and trims what is
  around the block into itself (`MergeAgain`).
- `OwnLinesAre` relates the user's lines, defined by position, to the two parts of
  `SplitBlock`, for files with at most one marker of each kind, which may stand in
  either order or alone; `MergeKept` and `RemoveKept` follow.

The operators on sequences are defined by recursive functions or through `Max` of a set of
positions. The facts about them are proved by induction over positions, where the set
of counterexamples of one given formula has a least element (`Least`, `Induct`,
`SeqInduct`): a theorem with a set as its parameter, not an operator.

**`RegistryFileProofs`**: `LoadsAreWhole` (`ReadsWhole`) and `SavesAreAtomic`
(`AtomicSaves`), both under `Exclusive`, that no two saves overlap. The invariant
separates the file being written, the file the name denotes and those that only
readers still have open: the latter two hold one whole value, no writer has them
open, and what a reader has read is a prefix of its file.

**`RouteDaemonProofs`**: `TableAgrees` (`RoutesAgree`), `NamesUninterrupted`
(`Uninterrupted`), and, under `QuietStart`, `TableCatchesUp` (`RegistryServed`) and
`TunnelsCatchUp` (`TunnelsServed`). A
name with one owner is routed to its port without interruption, one with several to
one of their ports, whichever of its outcomes every rebuild takes. The
invariant ties routes and wildcards to the allocations they were built from, and
says of the watcher that whenever table and file differ, an event is queued or a
rebuild is due; `ServedInv` says the same of the tunnels, which every rebuild drops. All
four follow from `Safety`, the daemon without its fairness, and
`DashboardImplements` shows that `DashSpec` implies it: hence
`DashboardTableAgrees`, `DashboardUninterrupted`, `DashboardTableCatchesUp` and
`DashboardTunnelsCatchUp` for the daemon together with its dashboard.
`BrowserShowsLatest` is the safety half of `DashboardCatchesUp`: whenever nothing is under
way to a browser, it is shown what is served. `PageInv` follows the snapshot that will
reach the browser last, through the cache, either goroutine's hands and the channel;
as long as the two goroutines do not overlap and nothing is dropped, it is of the
present table and of tunnels read after the last change, or a rebuild's callback will
send another.

**`HealthCheckerProofs`**: `NoGoroutineLost` (`NoneLost`) and `ChecksWhileWatched`
(`CheckedIffWatched`), the latter about browsers that take turns, any number of
them. The first rests on an invariant about channels: every one made so far is
closed, except that of a running checker; hence it does not matter which of them a
goroutine has picked up. The second says for each step of the one browser that
comes or goes what the client count and `running` are. `HealthTypeCorrect` is the
type.

**`SystemSetupProofs`**: `TypeCorrect` (`SetupTypeOK`), `NoTrustOutlivesCA`
(`NothingOutlivesCA`), `TrustNotTaken` (`TrustKept`), `RestartReplaces`
(`RestartUpdates`), `ResetCompletes` (`ResetRepairs`) and `CleanReportTrue`
(`DoctorSound`). What a command has achieved so far is read off its program counter:
the invariant says for every step of the start and of the reset which of the files,
trusts and services are in place there, and that a step which failed ends the
command without the outcome `ok`. For the CA it says that anchor, bundle and daemon
name the CA on disk or none, which is why the order of `uninstall`, trust first and
file last, matters.

**`CertStoreProofs`**: `CertTypeCorrect` (`CertTypeOK`), `AnswersAreGood` (`AnswersGood`),
`OneCertificate` (`OneCertPerLife`). The invariant says who holds the lock (a
handshake between `Lock` and its release, nobody else), that what the holder has
made was signed by the loaded CA, and that a host without an entry in memory was
never answered. Kills empty the memory and the lock together.

**`ShareSessionProofs`**: `ShareTypeCorrect` (`ShareTypeOK`), `StartsAllOrNothing`
(`AllOrNothing`), `RoutesEndFirst` (`RoutesBeforeTunnels`), `UrlsAreTakenBack`
(`UrlsTakenBack`). `TunnelInv` gives the states of process and result that each step
of a session allows; `RoutesInv` says at which steps the state file may name a
session, `UrlInv` that a session which is not over knows each file with a URL of its
own.

### Assumptions

- `Exclusive` is a restriction of use, not a property of the code: nothing in it
  keeps two saves apart (section 5, Disagreements).
- `QuietStart`: no registry is saved between the daemon's first read and its watch,
  and no share starts before the watch. The window is short and nothing in the
  code closes it: the table is built before the directory is watched
  (`routes.go:250`), so a save in between is served only after the next one.
- `OneAtATime` is a restriction of use as well, for the theorems of the table above: two
  commands lose each other's updates (section 5, Disagreements). `NamesStay`,
  `ConfigsOnlyGo` and `GoneForGood` say how a developer edits: no directory
  changes its project's name, gets a config it did not have, or comes back after it was
  deleted, while a command runs. The instance of `cli_files` satisfies
  `OneAtATime` and `NamesStay`, that of `cli_edits` what the theorems on its properties
  assume.
- `FilesApart`: an external env file is not the `.env` of a checkout. `PathsOnce`: each path
  stands once in the alphabetical list.
- `Sentinels`: the values for "no entry", "no command", "no config" and "no directory" are
  none of the things they stand beside.
- The hash is any function into the range (`HashPort`, an FNV-1a hash modulo the
  range in the code).
- Which files exist and which paths denote the same directory does not change while
  a path is compared (`SameFile` is a constant).

- `NamesOnce`: `VarNames` lists each variable once and not the empty name, which
  `parseVarName` returns for a line that assigns nothing. `EnvConstants`: the variables
  and files that a config mentions are among `VarNames` and `Files`, and the values for
  "no file" and "nothing written" are no text and no config. `BodiesAreTemplates`:
  the bodies inside a template are templates. `PortBounds`, `LoopConstants`: the range is
  not empty and ports are numbers.
- `CertStore`: the renewal window is shorter than the validity (`TimeAssumption`), and
  `None` is no entry of the memory (`EntryAssumption`). A key pair is generated only
  while some key is unused, of which there are always some in the code.
- `ShareSession`: an instance has at least one version of its ports
  (`BoundAssumption`).

### Only model-checked

- Liveness, which the prover does not reach: `Terminates`, `DashboardCatchesUp`,
  `RunnersEnd`, `HandshakesEnd`, `SessionsEnd`.
- What `ExpandVars` computes from a template. The theorems say that the files have its
  result, whatever it is.

## 5. Where properties stop

Conditions under which a property is claimed, because outside of them the code does
something else:

- `NoNewClash` for `up`, `down` and `prune`: `rename` and `promote` compute new hostnames
  and store them without the check `up` makes (`rename.go:63-68`,
  `promote.go:88-93`). It holds for one command at a time.
- `OneEntryPerDirectory`, `UpKeepsDirectories` with fixed project names: `Resolve`
  takes the instance name from whatever entry denotes the directory
  (`instance.go:88`), `up` stores under the name in the config. After the name
  changed, the directory has two entries, or takes over the entry with the same
  instance name of a project elsewhere. `prune` repairs the former
  (`PruneLeavesOneEach`); which of two main entries it keeps depends on map
  order (`registry.go:309`).
- `EnvMatchesRegistry` and `NoOrphanBlocks` for files that are settled, and for one command
  at a time. A file is unsettled, until the next command that writes it saves, after
  - a command that wrote it and ended without saving: refused, failed or killed. `promote`
    writes the demoted instance's files before it asks about the promoted one's
    (`promote.go:96`). So is a file that `down` could not clean (`envfiles.go:163`);
  - `promote`, or `rename`, with a config that declares other services than the entry has
    ports for. `promote` rewrites the demoted checkout's `.env` with the config of the
    promoting one (`promote.go:64-69`): when that one's branch declares fewer services,
    the demoted `.env` loses a port its entry keeps, when it declares more, it gets a 0
    (`envfiles.go:126-133`);
  - `rename` of an instance that lives in another directory: the code regenerates the env
    files of the directory it runs in (`rename.go:72-84`), so the one's ports are
    written into the other's `.env`, and the renamed one's stays as it was;
  - `promote`, for an external file that only the demoted checkout's config lists: its block
    keeps the old instance name (`promote.go:64-69, 92-97`);
  - an edit that takes it out of the config, or the config or the directory away: `down`
    cleans the files the config names now (`envfiles.go:162`).
- `Uninterrupted` for a name with several owners says less: map iteration order may give it
  another of their ports at each rebuild, though nothing about it changed
  (`routes.go:158-173`), and its tunnels as well (`routes.go:189-217`).
- `WrittenOnce` for the last spelling of a file: a config may name `x/.env` and `./x/.env`
  (`config.go:531-540` compares them as written), the block of the second merge replaces
  that of the first (`envfiles.go:126-153`), and the variables of the first are gone.
- `CheckedIffWatched` as long as browsers take turns (`crowded`): client list and
  health checker have different locks. Two browsers that connect together both
  count two clients and no checks start (`handler.go:253`); two that leave
  together both count two and the checks go on with nobody connected
  (`handler.go:266`), although they are "only active when at least one SSE client
  is connected" (`daemon.go:75`). A browser that connects while the only other one
  leaves may also end up without checks. What was not stopped ends with the next
  browser that leaves alone; what was not started starts with the next one that
  connects alone, after all others have left.
- `TunnelsServed` as long as the daemon is not restarted: its first build does not
  look at `tunnels.json` (`routes.go:250`).
- `DashboardCatchesUp` for a browser whose last event found room in its channel
  (`missed`: `broadcaster.go:42` drops it, and no later event need follow) and while
  the watcher's and the health checker's last calls do not overlap (`crossed`: each
  builds a snapshot and sends it later, so the older one may be sent last,
  `handler.go:286-334`).
- `NothingOutlivesCA` unless an `uninstall` went on after a failure (`leftover`): it
  ignores the errors of unload and untrust and deletes the CA (`system_start.go:169`).
- `DoctorSound` if the CA's files and the system's trust in it are whole (`Trusted`):
  `doctor` looks for the anchor file, not at what it or the bundle holds
  (`linux.go:240`), and a certificate that can be parsed is all it asks of the CA
  (`checks.go:232-290`).
- `AnswersGood` counts from when a certificate entered the memory: nothing looks at
  the expiry of one that is there (`store.go:42-48`).
- `UrlsTakenBack` unless the session was killed or warned that it could not write.
- `SessionsEnd` leaves the prompt out: a signal does not end it.
- `OwnLinesKept` for files with at most one marker of each kind.

### Disagreements

Places where the code and what the repository says of it, or what a user would take
for granted, part. `share_denied` is checked; the others are stated here, and the
properties of section 3 are worded so as not to claim them.

- A new service may be given the port of an old one: `up` walks the services in
  sorted order and counts a kept port as used only when it comes to it
  (`up.go:88-97`).
- `up` stores approvals only if it asked for new ones (`up.go:150`), though they are
  kept in the registry so as to be asked for once (`registry.go:64-65`): the second `up`
  saves an entry without them, the third asks again.
- `promote` writes the demoted checkout's `.env` with the promoting checkout's config
  (`promote.go:64-69`); with branches that declare different services it drops ports that
  `up` wrote there, or writes a port 0.
- Of two spellings of one env file in a config that loads, only the variables of the
  alphabetically later one are in the file (`envfiles.go:126-153`), against "port
  assignments always win" (`dotenv.go:19`).
- Two commands at the same time allocate from the same registry: the entry of the one
  that saves first is lost, and two directories have one port in their `.env` files
  (`up.go:155`). The registry itself never gives a port twice.
- Two saves at the same time share one temporary file (`registry.go:159`): one process
  may write into the file the other has already renamed, and a reader gets a torn
  registry, against "atomic" in `registry.go:12-13`.
- `share` removes `tunnels.json` whoever wrote it: of two sessions the one that ends
  first takes the other's routes (`share.go:134`).
- `share` saves the registry it loaded before its tunnels came up (`share.go:206`).
- A certificate in memory is served past the window that the code means to renew it
  in (`cert.go:17-20`, `store.go:42-48`).
- The tunnels shown on the dashboard are refreshed when a port's health changes
  (`health.go:77`), not with "each health tick" and "within one interval"
  (`handler.go:343-351`).
- `doctor` advises `outport system start` for what a start skips when the daemon is
  running, and `outport system restart` for browsers' trust, which a restart does not
  touch. A start whose restart of systemd-resolved failed skips it the next time,
  because the file is there (`linux.go:116`).
- Two services with the same primary hostname pass validation (`config.go:546-552`),
  against `docs/reference/configuration.md:122`, and are routed to one of their ports by
  chance; a reference of the form
  `${service.field:-x}` is not validated, and `${service.url}` of a service without a
  hostname expands to nothing.
- A stray end marker below a managed block takes the user's lines between them with it
  (`dotenv.go:118-136`).

## 6. Not modelled, and the plan

| Part | Status |
|---|---|
| Setup on macOS (`darwin.go`): launchd, keychain, resolver directory | the same commands over other programs; the steps that may fail are others |
| The deletion of `registry.json` by `uninstall` (`system_start.go:207-212`) | the commands of `OutportCli` start from any registry they left, the empty one included; nothing of the installation depends on it |
| `ports`, `ports kill` | a report over the output of `lsof` and `ps`, and a prompt between it and the kill; what can go wrong is how the operating system hands out process ids |
| Proxy forwarding, WebSockets, DNS answers | library code; what it asks of this program is `Lookup`, which is modelled |
| The daemon's life cycle (`daemon.go:248`: one server ends, all end) | planned, with the servers as processes |
| What probes find, the port index and the LAN address on the dashboard | data that no property above tells apart |
| Checks of `doctor` on a project, on the registry file and on cloudflared | reports without state of their own |
| Subdomain flags in `Allocation`; path resolution in `envpath` | data that no property above tells apart |
| X.509, YAML, the formatting of JSON and of output, QR codes | library code or pure formatting |

Next:

1. the daemon's life cycle, composed with `RouteDaemon`: the servers and the watcher
   stop together, and a daemon that ended is started again by the service manager;
2. `ShareSession` composed with `RouteDaemon`'s files: what is served while two sessions
   come and go.
