# StrawNT: specifications, model checking and proofs

StrawNT is a Linux distribution layer that installs, launches and isolates
Windows and Linux applications. Its own logic is a set of Rust crates under
`components/`, an Electron front end (`hub/`), package hooks and image scripts
(`os-image/`) and a kernel stub. This directory specifies that logic: what
several processes or threads share, what a Windows program is loaded, run and
served by, and what the commands leave behind when they fail or are killed. TLC
checks the specifications on small instances; TLAPS proves their main properties
for every instance.

Section 1 is the inventory, 2 the modules and how they correspond to the code, 3
the runs and their bounds, 4 where the code and its own words disagree, 5 the
proofs, 6 what the properties except, and 7 what is not modelled.

## 1. Inventory

| Component | State it keeps | Operations | Interacts with | What is hard | What makes it correct |
|---|---|---|---|---|---|
| App registry store (`strawwu-app-registry/registry.rs`, `entry.rs`, `validate.rs`) | `app-registry.json`, a flock on `.lock`, a temporary file per flush, a copy in memory per process | `register`, `register_new`, `upsert_from_launch`, `upsert_from_install`, `finalize_install`, `remove`, `upsert_from_scan`, `sync_removed_from_scan`, `flush` | every program that installs, launches, scans or removes | many processes, a lock with a deadline and a bypass, kills in the middle of a flush | no lost update, never a torn file, protected entries survive |
| Scan and deep-remove (`main.rs`, `scan.rs`, `deep_remove.rs`) | the packages of the machine, the files of the apps, the registry | `scan`, `deep-remove` | apt, flatpak, the registry | the list is made before the lock; one class of packages only; files first, entry after | an installed app is not marked removed; entry and files agree |
| Interop broker (`strawnt-interop/broker.rs`, `bin/strawnt-interopd.rs`) | grants by token, a queue per channel, one thread per connection | `GRANT`, `AUTH`, `SEND`, `RECV`, `QUIT`, `stop` | Wine programs of two prefixes, the control port | threads on one mutex, clients that vanish, a deadline racing a message | FIFO, delivery at most once, only granted channels, no thread that hangs |
| App Manager (`strawnt-appmgr`) | `apps.json`, `permissions.json`, programs staged in prefixes | status, list, show, install, uninstall, launch, prefix, recipes, channel, permissions, sysapps | registry mirror, engine | two files, no lock, writes in place, a program before its entry | default deny, both files agree, a damaged file is kept, an entry has its program |
| Launcher (`strawwu-launcher`) | the parsed command line, install directories, shortcuts | `run`, `open`, `install`, and the commands of the other crates | registry, loader, App Manager, engine | two passes over the arguments; registering before loading; unpacking and removing one directory | no word dropped, the exit code tells, an installed entry has its files |
| Engine (`strawnt-engine`) | Wine prefixes, their template and index, recipes applied, `matrix.json` | create by wineboot or clone, apply a recipe, set and seed the matrix | Wine, winetricks, `cp` | directories filled bit by bit by programs that fail, hang or are killed; files written in place | PASS means a complete prefix; the marker means the shim |
| System apps (`strawnt-sysapps`) | `last-run.json`, `LAUNCHED`, prefixes of the roles | launch a role | engine, App Manager | stopping between two writes | what was answered is written down |
| Runtime orchestrator (`strawwu-runtime`) | sessions, process table, default session | `launch_app`, `terminate_app`, `create_session`, `execute_pe`; spawn, suspend, resume, terminate, reparent | launcher, NT loader and pipes | relaunching, sessions created again, failures half way | a live process is listed by its session only |
| NT personality (`strawwu-nt`) | pipes, sections, events, ALPC ports; memory regions; files, windows, messages; registers and stack; images and stubs; packages | NT and Win32 calls, `Cpu::step`, `PeLoader::load`, `unpack` | runtime | wake-up order, full buffers, wrapping sizes, mixtures of calls, malformed files | no wake-up or byte lost, regions apart, calls return, imports reach their stub, whole or refused |
| Device proxy (`strawwu-device-proxy`) | IOMMU groups, containers, DMA mappings, device list, IOCTL rules and log | scan, bind, attach, open, map, unmap, hotplug, evaluate | kernel VFIO | order of calls, stale viability, bounded log | only admitted groups are attached; paths are unique |
| Audio and input (`strawwu-audio`) | stream ids, ring buffers, controller slots | create, write, read, release; connect, vibrate | host audio | reuse of ids | two open streams have two buffers |
| Graphics (`strawwu-graphics`) | handles of Vulkan, WGL, Direct3D 11 and DXGI objects | create, present, destroy, make current | host driver | order of creation and destruction | what stands has what it stands on |
| Bridge, anti-cheat, command line, kernel stub | tables, reports | – | – | – | – |
| Hub (`hub/`) | none of its own | runs the command line tools | all of the above | – | – |
| OS image and hooks (`os-image/`) | – | `apt-post-invoke`, flatpak trigger | registry scan | which scan a hook asks for | see scan |

How they interact: programs share files, not memory. The launcher and the
installer open the registry for one session each (`launcher/src/registry.rs`);
`scan` is started by apt and flatpak triggers, by hand and by a service; the
App Manager mirrors its database into the registry and asks the engine for
prefixes and recipes. The broker is a daemon on TCP that talks to the clients and
to a control port. A Windows program that the launcher runs is parsed, loaded and
interpreted in the launcher's own process; pipes, memory, files and windows are
called from the interpreter, one call at a time.

`PROJECT.json` lists, under `hazards`, each place where one of these can go
wrong in a way a test would hardly reach, and the property that covers it.

## 2. Modules

### What programs share

| Module | Models | State and actions |
|---|---|---|
| `RegistryFile` | content of the registry, and the effect of each operation of `RegistryStore` | no state. `Effects(f, r)`: the set of files the request `r` may turn `f` into; empty if it writes nothing (an error, or a skipped entry) |
| `RegistryAbs` | what the registry promises: each request applied whole to the current content | `reg`, `job`; `Open`, `Apply`, `Skip`, `Stop` |
| `AppRegistry` | lock, read, change, flush, release, kill, for any number of processes | `disk` is `app-registry.json`; `tmp[p]` the temporary file of `p`; `lock` the flock; `mem[p]` is `RegistryStore.data`; `job[p]` the requests that `p` still has to make; `pc[p]` where it is in `RegistryLock::acquire`, `open_at` and `flush`. One action per system call that other processes can see |
| `RegistryScan` | `cmd_scan`, `deep_remove` and one-request sessions of others against a machine whose packages change | `reg`, `lock`, `shown` (what the machine lists), and the local variables of `cmd_scan` (`found`, `todo`) and of `deep_remove` (`target`); `seen`, `asked` and `unread` remember the machine at the time of discovery, the classes asked for and what could not be read |
| `InstallWorld` | `native_install`, launches and `deep_remove` with the files and shortcuts on the disk | `reg`, `lock`; `files[d]` the pieces in a directory, `shortcut` the desktop entries; `job[p]` the place and arguments of a command. One action per file deleted or unpacked; `spoiled`, `purged`, `listed` record overlaps and stops |
| `InteropBroker` | the broker: one process per connection thread | `grants` and `queue` are `Inner`; `pc`, `authed`, `held` are the locals of `handle_client`; `line` and `alive` are the client's side of the socket; `granted`, `who`, `sent`, `taken`, `inbox`, `lost` record what was done |
| `AppManager` | the commands `apps ...` as processes on two files | `db` is `apps.json`, `grants` is `permissions.json`; `pc`, `cmd`, `mem`, `gmem` are a command's place, arguments and copies; `allowed` and `owed` record what the user granted and what a running revocation takes back; `failed` whether a command broke off. One action per system call on a file |
| `AppPrograms` | the programs an install stages: prefix, recipe, directory, copy, entry, mirror | `filling[b]` and `program[b]` are a prefix and the programs in it, `app` the entry, `mirrored` the registry mirror, `deed` the command under way |

### What the user starts

| Module | Models | State and actions |
|---|---|---|
| `LauncherCli` | `cli.rs`: the arguments of every subcommand, in one pass or two | `line` the words, `parsed` the command; one action per parse function |
| `LauncherRun` | `run`, `open` and `install` of `main.rs` with `detect.rs`, `open.rs`, `loader.rs`, `install_native.rs` | `file` and `env` what is there, `entry` and `menu` the registry and desktop entries, `call` the command under way, `ran` what was executed |
| `LauncherCommands` | what the other commands ask of the machine, answer and exit with | `machine`, `scratch`, `bench`, `told` |
| `EnginePrefix` | `create_prefix` by several processes: template, wineboot with its deadline, `cp -a`, index | `dir[d]` how far a prefix or template is filled, `maker[d]` by whom, `index` the file, `cmd[c]` a command; `overlap`, `stopped`, `result` record the run |
| `EngineRecipes` | `apply_recipe` on a prefix, write by write | `shims`, `regFiles`, `marker`, `applied`, `torn` (the record cut short), `has` and `vendored` what is there, `step` the command |
| `LauncherExits` | `LauncherRun`, `LauncherCommands` and `SystemApps` side by side, for the one property of all exit codes | no state of its own |
| `SystemApps` | the launch of a role, and `matrix.json` | `rows`, `cut` the matrix; `lastRun`, `stamped` what was written; `bottles`, `world`, `launch`, `answer` |

### What a Windows program runs on

| Module | Models | State and actions |
|---|---|---|
| `ProcessGraph` | the process table, `process.rs` | `node`, `nextPid`; spawn, suspend, resume, terminate, reparent |
| `RuntimeSessions` | the orchestrator and `execute_pe` on top of it | `sessions`, `default`; `ctx` the execution under way, `home` the session each process was launched into, `report` what was told |
| `NtIpc` | `ipc.rs`: pipes, sections, events, ALPC ports | one state, initial predicate and next-state relation per namespace; `told`, `read`, `stored`, `posted`, `received`, `asleep` record what callers were told |
| `NtMemory` | `VirtualMemoryManager`, with arithmetic modulo `WordSize` | `regions`, `nextBase`; `written`, `freed` record |
| `GuestFiles` | the file calls of the interpreter on the virtual file system and the mirror directory of `execute_pe` | `files`, `handle`, `host`, `stdout`; `stale` records |
| `GuestWindows` | windows, messages and device contexts | `classes`, `window`, `queue`, `contexts`, `gui`; `gone` records |
| `GuestCpu` | what `Cpu::run` does to control flow, `rsp` and return addresses: calls, stubs, locals, moves of `rsp`, stores, returns | `rip`, `rsp`, `halted`; `memory[a]` a piece of a return address, or data; `frames` the calls that have not returned, `tidy` whether the program kept to what the property asks of it |
| `NtImage` | `PeFile::parse`, `PeLoader::load`, the stub table | `image`, `imageStep`, `mapped` what memory holds, `importAt` the entry under way, `resolved` with the slot of each, `stubs` |
| `NtPackage` | an installer built, downloaded in part, parsed and unpacked | `built`, `blob`, `todo`, `installed`, `answer` |
| `DeviceProxy` | VFIO, hotplug, IOCTL policy | three parts with variables of their own; `devices` is the list, in which an address may stand twice; `plugged` the virtual devices with both paths; `admitted`, `scanned` and `known` record how many entries a scan or a binding saw |
| `AudioInput` | streams of `WasapiBridge`, slots of `XInputSubsystem` | `active`, `buffers`, `inMap`; `callers` records what each caller wrote and read and whether it was `alone` in its stream; `pads` |
| `HostNames` | hotplug and streams side by side, for the one property of names made by counting | no state of its own |
| `Graphics` | Vulkan, WGL, Direct3D 11 and DXGI handles | `vk`, `glContexts`, `current`, `resources` |

The modules of proofs are `AppRegistryProofs`, `RegistryScanProofs`,
`AppManagerProofs` and `InteropBrokerProofs`; `LauncherProofs` (installs, exit codes, the
command line, recipes, staged programs, and all of `MCLauncher` together); `GuestProofs`
(what serves a Windows program) and `HostProofs`, which extends it (sessions, devices, sound,
graphics, prefixes, and all of `MCSubsystems` together); and `LoopLemmas`, induction over
numbers and loops for those two. Those for TLC are `MCAppRegistry`, `MCRegistryScan`,
`MCInteropBroker`, `MCAppManager`, `MCLauncher` and `MCSubsystems`.

`AppRegistry` extends `RegistryFile` and instantiates `RegistryAbs`; `RegistryScan`
and `InstallWorld` extend `RegistryFile` and treat a locked session as acting on
the file itself, which `HolderIsCurrent` and `RefinesAtomic` justify.
`RuntimeSessions` extends `ProcessGraph`: a launch is a spawn, a termination ends the
node and leaves the session in one step. `AppPrograms` uses of a prefix and of a
recipe what they leave behind, whose steps are in `EnginePrefix` and `EngineRecipes`.

Operators introduced by a comment `Mutation:` are plausible bugs of the
definition that follows them. No specification uses them: putting one in
the place of its definition must make TLC find a property violated, which shows
that the property says something of that code (`mutants` in `PROJECT.json`).

### Correspondence with the code

- *Session.* The launcher runs a one-request session; a scan is a session of one
  `upsert` per discovered app and a `sync`. `Begin` chooses one of `Jobs`.
- *Lock.* `Acquire`, `Busy`, `Timeout` are the polling loop of
  `RegistryLock::acquire`: a process can give up after the lock was released,
  since it looks at the clock after a failed attempt. `Bypass` is the error path
  of opening the lock file. The lock is a flock: `Crash` releases it.
- *Flush.* `CreateTmp`, `WriteTmp`, `Rename` are the three calls of `flush`; each
  may fail (`FlushFail`), and only a failed rename removes the temporary file.
  A failed flush ends the session, its copy in memory is not taken back.
- *Sync.* `sync_removed_from_scan` flushes after each removal, so the request
  `sync` stays at the head of `job[p]` until it has no candidate left. The order
  in which it takes the candidates is left open.
- *Scan.* `Discover` precedes `Open`, as `scan_apps` precedes `open_store`. A directory,
  a package list or a `.desktop` file that cannot be read, and a `flatpak list` that fails,
  are missing from the list (`Unreadable`); none of them ends the scan.
  `Upsert` takes the discovered apps in any order. `Close` is also the failure, the
  lock timeout and the kill, at any point. `Execute` and `Mark` are separate steps
  of `deep_remove`: the machine changes first, the registry after.
- *Files.* In `InstallWorld` a directory is cleared, unpacked and deleted piece by
  piece. `native_install` does so before it opens the registry; `deep_remove` holds
  the lock from the plan to the mark. A directory outside the allow list is not deleted.
- *Broker.* Each action on `grants` or `queue` is one critical section of
  `Mutex<Inner>`. `RECV` is three steps: `HandleRecv` starts the poll,
  `Poll` takes a message under the mutex, `Answer` writes it after the mutex is
  released; a client may leave between any two. `RecvTimeout` is the deadline,
  which may pass after a message came.
- *App Manager.* `LayoutDb` and `LayoutPerms` are the two `exists()` of
  `ensure_layout`; `TruncateDb` and `FillDb` are the open and the write in
  `fs::write`; `Load` is `load_db` with the change the command makes of it
  (`Edited`), which other processes do not see before the write. A grant or a
  revocation goes on with `LoadPerms`, `TruncatePerms`, `FillPerms`. A revocation
  of an app that is not there still changes the grants. `list`, `status` and
  `sysapps` save the database with the system apps registered; their later read
  changes nothing and is left out.
- *Command line.* A command is one state after its words: the words a subcommand
  takes from the front, the flags and options its loop knows, what the second pass
  makes of the marked prefixes. Each parse function is an action on a line of its
  subcommand; the loops are recursive functions over the words (`Loop`).
- *Run.* `validate`, `register`, `load` and `execute` follow each other in the order
  of `launch_app`; an installation goes through `unpack` or through the pending entry
  first. Whatever backend is named, the program runs in this process
  (`launch_via_native`).
- *Other commands.* Each is one action, or one per step where a kill in between leaves
  something: `engine hello` and its temporary prefix, `bench`. `apps launch` of a system app
  with a role launches the role, without repository or Wine.
- *Prefixes.* A prefix is absent, bare, partial or complete: `is_initialized` says
  yes from `partial` on. `BootProgress` is wineboot writing, `BootExit`, `BootFails`
  and `BootTimeout` its three ends. The index is read and written in two steps, and
  another command may come between.
- *Runtime.* The orchestrator is borrowed mutably for the whole of `execute_pe`, so
  nothing else comes between its steps; they are separate since each may be the last.
- *Shared objects.* One action per public operation of `ipc.rs` that returns `Ok`; an
  error return changes nothing. A write into a pipe takes what fits and says how much.
- *Processor.* Code is data: what `step` decodes at `rip` may be any instruction, so
  every group of opcodes may be next (`sub rsp` and `add rsp` of a negative operand are each
  other). A call of a stub pushes nothing, a near call pushes, a `ret` that reads the
  sentinel ends the run. `rsp` may be set to anything; a store, and the system calls that
  write where the program says, may overwrite return addresses. No access is checked against
  the stack: a push below it goes into the region that lies there, and faults only where
  nothing is mapped.
- *Image.* `Parse`, `CopySection`, `Mapped`, `Resolve`, `NextDll`, `Ready`, `BuildPeb`,
  `RegisterImports` follow `PeFile::parse`, `PeLoader::load` and the set-up of the
  processor; `copied` and `importAt` are their loop counters. `Resolve` writes the stub into
  the bytes that the sections were copied to; a slot outside the image is not written, and
  the loader ignores that.
- *Package.* `Download` ends after any number of cells. `Decode` reads as many files as the
  header says; `Trailer` looks for an archive from the last cell alone, as
  `find_swup_trailer` does, whatever file that cell was a part of.
- *Devices.* `AddDevice` appends without looking; every other operation finds the first
  entry of an address (`IsFirst`). A plugged device's Linux path is made of its subsystem
  and the number of devices; those of `default_device_map` may share one.

### Abstractions

- Names, categories, icons, desktop texts, timestamps and the log are
  left out, as are `dry_run` and the listing operations, which change nothing.
  Ids that `validate_id` accepts are model values; a file is a function
  from ids to entries, since validation rejects duplicates.
- A torn file is the value `Torn`: a truncated JSON text that `open_at` rejects.
- A temporary file carries the process id in its name, so it is one per process.
  One left behind by a kill stays and is never read.
- Loss of the page cache (a power failure after `rename` and before the
  directory reaches the medium) is not modelled: the code does not sync the
  directory.
- Of a manifest, `AppManager` keeps the states some command sets, the protection
  (`protected` and `system_app` are always set together) and the permissions. The
  engine's work for an install, a prefix or a recipe comes before the write and is part
  of the step `Load`; if it fails, the command ends as by `Kill`. `AppPrograms` has the
  steps of that work for one app and one command at a time.
- A file is missing, truncated (`blank`), damaged otherwise (`torn`) or whole. Two
  processes that fill one file write at their own offsets, so that the longer text may stick
  out (`Overlay`); two texts of one length leave the later one.
- The text of a broker line is a record; lines that do not parse change nothing
  and are left out. A payload is a value, those over `MAX_PAYLOAD` are
  `TooLarge`. Each message is sent at most once, so that histories tell messages
  apart; the broker never looks at a payload. A mutex poisoned by a panic
  is not modelled. `insert_grant` requires two prefixes in its list, which may be
  equal: as a set, any but the empty one.
- A write to a client that left is taken to fail. A write into the socket buffer
  of a client that then leaves without reading counts as received.
- A file given to the launcher is one of eight contents (missing, no program, ELF, a
  program with or without windows or with broken headers, an EXE or MSI package); what
  `detect.rs` looks at of the name is whether it looks like an installer.
- A machine, for the other commands, is what they ask first: the repository found by
  override, working directory or crate; the pin; Wine absent, silent, telling its
  version only, or working; the cached archive; the broker's specification.
- Addresses, sizes, bytes and pixels: `NtMemory` wraps at `WordSize`,
  so that the largest sizes round to zero as in 64 bits; `NtImage` has a few bytes per
  image, a name per import and `HalfSlot` addresses for each 32 bits of a table entry;
  `GuestCpu` has `HalfWord` addresses for each 32 bits of a word, and of what memory holds
  tells only return addresses from the rest; what is drawn or
  played is left out except for the order and the owner of the samples.
- A field of an installer's archive is one cell: a magic number, a name, a length or
  a unit of data. The data of a file may be any cells, those of an installer included. A
  download is cut between two cells.

## 3. Runs

| Run | Instance | Shows |
|---|---|---|
| `registry_lock` | two writers, two ids, eight sessions (seed, launch, both halves of an install, two removals, a full and an empty scan), kills anywhere | stores opened through the lock exclude each other; the file is never torn; the holder's copy is current; every change is one request on the content it replaces; protected entries survive; **the registry implements `RegistryAbs`** |
| `registry_progress` | two writers and one that can open neither the lock file nor write the directory, two sessions, under `FairSpec` | every session ends; the lock is always given back |
| `registry_bypass` | one writer, one that cannot open the lock file but may write the directory; a launch and the end of an install, of two entries | *violation*: an update is lost (finding 1) |
| `registry_scan` | two processes, a Linux app and a flatpak, scans of both classes and of one, lists that cannot be read, deep removals, six sessions of others, packages that come and go | what a scan upserted is there when it synchronises; an app is marked only if the machine did not list it, its class was not asked for, or it could not be read |
| `registry_hooks` | the same with the scans of the hooks only | *violation*: an installed app that could be read is marked removed (finding 2) |
| `appmgr_commands` | one command at a time, every command, a system app and another app, one capability; kills and short writes anywhere | both files list only permissions the user granted and has not revoked; the files agree when no command failed; a damaged database stays for the user to repair |
| `appmgr_race` | two commands at a time: list, grant, revoke | *violation*: a revoked permission comes back (finding 3) |
| `broker_queues` | two connections, two channels, one prefix, three messages, one of them too large | each queue is FIFO; a receiver sees messages in the order they were sent; every message is in exactly one place |
| `broker_progress` | two connections, one channel, two prefixes, under `FairSpec` | no line and no poll stays for ever; no session works on a channel that its prefix was never granted |
| `launcher` | each part of what a user starts, see below | registry and disk agree; no word of a command line is dropped; exit codes tell; an entry has its program, a marker its shim |
| `subsystems` | each part of what a Windows program runs on, see below | types; a live process is listed; nothing written is lost; no wake-up is lost; regions apart; handles fresh; nothing after `WM_DESTROY`; calls nest; imports reach their stub; an installer is whole or refused; only admitted groups attached; paths and streams apart; graphics objects alive; PASS means a complete prefix |
| `prefix_template` | the prefixes of the same instance | *violation*: a template half written by a failed wineboot is cloned (finding 4) |

**Parts that move one at a time.** `MCLauncher` and `MCSubsystems` put several modules into one
run: the variable `part` says which of them moves, and is chosen by the initial state, in
`MCSubsystems` from the constant `Parts` of the run. No two parts share a variable and no part
reads another's, so the reachable states of all together are the product of the reachable states
of each, and an invariant about the variables of one part holds in the whole exactly if it holds
while that part alone moves (`WholeKept` of `LauncherProofs` and of `HostProofs` proves it of
every invariant these runs check). What one part is given by another (a prefix that was created, a
program that was loaded) is an input that its own module enumerates.

| Part | Instance |
|---|---|
| disk | two processes, two apps of two files, of which the second is also launched from the first one's directory, its own directory not on the allow list; stops anywhere |
| command line | 28 subcommands, each with up to three of the words or pairs of words it may meet, some incomplete or unknown to it |
| run, open, install | two calls on one file: eight contents, five names, three packages' insides, the two environment switches, two default backends |
| other commands | every machine of `MachineType` |
| programs, recipes, system apps | two prefixes, the catalog's program and the user's own; two DLLs, one verb that loads something and one that does not; two golden rows and another; every role in every world |
| processes, sessions | one app in every backend, two further session ids, three pids |
| pipes, sections, events, ports | three processes, one name, two bytes, a pipe of three bytes, a section of two, two pipes of the name, four messages |
| memory, files, windows | three regions of sizes 1, 3 and 31 in a word of 32; two paths of one file name and two handles; two windows, four waiting messages |
| processor | two code addresses and a stub; a stack of two words, of which the upper holds the sentinel, and one word of another region beside it; words of two addresses, which an access may take at any address |
| image, package | an image of six addresses: files of three bytes with up to two sections anywhere, or with two DLLs of up to two functions, readable or not, whose slots lie apart, overlap or leave the image, and with one DLL for 32 and 64 bits by header and by machine; packages of up to two files with good and bad names, empty, of data, or installers themselves, cut anywhere |
| VFIO, hotplug, IOCTL | a list of up to three entries of two addresses in one group, each added with any driver and any number of times, with and without IOMMU; two built-in devices that share a Linux path, two further paths in two subsystems; two rules, a log of two |
| audio, input, graphics | three streams in a ring of two samples; two slots; seven Vulkan handles, three contexts, two resources |
| prefixes | two commands, one name and the template |

**Why the bounds are enough.** Every registry hazard is about a holder and one other writer; the
lock and the file do not count processes, and the theorems below cover any number. Two ids let a
scan find one app and lose another, and let two sessions touch the same or different entries. The
eight sessions reach every operation and every branch of `Effects`. A scan of two entries is the
shortest that can stop half way. In the broker, two messages on a channel are needed to see an
order, a second channel to see one mistaken for the other, two connections to have two receivers
compete or a sender and a receiver; two prefixes matter for grants only, hence the split into two
runs. In `AppManager` an app of each kind reaches every branch of `Edited`; one capability is
enough because no operation reads one to change another (the proofs allow any number).
`appmgr_commands` runs one command at a time because the code has no answer to a second one, which
is what `appmgr_race` shows. In the parts, a pipe of three bytes takes one write whole, one in
part and none of a third; two pipes show which one a name means; three processes let two wait on
an event that a third sets. A word of 32 with pages of 2 has a size that rounds to zero; three
regions are two neighbours and one given out later. A stack of two words holds a call of the entry
function; the next one writes into the neighbouring region, the one after that faults; and an
access at an odd address hits halves of two words. In an image of six addresses two slots of four
overlap or the second leaves the image. In a list of three entries an address can be there twice
with another device between, before or behind. Two handles on one file are needed for one to be
stale, two windows for a message to reach the wrong one, three streams for an id to be used again
while another is open. A second command on a prefix finds what the first left behind. The theorems
of section 5 remove the bound wherever there is one. There are few counters to bound, each by a
constant named for it (`MaxCalls`, `MaxQueue`, `MaxFrames`, `MaxDevices`, `MaxSent`, `MaxObjects`,
`MaxRegions`, `LastPid`, `LastHandle`, `LastWindow`, `LastDc`, `MaxPlugged`, `MaxRules`,
`MaxAudit`, `MaxStreams`, `MaxSamples`, `LastObject`, `LastContext`, `LastResource`,
`MaxPhysical`); `Payload` bounds the messages of a behaviour. Symmetry is used in runs that check
safety only.

**Deadlock** is checked in the runs of registry, App Manager and broker: a
process slot can always start a session, the control port can always grant, an App
Manager command can always start. In `launcher`, `subsystems` and
`prefix_template` it is not: a command comes to its end, a program halts, and a bounded
counter runs out.

**Fairness.** `AppRegistry!FairSpec` is weak fairness of `Step(p)` for each process: a
program that runs is scheduled and its system calls return; the wait
for the lock is bounded by the deadline, which is the action `Timeout`. No fairness
is assumed of starting a session or of a kill, nor strong
fairness of the lock: a process may lose every race for it and times out.
`InteropBroker!FairSpec` is weak fairness of each thread. A thread that polls
has its deadline, one that reads has its 30 s socket timeout. Clients, the
control port and `stop` have none: a client may stay silent or vanish.
The other modules are sequential or wait for no one, and state no liveness.

## 4. Findings

1. `registry_bypass`. The comments of `RegistryLock` (registry.rs:18-20, 44-45)
   say that a process which cannot create the lock file may go on because its write
   will fail in `flush`. But `flush` only creates and renames a file in the
   directory, while the lock file is opened for writing: if the lock file belongs to
   another user (a registry first written by root) and the directory is
   writable, the write succeeds and undoes what the lock holder wrote.
2. `registry_hooks`. `sync_removed_from_scan` compares the entries of both classes
   with the ids of the scanned class. The apt hook runs `scan --linux`, which marks
   every installed flatpak removed; the flatpak trigger does the same to Linux apps.
3. `appmgr_race`. `apps list` writes back the database it read, to register the system
   apps. If a revocation ran in between, the permission is in the manifest
   again, although the note beside that list (permissions.rs:52) calls capabilities
   default-deny. The same step loses any other change of a concurrent command, and
   `read_index` of the engine's prefixes has the same form.
4. `prefix_template`. `ensure_template` (optimize.rs:157-160) promises a reusable
   template made by one wineboot, but takes every directory for it that has a
   `system.reg` or a `drive_c` (prefix.rs:44). wineboot writes both long before it is done:
   after one that failed, hung or was killed, each later prefix is a copy of half a
   template, and `create_prefix` answers PASS.

## 5. Proofs

All theorems hold for any values of the constants that satisfy the assumptions named in the
modules: values that stand for nothing (`Nobody`, `NoDir`, `Torn`, `Absent`, `None`, `NoBottle`,
`NoFile`) are none of the values they stand apart from, sizes and bounds are natural numbers,
sessions are sequences of requests, the built-in devices have distinct win32 paths
(`BuiltinAssumption`), the magic number of an archive is no name and no length
(`PackageAssumption`, which says nothing of the data of files), the words of a command line are
strings, `Nothing` is none, and the flags the launcher knows are among the words that start with a
dash (`LinesAssumption`: the provers do not know how a string starts), no region of memory reaches
the last word of the address space and the first stack word lies in a region (`CpuAssumption`),
the header of an image says where its sections lie and they fit (`ImageAssumption`), and for the
whole of the parts, the fixed values the initial states are made of belong to the constants
(`MCAssumption`). TLC evaluates each assumption for the values of a run.

| Module | Theorems | Inductive invariant, and why the property alone is not inductive |
|---|---|---|
| `AppRegistryProofs` | `TypeCorrect`, `StoresExclusive`, `FileComplete` | `LockInv`: the lock is held by `p` exactly if `p` is not a bypassed process and has the store open; a process about to rename has a whole temporary file. Without the correspondence of `lock` and `pc`, `Acquire` could open a second store. The types need `EffectsType`: no operation yields a file that `open_at` would reject |
| | `HolderCurrent`, under `BypassWrites = FALSE` | `CurrentInv`: `LockInv`, no bypassed process gets beyond creating its temporary file, and `HolderIsCurrent`. Only a rename changes the file (`OnlyRename`), and who renames holds the lock (`RenamerHolds`) |
| | `NoLostUpdate`, `ProtectedNeverRemoved`, `RegistryAtomic`, under the same assumption | the same, for each step; `EffectsKeep`: no operation drops an entry or its protection or marks a protected app removed. In the refinement every step maps to a step of `RegistryAbs` or a stutter, `lockedJob` being the sessions that count |
| `RegistryScanProofs` | `ScanTypes`, `ScansReconcile` | `ScanInv`: who is at work on the registry holds the lock (`HoldersLock`), and of what a scan found, all that is no longer to do is reconciled already (`Progress`). Without the lock another session could undo it. The lemmas on `Put` and the requests say what one session does to each entry |
| | `MarksExplained`, for scans of any classes | `FoundAll`: what a scan found is all that the machine listed, that it asked for and that could be read, so that what it takes for gone has one of the three reasons |
| `InteropBrokerProofs` | `BrokerTypes`, `QueuesAreFifo`, `OnlyGrantedSessions` | `BrokerInv`: types, `Fifo` and `SessionInv`, which adds that every pair in the current grants is in `granted`; without it `HandleAuth` would break `OnlyGranted` |
| | `MessagesInOrder`, `EveryMessageAccounted` | `MessageInv`: no message is sent twice (`Distinct`); one that was taken is in a thread's hands, in one inbox, or lost (`Places`); what is in an inbox was taken before what came after it and before what the thread holds (`Ordered`). Order alone does not survive `Answer`, which appends what the thread took some steps earlier |
| `AppManagerProofs` | `TypeCorrect`, for any number of commands at a time | – |
| | `DamageIsKept`, for any number of commands at a time | `DamageInv`, inductive from the moment no command runs: every command that runs is before its `load_db`, since it started on a damaged file that exists |
| | `DenyByDefault`, under `Solo` (at most one process slot) | `DenyInv`: `DenyPart` says of the copies a command is about to write that they list only what is allowed, and that a running revocation has left the permission out of each file it has passed; `CopyInv` where a copy is in use. A file cut short lists nothing |
| | `AgreementHolds`, under `Solo` and at least one slot | `AgreeInv`: what the manifests may be ahead of the grants in each place of a command (`AgreePart`), by the permission being granted (`Mine`) |
| `LauncherProofs` | `DiskMatchesRegistry`, `InstallTypesKept` | `InstallInv`: the lock is held by a process that has the store open (`Locked`), and of every app that is not spoiled (`Right`): an install has its directory for itself and is as far as its step says (`InstallRuns`), so is a removal (`RemovalRuns`), and what they left stands (`StaysInstalled`, `StaysPurged`). The property speaks only of apps that nothing works on, so it says nothing of the steps between |
| | `ExitCodesTell`, of the three parts of `LauncherExits` together | `RunInv`: `CallInv` says at each step of a call what it has checked and registered (a package unpacked, an entry installed, a stub only in smoke mode). `CommandInv`: a bench past its first step found the repository, a cold start that came up had a Wine that works. `SystemInv`: a launch about to write its result reached what the result says (`UnderWay`), and an answer stays true while the matrix changes (`Answered`) |
| | `CliCountsWords` | `CliInv`, of the state after the words. The work is in the loops: `Weight` counts what a scan has kept, each word adds one to it and no word stands there twice (`SeenIn`), so that after `n` words it is `n` (`LoopStays`). In a subcommand of two passes the items that the first leaves weigh what the words weighed (`ItemsCount`) |
| | `MarkersTell` | `RecipesInv`: `StepInv` says what is already written while the command stands at each step |
| | `EntriesHavePrograms` | `ProgramsInv`: `DeedInv`, the same for an install, and where the program of a saved entry can be |
| | `WholeKept`, of `MCLauncher` | the invariants above and the types of the remaining parts; a step of one part is a stutter of the others |
| `GuestProofs` | `CallsNest`, for any layout of memory | `CpuInv`: a `ret` makes the next call the innermost, so `FrameChain` says of every call how far the next one lies below it: its locals and the return address. That a push hits no return address follows: it goes below all of them, or nowhere |
| | `HandlesStayFresh` | `FilesInv`: with the types, inductive itself; the work is in what overwriting and extending do to a content |
| | `WindowsEndOnce` | `WindowsInv`: a number not given out has no window and no message (`Numbered`), so that a new window does not inherit the messages, or the end, of another |
| | `MemoryStaysApart` | `MemoryInv`: regions lie in the order they were given, below the next base (`Laid`), and what each holds is what was written in its extent (`Held`). The size asked for may be anything and wraps when it is rounded; the bases do not, since the host backs at most `MaxBytes` of a region and `MaxRegions` such regions fit a word (`MemorySizeAssumption`). `FreedFirst`: a base that was freed finds a region that is no longer committed first |
| | `WakeupsKept` | `EventInv`: a closed event has no waiter (`ClosedIsEmpty`), so that one created again under the name finds nobody asleep on it |
| | `NothingIsLost`, of the pipes, the sections and the ports together | `PipeInv`: a name without a pipe has carried nothing, so that its first pipe starts right; `SectionInv`; `PortInv`, where `PortKept` ties the next id to the number of messages sent |
| | `CallsReach` | `ImageInv`: beside the slots memory holds the sections copied so far (`MemoryCopied`); a slot that no later one overlaps holds the stub of its entry of `resolved` (`StubsIntact`); every slot the image holds is patched once its entry was looked at (`SlotsPatched`); a stub has one name (`Resolutions`). That a list without its unreadable entries (`Remaining`) starts with what precedes the first of them is an induction over the import table (`RemainingKeeps`) |
| | `PackagesWhole`, for files of any data | `PackageInv`: what was downloaded is a prefix of what was built, and what is written and still to write are the files packed, or those of an archive inside (`Unpacks`). That an archive decodes to its files and a part of it to nothing are inductions over the files (`FileInBody`, `DecodeIs`; `ParseIs` says what a download cut anywhere is parsed to); an archive found elsewhere needs its magic number in the data of a file (`Inside`) |
| `HostProofs` | `SessionsListLive`, `RuntimeTypes` | `RuntimeInv`: a pid not given out has no node and no report (`Unused`), so that a launch finds it in no session; the execution under way will report the session its process was launched into (`ContextInv`) |
| | `PidsAreNotReused` | `TableInv`: types, and no node above `next_pid` |
| | `AttachedAreAdmitted`, `VfioTypes` | `VfioInv`: an old scan decides what is attached, so `ScansHold` says what a scan that admitted a group still means for the entries it saw after others were added, bound and unbound; `BindingsHold` the same of a binding; `ContainerInv` what needs an open container |
| | `GraphicsObjectsAlive` | `GraphicsInv`: with the types, inductive itself, since handles come from a counter above all of them |
| | `NamesStayApart`, of devices and streams together | `PlugInv`: a device that came after the last removal has its place in the list in its path, and so have all behind it (`Standing`). `AudioInv`: while streams are released newest first the open ids are exactly those from 1 to the count, in the order of opening (`Stacked`); no ring is read beyond what was written (`Counted`); who never shared its id has its ring (`Rings`) |
| | `PassMeansComplete`, `PrefixTypesKept` | `PrefixInv`: while commands run one at a time (`Alone`), the one under way fills its directories alone, and what it copies, indexes and answers is complete if nothing had been stopped before it (`Works`); only a directory being filled is partial, and the index lists as PASS only what is complete or being copied to (`Whole`) |
| | `WholeTypesKept`, `WholeKept`, of `MCSubsystems` | `WholeInv`: all the invariants above, those of the IOCTL log, the controllers and the Direct3D handles; of the pipes also that a buffer holds at most its capacity (`PipeFits`), which the types ask for; `EachMoves`: a step of the whole is a step or a stutter of each part |

`BypassWrites = FALSE` says that who cannot open the lock file cannot write its
directory either, which is what the code's comment relies on. It is needed:
finding 1 is the counterexample without it. `Solo` is needed: finding 3 is the counterexample
without it.

The theorems about a module that moves as a part of `MCSubsystems` or `MCLauncher` are
about the module's own specification (`RuntimeSpec`, `GraphSpec`, `VfioSpec`, `PlugSpec`,
`AudioSpec`, `GraphicsSpec`, `CpuSpec`, `MemorySpec`, `FilesSpec`, `WindowsSpec`, `PipeSpec`,
`SectionSpec`, `EventSpec`, `PortSpec`, `ImageSpec`, `PackageSpec`, `PrefixSpec`,
`RecipesSpec`, `ProgramsSpec`, `LauncherSpec`, `CommandSpec`, `SystemSpec`, `CliSpec`, and
`Spec` of `InstallWorld`), which is that part moving alone; `NamesSpec` and `ExitsSpec` are
conjunctions of such, which allow the parts to move in any order or together. `WholeKept`
and `WholeTypesKept` are about the specifications of the two runs themselves, from the
initial states that `MCLauncher` and `MCSubsystems` choose, for any values of the constants
of the modules: the argument of section 3, that a part sees nothing of the others, is in the
cases of `NextWhole` and in the lemma `EachMoves`.

Every invariant that a passing run checks is stated by a theorem. Loops are proved about by
induction over the numbers of their turns. The library's induction theorems
take an operator as a parameter, which the provers cannot use; `LoopLemmas` states the same
for a *set*, that of the numbers for which the formula holds: a non-empty set of numbers has
a least one (from the library's well-foundedness of `<`), hence induction, hence that a
recursively defined loop has a value (`LoopIsDefined`) and what each turn keeps
the whole keeps (`LoopStays`). `Loop`, `Body`, `Decode` and `Remaining` are written as recursive
functions, not as folds, for this.

Only model-checked: all liveness (`SessionEnds`, `LockReleased`, `Answered`), which needs
fairness and ENABLED; and what the findings show, which are counterexamples.

## 6. What the properties except

A property says what the code keeps. Where the code gives something up, the property
names the case instead of leaving it out of the model:

- A container or microvm app launched twice replaces its session: the first process is
  then in no session (`LiveIsListed`, `home[p].since`). A failed `execute_pe` leaves its
  process Running.
- A block of size zero, which the largest sizes round to, shares its base with the next
  block and takes the call to free (`RegionsApart`).
- Each handle has its own copy of a file and writes back the whole of it (`HandlesFresh`).
- Closing an event strands those who wait on it (`NoLostWakeup`).
- In an import table an unreadable name shifts every later slot; in a 32-bit program the
  address of a stub is cut to 32 bits, and one whose header and machine disagree has slots
  of another size than it reads; a slot outside the image is not written, and one that
  overlaps a later one is written over (`CallsReachImports`).
- A program that sets `rsp` otherwise than by calls, returns and locals it gives back, or
  writes over a return address, returns anywhere (`FramesMatch`, `tidy`).
- A download cut behind a packed file that is itself an installer is taken for that
  installer: its files are unpacked, whole, and the answer is ok (`WholeOrRefused`,
  `ArchiveInside`).
- A scan marks an app removed that it could not read, or did not ask for, as it does one
  that is gone (`SyncExplained`).
- Of a PCI address that was added twice only the first entry is looked at: the driver of the
  second keeps no group from being viable (`GroupsAdmitted`). Opening a container again
  keeps its groups and mappings.
- A device plugged in after another was removed may get a path that is in use, and
  built-in devices share paths from the start (the keyboard and the mouse
  `/dev/input/event*`); a stream opened after an older one was released may get an id that is
  in use (`NamesApart`).
- `deep_remove` of one app deletes a directory that another shares; an install is not
  protected from a removal of the same directory (`RegistryMatchesDisk`).
- A forced prefix deletes the programs in it and leaves their entries (`CatalogEntryHasPe`);
  the shim's marker does not tell whether `regedit` succeeded (`MarkerMeansShim`).
- Several subcommands pass over words they do not know (`PassOver` in `LauncherCli`).
- `engine hello` does not notice that its temporary prefix could not be removed (`EndHello`).
- An app stays registered when its program cannot be loaded; `apps recipes --apply` and
  other commands not in `FailOnFail` exit with 0 whatever they report; the install wizard
  writes PASS down for PARTIAL; the run dialog records its argument and never runs it.

Known of the code and covered by no property: a `deep_remove` of a flatpak that is
repeated after its flush failed (the uninstall fails the second time); the directory not
synced after `rename`; broker queues without a bound; two processes that are each other's
parent, which `reparent` accepts and nothing calls; the wineboot deadline, after which the
thread is still joined; an entry of the prefix index lost by two commands that
write it at once.

## 7. Not modelled, and the plan

- Verification binaries, benchmarks, smoke tests, golden apps, anti-cheat probes: they run
  what is modelled, and print.
- Bridge policy, compatibility tables, stub name tables, device matrix, MFP report, tuning
  profiles: data.
- Arithmetic and data movement of the interpreter, resampling and the test tone, the software
  triangle, the presenter and the graphics pipeline's report: functions on bytes. Of the
  processor the control flow and the stack are modelled.
- The NT registry of `strawwu-nt/registry.rs`: its set, delete and overlay operations have
  no caller but its own defaults and tests. The same holds of `isolate_session`,
  `get_or_create_default`, `cleanup_idle_sessions` and `map_port`.
- Icons, MIME types, the text of desktop files, the parsing of `.desktop` files, and
  what commands print.
- Wine, winetricks, apt, flatpak, the kernel's VFIO: external, by what the code waits for.
- The Hub, the shell scripts that build images (no shared state of their own) and the
  kernel module (a stub that returns 0).

What could follow: a property of the prefix index under two commands; the programs of
`AppPrograms` under two App Manager commands at a time.
