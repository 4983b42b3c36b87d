# ops-sysd in TLA+

`ops-sysd` is the first daemon of an OpenSwitch switch. It finds the
hardware description files of the platform, reads them and the FRU data, makes
the first configuration of the switch in OVSDB, waits until the other hardware
daemons have read the same files, and then announces with `System:cur_hw = 1`
that the configuration daemon may start to push the user's configuration. It
also fills the `Package_Info` table and keeps `/etc/localtime` linked to
`System:timezone`.

The modules here model that program, from `src/src`. TLC checks them on
small instances; TLAPS proves, for every value of the constants, most of what TLC
checks of the safety of the main loop, the readiness check, the Package_Info
load, the boot, the first configuration and the CLI's time zone commands.

- [The system](#the-system) - components, state, operations, interactions
- [Modules](#modules) - which module models what, and how
- [Runs](#runs) - what is checked, bounds, fairness
- [Findings](#findings) - where the code does not do what its text says
- [Proofs](#proofs)
- [Assumptions and limits](#assumptions-and-limits)
- [Plan](#plan)

## The system

### Components

| Component | Source | State | Operations | Correct if |
|---|---|---|---|---|
| Boot | `sysd.c` `main`, `sysd_util.c` | link to the description files, status LED, `subsystems[]`, `daemons[]`, `mgmt_intf` | read the manifest, run dmidecode, link, parse the YAML files, read the FRU data, assign MAC addresses, LED, exit | the loop is only entered with the link made, the LED set if it has a register and its bus answers, and the MAC addresses assigned; a restart gets over whatever the last process left |
| Main loop | `sysd.c` 504-524, `sysd_run` | IDL replica, lock, `idl_seqno` | one pass per change, sleep otherwise | no change is slept over; only the holder of the lock acts |
| First configuration | `sysd_initial_configure` | one transaction | System, bridge, VRF, subsystem, interface, daemon rows, QoS, ACL | made once, whole, as the files describe |
| H/w readiness | `sysd_chk_if_hw_daemons_done`, `sysd_set_hw_done` | `hw_init_done_set` | watch `Daemon:cur_hw`, set `System:cur_hw` | announced only when all h/w daemons are done, and then certainly |
| Package_Info | `sysd_add_package_info` | parser state, open transaction | load `version_detail.yaml` in batches | the table is the file; nothing twice, nothing left open |
| Time zone | `sysd_handle_timezone_update` | `/etc/localtime` | unlink, symlink | the link follows the column |
| QoS defaults | `qos_init.c` | rows of the transaction | trust, maps, two profiles of two kinds | profiles as described, factory default immutable |
| Manifest | `sysd_process_json` | `daemons[]`, `mgmt_intf` | recursive walk of JSON | every daemon and the management interface found |
| FRU EEPROM | `sysd_fru.c` | `fru_eeprom_t` | TLV walk, CRC | reads what the header and CRC cover |
| Software information | `sysd_update_sw_info` | two columns | line reader | follows `/etc/os-release` |
| CLI | `cli/system_vty.c` | each vtysh process's own replica, the list of zones | show system, timezone set and its no form, running configuration | only writes what sysd can cope with; what it prints can be replayed |
| REST validator | `opsplugins/system.py` | the list of zones | accept or refuse a zone | accepts what the CLI knows |

### Interactions

```
 image.manifest, hwdesc YAML, EEPROM, dmidecode
        |  (boot, once per process)
        v
 +-------------+   commits, lock "ops_sysd"  +--------------+
 | ops-sysd    | <-------------------------> | ovsdb-server |
 |  main loop  |   updates, lock messages    |              |
 +-------------+                             +--------------+
   |        |                                  ^    ^     ^
   |        +--> /etc/localtime                |    |     |
   +--> status LED                       h/w daemons| configuration daemon
                                      (Daemon:cur_hw)|  (waits for cur_hw)
                                                    users (System:timezone)
```

Everything between sysd and the other daemons goes through the database. The
process is single-threaded; the concurrency is between processes: sysd and the
writers of the columns it watches, sysd and the server (a commit whose answer
does not come, a session that ends), one instance of sysd and another (the lock),
and a process and its predecessor (what a crash has left in the database, the
file system and the hardware).

### What is hard

- The replica on which `sysd_run` decides may be older than the database its
  transaction is applied to.
- The lock is the server's; an instance that has lost it finds out later.
- `commit_block` reads updates while `sysd_run` is in the middle of a pass: the
  sequence number moves behind the main loop's back.
- A pass consists of several transactions and two system calls; a crash or a
  failed commit may come after each of them, and the next pass decides from
  what it finds what has been done.
- Most failures are logged and passed over.
- A CLI command decides on the replica of its own process and writes blindly.
- The manifest is walked in the order of a hash table, by prefixes of names; the
  EEPROM by lengths that it states itself.
- Records of `version_detail.yaml` are cut into batches by two tests of a
  counter that is incremented between them.

## Modules

| Module | Models | Checked by | Proved |
|---|---|---|---|
| `HwReady` | the promise to the configuration daemon, abstractly | refinement from `SysdRun` | `Implementation` |
| `SysdRun` | main loop, IDL, lock, `sysd_run`, several instances | `core_*`, four findings | `SysdRunProofs` |
| `HwDaemonCheck` | the name comparison of `sysd_chk_if_hw_daemons_done` | `hw_check` | `HwDaemonCheckProofs` |
| `PackageInfo` | `sysd_add_package_info` over the YAML tokens | `package_info` | `PackageInfoProofs` |
| `SysdBoot` | `main` up to the loop, exit, restarts | `boot`, `boot_hangs` | `SysdBootProofs` |
| `Manifest` | `sysd_read_manifest_file`, `sysd_process_json` | `boot` | `SysdManifestProofs` |
| `FruEeprom` | `sysd_process_eeprom`, the EEPROM part of `sysd_read_fru_eeprom` | `boot` | `SysdBootProofs` |
| `InitialConfigure` | the transaction of the first configuration, later passes over its row | `initial_configure` | `InitialConfigureProofs`, `SystemShownProofs` |
| `OsRelease` | `sysd_update_sw_info` | `initial_configure` | `SystemShownProofs` |
| `ShowSystem` | `cli_system_get_all` | `initial_configure` | `SystemShownProofs` |
| `TimezoneCli` | `cli_set_timezone` and the running configuration, on `SysdRun` | `core_live` | `TimezoneCliProofs` |
| `ZoneList` | the zones of a directory, for the CLI and for REST | `core_live` | - |

The modules fit together in two ways. By abstraction: `SysdRun` takes the first
configuration as one step (`WithSystemRow`), the readiness test as one condition
(`HwReported`) and a Package_Info load as `NBatches` transactions
(`WithPackages`). `InitialConfigure`, `HwDaemonCheck` and `PackageInfo` open up
those three steps. `HwDaemonCheck!CheckFindsAll` is what justifies `HwReported`;
`PackageInfo!NothingLeftOpen` is what justifies that a pass of `SysdRun` goes on
after a load; `SysdBoot` ends where `SysdRun!Start` begins. And by
composition: `SysdBoot` runs the machines of `Manifest` and `FruEeprom` (INSTANCE,
on its own variables), with failures and kills between any two of their
steps; `InitialConfigure` runs `OsRelease`, and shows its rows through `ShowSystem`;
`TimezoneCli` adds users to the whole of `SysdRun` and implements it.

### SysdRun

One state per instance of sysd: `conn` (its session), `rep` (its replica),
`pending` (`idl_seqno` differs from the IDL's), `hasLock`, `hwInitDoneSet`
(the static of that name), `batch`, `pc`. Shared are `db`, `lock`, `localtime`
and `osRelease`. The database is reduced to what `sysd_run` reads again: the
number of System rows, `cur_hw`, the time zone, the software information, the
h/w daemons that have reported, how often each batch of packages is there, and how
often another daemon has written `mgmt_intf` or `mgmt_intf_status` (`SetMgmtIntf`).
These two columns sysd does not read, but it has not asked to be left alone by them
(`sysd.c:303`), so they wake it too (`Alerts`). So does `Daemon:name`, which nobody
changes.

Actions follow the code in its order: `RunWithoutLock`, `RunUnchanged` and
`RunChanged` are `ovsdb_idl_run` and the early returns; `Configure` or
`ExistingRow` (with `SetHwDone`); `CheckPackages` and `AddPackages`;
`UnlinkLocaltime` and `LinkLocaltime`; `Decide` and `Wake` are the test before
`poll_block` and its end. `Dump` ends it too, for a command of `ovs-appctl`, and is
where a pass without news comes from (`RunUnchanged`). Between any two of them other processes, the
server and crashes may step in. A `commit_block` (`CommitBlock`) ends in one of
three ways: applied and answered, applied (or not) without an answer because the
session was lost, or rejected.

### HwDaemonCheck

The manifest is a function from names to "is a h/w handler". The check is the two
nested loops, with the `strncmp` over the length of the manifest's name, for every
order in which the IDL may list the rows. Daemon rows stay as the first
configuration made them; the manifest may be replaced before a restart.

### PackageInfo

The input is a sequence of records, each a sequence of keys with values. `at` is
the scalar that is read next: of which record, which of its keys, and whether the
key or its value; record 0 is the title of the file. `state`, `count`, `open`, `rows` and `row` are the local
variables of the loop: the key that was read, `record_count`, whether `txn` is
open, and what the row pointer points at ("null", the last row, a row of a
transaction that is gone). Writing through the last two is "fault".

### SysdBoot

One process from start to loop, with `Fail` for every step that ends it, `Crash`
anywhere, and restarts over the files it leaves. `TakeLine`, `SkipLine` and
`OutputEnds` are `get_sys_cmd_out`; `fresh` is the byte an uninitialized
buffer holds.

`system` is everything the process finds: the manifest, dmidecode's answers,
whether there is a `fru.yaml`, the EEPROM, and how often this switch fails, is
killed and is asked to exit. `WriteLed` is `sysd_cfg_yaml_set_sys_led`: nothing
is written if the description names no register of a status LED (`statusLed`),
and the result of the write is ignored (`sysd_cfg_yaml.c:270-280`). `i2c` is what
became of the last write, which the process does not know; `RunningIsReady` claims a
"good" LED only if there is one and the write was not lost. `YamlInit` and `ReadFruYaml` are the glue around
config-yaml; without a `fru.yaml` the EEPROM is walked.

### Manifest

The recursion of `sysd_process_json` is a stack of frames, one for each object or
array the walk is in, with what is left to visit; a frame also says which
function visits (`sysd_process_json` itself, the loop over the daemons, or that over
the management interface). `VisitMember` takes *any*
member that is left: that is the hash table. Keys are matched by prefix, as
`strncmp` with the tag's length does, so a key "daemons_old" is one of
`DaemonsKeys`. `VisitElement` takes the least index that is left. Daemons of a second such object are appended. `mgmtIntf` has
the characters of the name that was copied, and `ends` says whether they are
followed by a 0: `xcalloc(size, 0)` allocates no memory of its own and `strncpy` copies no
end (`sysd_util.c:312`), so there is one only if the memory behind the name happens
to be zero (`zeroed`).
`ManifestIsRead` compares the result with what a *documented* manifest says, read
off by its keys (`Trees`, all values up to `MaxDepth` levels down): entries of objects "daemons" wherever they are, at
most one management interface, and no other key that starts with a tag. Of the
management interface's name it claims the characters, and an end only where
the memory is zero; where it is not, the code gives no end and the name is longer
(see [Findings](#findings)).

### FruEeprom

A walk with an offset over bytes: `ReadHeader`, then per record `ReadField`,
`SkipExtension`, `CheckCrc`, `Skip` or `IllegalCode`, and `Fault` where a length
leads out of a buffer (`Faults`), which ends the process here. The CRC-32 is
ideal: it differs whenever what it covers differs. `Image` is the
manufacturer's writer; `IntactIsRead` says that every image it writes is read
back, `CrcGuards` that a field which is read from a damaged image was not vouched for by a
CRC. An image without a CRC record is accepted, as in the code.

### InitialConfigure

`cfg` is what the description files say. The steps are the calls of
`sysd_initial_configure` in order, and within a profile one step per YAML entry.
The column of daemons is only set if the manifest has some (`AddDaemons`). A map is
filled from its entries (`InitMap`); an entry without a color or a description, which
`smap_replace` is given as NULL, ends the process (`Settable`, `InitMapFault`), and so
does one behind the end of the array.
The rows are the transaction's: `CommitFails` drops them and starts over. An
allocation that fails (`NoSubsystem`, `NoDaemons`) leads to an early return and
to the commit, as in the code.

In the middle of the transaction, before QoS and ACL, `OsRelease` reads the file of
the image (`ReadRelease`, `WriteRelease`). After the commit images may be replaced
(`ReplaceImage`) and further passes read the new file for the row that is now
there (`BeginPass`): a pass without news survives (`PassSurvives`), one that has
something to write dereferences the NULL transaction (`PassFault`), which is
`SysdRun!SwInfoFault` with its cause. `ShowSystem` is a user who types "show
system" at any of these moments, over a replica that has the commit or not yet. The CLI of
this repository registers the columns and tables of fans and LEDs only
(`system_vty.c:550-591`); power supplies and sensors are shown if other plugins of the
same vtysh have registered theirs (`cfg.plugins`, `Registered`).

### OsRelease

One line per step. A line is the text before its first "=" and the one behind.
`smap_add` does not look for duplicates, so several NAME lines leave several
entries of which the column keeps one (`Kept`); VERSION_ID and BUILD_ID are
overwritten and cut off at `NStr`.

### TimezoneCli and ZoneList

`seen[u]` is the System row in the replica of user u's process, `list` the
zones that each of these processes has found. `Sync` brings a replica up to date, at any time or
never. `Write` is `cli_set_timezone` from its lookup to its commit: the zone is
found in `list` by its lower-case name (`Matches`, `Chosen`), and not sent if
the replica shows it already. `SetZone` is the command, `ResetZone` its no
form with the comparison before the write. A command that is refused is not a
step. `SysdRun`'s own `SetTimezone` stays enabled, for whoever
else writes the column. `past` is a history variable. That no two
zones differ only in case is `CliAssumption`.

`ZoneList` walks a directory tree for the list of the CLI (`ZonesOf`) and for the one
of the REST validator (`Accepted`).

## Runs

`CHECK_DEADLOCK FALSE` is set in every run: each of these systems may
legitimately come to rest (sysd asleep with nothing to do and the bounds used up, a
load finished, a process ended, a fault).

| Run | Question | Instance | States |
|---|---|---|---|
| `core_one` | Has an instance that sleeps done all it had to? Does a restart repair what a lost connection broke? | one instance, 2 h/w daemons, 2 zones, one change each of zone, release and management interface, 2 batches, 2 crashes, 2 lost connections | 981,723 |
| `core_two` | Is everything done once, and readiness sound, with failover? | two instances, 1 crash, 2 lost connections, 2 h/w daemons, 2 batches, symmetric | 2,420,690 |
| `core_live` | Does readiness come, does the link follow, with failover and users? Do the commands of the CLI only do what sysd copes with? | two instances, 1 crash, 2 changes of the zone by one CLI user or another writer, two lists of zones | 354,944 |
| `package_info` | Is the table the file? | all files of up to 3 records of 9 shapes, batches of 2, one failure | 67,900 |
| `hw_check` | Is the check by name the check that is meant? | all manifests over 4 names, 1 restart, 1 upgrade | 124,888 |
| `boot` | Is a running sysd ready, are manifest and EEPROM read as they were meant, and can sysd always be restarted? | an ordinary switch with 2 failing steps, 2 kills, 1 exit, 0 to 3 MAC addresses, with and without a status LED, whose writes may be lost; manifests of many shapes and EEPROMs of up to 3 records, intact or with one byte changed, undisturbed | 255,663 |
| `initial_configure` | Is the first configuration what the files describe, and the software row an image's? | 3,191 combinations of files, 1 failed commit, 1 failed allocation, up to 2 replaced images, 2 show commands | 632,740 |
| `ready_lost`, `standby_spins`, `swinfo_fault`, `packages_cut`, `boot_hangs` | see [Findings](#findings) | | |

### Why the bounds are enough

- *Instances*: the lock has one holder; two competitors show every
  handover, a third only repeats them. The proofs cover any number.
- *Crashes and lost connections*: two, so that a second one can hit while the
  effects of the first are being repaired.
- *H/w daemons*: two, one done and one not. With `SelfDone = {d1}` one of them
  is sysd itself, whose row says so from the beginning.
- *Two batches of packages* in `core_one` and `core_two`: so that a load can be cut
  short between them, by a crash or by a lost session, and `PackagesOnce` can find
  out whether the next pass, or the next instance, loads the first part again.
- *One change of the management interface*: a wake-up with nothing to do for it.
- *Batches of 2, 3 records*: a record in the first batch, one that ends it and
  one that starts the next; the 2000 of the code would not show more.
- *FRU MAC addresses 0 to 3*: none, one for management only, both, and one left.
- *Map rows 2 and 3, split 2*: entries fewer, as many and more than the array
  takes; the code's 8, 64 and 4 only move the boundary.
- *Profile entries*: up to three over two queues, so that a queue may have
  none, one, or several, with another's in between.
- *Manifests*: five shapes of entry for each of two daemons and two for a third, seven of the management
  interface, alone and in pairs whose order matters, nesting in objects and arrays. They nest
  less deeply than `MaxDepth` (6), which bounds only what `ManifestIsRead` compares with:
  the walk itself has no bound. `ManifestAssumption`, which TLC evaluates, says
  that `MaxDepth` is enough for every manifest given.
- *EEPROMs*: all images of up to three of 12 records, among them the empty
  string, the full array and the largest bytes; damage by 9 byte values at every
  position of images of one or two records, and by five lengths in the header.
- *os-release*: all files of up to 3 of 10 lines, for the first image; pairs of
  later ones from ten.
- *Users of the CLI*: one with a replica, and one without (`SetTimezone`), so
  that the column may change between the first's reading and writing, and back;
  two changes are one of each. `NBatches` is 0 and `SelfDone` one of two daemons in
  `core_live`: packages are the subject of `core_one` and `core_two`. The two
  lists have a zone in a subdirectory, and lack the default.
- *Directories*: `SameZones` of `MCTimezoneCli`, an assumption that TLC evaluates
  with `core_live`, compares `ZonesOf` and `Accepted` on all directories of up to
  three of six entries.

### Properties that deserve a word

`SettledDone` is the property of the main loop: if sysd sleeps in `poll_block`
with the lock and an up-to-date replica, there is nothing left to do with that
replica. It fails if `main` does not compare the sequence numbers before it sleeps,
because `commit_block` may have read the last daemon's report during the pass.
`HwDoneOnlyAfterDaemons` and `SingleSystemRow` are decided on a replica and
hold for the database. `LocaltimeFollows` is checked for two instances without
lost connections, and `SettledLocaltime` for one instance with them. With both
at once an instance that has lost the lock unnoticed may still relink the file
after its successor: the lock guards the database only, and no text of
the repository says more.

`ImplementsSysdRun` is the contract of the CLI with sysd: with all its stale
replicas it makes only steps that `SysdRun` allows, so that everything checked and
proved of `SysdRun` holds with users at work. Two users may still
undo each other's settings, which is how the command works;
`NoFormNamesAPastZone` is what remains of "no timezone set X" then: X was the
zone at some time, but a newer one may be reset. `ReplayRestores` is about
`show running-config`, which prints a lower-case word for a zone with another
name.

`PassBreaksOnlyOnNews` bounds the crash of `swinfo_fault`: a restart over
the same image is safe, unless memory ran out in the first configuration before
the software columns, in which case every later pass dies. `VersionIsAnImages`
says that the version that is shown is never put together from two images,
though it may be an old one's. `ShowEndsUnlessConfigured`: "show system" goes on
after its message that there is no Subsystem row, and its process ends there;
nothing else can do that to it.

### Fairness

`FairSpec` of `SysdRun` has weak fairness on the steps of every process (the
scheduler runs it), on `Start` (the service manager starts it again), on
`Connect` (the IDL reconnects and the server accepts) and on `Grant` (the server
gives a free lock to one that asked). Weak fairness is enough: each of these stays
enabled until it happens. Nothing is fair in the environment: no h/w
daemon need ever report, no user need do or ask anything; so `Dump` never stands in
for a wake-up that was lost. `HwDaemonCheck` has fairness
on sysd's two steps and `SysdBoot` on the steps of the boot (including `Start`),
for the same reasons. `TimezoneCli` adds users and no fairness: nothing makes a
user type, or a replica of a vtysh process follow.
`PackageInfo` and `InitialConfigure` are calls of one function each, and only safety is asked of them.

## Findings

Five statements of the code's own comments, tests and documents are refuted. Each
run checks one of them and TLC finds the counterexample.

| Run | Statement | What the code does |
|---|---|---|
| `ready_lost` | once the h/w daemons are done, sysd sets `cur_hw` (`sysd_ovsdb_if.c:880`, `DESIGN.md:22`) | `hw_init_done_set` is set even if that commit failed, and nothing tries again until sysd is restarted. `RestartRecovers` shows that a restart does repair it. |
| `standby_spins` | a second instance is disabled "until it goes away" (`sysd_ovsdb_if.c:953`) | it never catches up with `idl_seqno`, so `main` never sleeps |
| `swinfo_fault` | "Update the software information." (`sysd_ovsdb_if.c:980`) | with a System row there is no transaction; a new value dereferences the IDL's NULL transaction, and the process dies in each pass |
| `packages_cut` | Package_Info is populated during initialization (`sysd_ovsdb_if.c:988`, `ops-sysd_test.md:117`) | a load that was cut short is never completed, since the table is not empty |
| `boot_hangs` | "Failed to parse output" (`sysd_util.c:90`) | `getline`'s -1 in a `size_t` is not `<= 0`; after the end of the output the code may read for ever |

Also met, without a run of their own:

- A daemon whose name is a prefix of another's is answered for by whichever row
  comes first. `hw_check` therefore takes names of which none is a prefix of
  another, and the theorems say so (`PrefixFree`); with "ops-fan" and "ops-fand"
  TLC refutes `OnlyWhenAllReported`. No manifest in the repository has
  such names.
- `sysd_fru.c:205` keeps an `int` in a `bool`, so the -1 of missing FRU information
  passes for success (`ReadFruYaml` with `NoFru`).
- Two "exit" commands in one round of `unixctl_server_run` free `subsystems`
  twice (`sysd.c:412`).
- A manifest without a management interface, a missing `acl.yaml`, a map with too many
  entries or with one that has no color or description (`qos_init.c:460`, `581`), or
  too many subports break the process in the first configuration: `AddSystemFault`,
  `InitMapFault` and the other steps to "fault". No property says which these are,
  since it could only repeat their guards.
- The name of the management interface may have no end (`sysd_util.c:312`), and
  `System:mgmt_intf` then more characters than the manifest's name that
  `ops-sysd_test.md:34` expects. `ManifestIsRead` leaves this case out: what follows the
  name is up to the allocator.
- The result of the write to the status LED is ignored (`sysd_cfg_yaml.c:276`), so
  sysd may run with the LED as the last process left it.
- `show system` says in the log that there is no Subsystem row and then reads
  `pSys->n_fans` (`system_vty.c:223`).
- The CLI offers a symbolic link to a directory as a time zone, the REST
  validator refuses it (`SameZones`).
- "timezone set" answers success without sending anything if the user's replica
  shows that zone, even if the switch has another by then.
- An allocation that fails in the first configuration leaves it incomplete for
  good, because the System row then exists. Without memory for the list of
  interfaces it is the interfaces alone that are missing
  (`CompleteUnlessNoMemory`).

## Proofs

### SysdRunProofs

For any number of instances, h/w daemons, zones, releases and batches, and
any bounds on the faults: `TypeCorrect`, `ConfiguredOnce` (`SingleSystemRow`),
`HwDoneSound` (`HwDoneOnlyAfterDaemons`), `PackagesLoadedOnce`,
`AtMostOneActive`, and `Implementation`: `Spec => ImplementsHwReady`, under the
mapping that reads `configured`, `reported` and `ready` off the database.
The assumptions are `ConfigAssumption` and `BoundAssumption` of `SysdRun`.

None of these properties is inductive by itself: that sysd inserts no second
System row depends on what its replica says, and that on the lock. The
inductive invariant `Inv` has five parts.

1. `TypeOK`.
2. `LockInv`: the server's lock belongs to a live session, and an *active*
   instance (it believes it has the lock, over a live session) is its holder.
   So at most one is active.
3. `RepInv`: no replica is ahead of the database; the active instance's replica
   has the System and Package_Info rows the database has.
4. `PcInv`: where an instance is tells what its replica shows (no System row in
   "configure", every report in "hwcommit", later batches missing in "pkg").
5. `DbInv`: the safety properties of the database.

A commit is applied only if the instance is active; then its replica is the
database in the tables the decision was made on, so what it saw still holds. The
h/w daemons' rows do change under its feet, but only from not done to done, so a
stale replica errs on the safe side. Each part has its lemma over all actions
(`TypeStep`, `LockStep`, `RepStep`, `PcStep`, `DbStep`), and the commit's three
outcomes have lemmas of their own.

`NoWakeupLost` is `SettledDone`, with the same assumptions: an instance that sleeps
in `poll_block` with the lock and a current replica has nothing left to do. The
invariant `DutyInv` follows one pass. Call an instance *current* (`Updated`) if it is active
and `pending` is false, that is, the sequence number is the one it last
acted on. Then, from the location behind each duty on, the duty is done for the
replica it has: a System row is there, `hwInitDoneSet` is set if the daemons have
reported, packages are loaded. A commit that alerts makes `pending` true
(`CommitCurrent`), so that the instance is not current until another pass has
begun; one that does not alert changes no column the duties are about (`SilentUpdate`).
A loss of the lock ends being active, and getting it back counts as a change. The
sequence numbers that `main` compares before it sleeps are the step from
"decide" to "blocked".

`LocaltimeSettled` is `SettledLocaltime`, with one more conjunct for the link
(`LinkInv`), for one instance on the switch (`OneInstance`, a hypothesis of the
theorem). With two it is false, as TLC shows: they share `/etc/localtime`, and
the lock does not guard it.

### HwDaemonCheckProofs

`TypeCorrect` holds for any names. Under `PrefixFree`: `CheckInvariance`;
`CheckIsExact`, the loop passes just when
every h/w daemon known to sysd and the database has reported, for any manifest
and any order of rows; `ReadyIsSound`, `cur_hw = 1` means that all of them have,
while the manifest is the one the database was made from. The key is
`MatchIsSelf`: with no prefixes, the rows that match a name among the h/w rows
are the name's own.

### PackageInfoProofs

For files of any length over any shapes of record, batches of any size
(`EntriesPerCommit`) and any failures, under `PackageAssumption`. Every file, the
malformed ones included: `TypeCorrect`, and `NeverLeftOpen` (`NothingLeftOpen`), which
is what `SysdRun` takes for granted when a pass goes on after a load. Well-formed
files: `NoFault` (`FaultOnlyIfMalformed`), `TableComplete` (`TableIsFile`),
`BatchesStayWhole` (`BatchesWhole`).

None of the last three is inductive: whether a write finds its row depends on
whether `txn` was opened, and that on the two tests of `record_count`. The
invariant `WellFormedInv` ties `count` to the place in the file (the number of
records that are complete), `open` to `count` and the place (a transaction is
open just between a record that begins a batch and the one that ends it), and the
rows of the transaction to the records since the last multiple of the batch size,
the last row being the record as far as it has been read. A commit therefore
takes or loses the records from one multiple to the next, and the rest of the
file at its end.

### SysdBootProofs

For any switch under `BootAssumption`: any manifest, dmidecode output, EEPROM,
number of MAC addresses, and any number of failures, kills and exits:
`BootInvariance`, `TypeCorrect`, `BootsReady` (`RunningIsReady`),
`MacsAccounted` (`MacsAccountedFor`). `TypeCorrect` says of the EEPROM walk that
its offset stays within a record of what was read and its buffers hold bytes.

`BootInv` says what a process has made of the link, the LED and the addresses by the
time it has come to a step, whatever an earlier one left; a restart begins
before all of these steps. Of the LED it says that, in the loop, it is "good" if
there is one and the write to it was not lost (`WriteLed`). The addresses are those of two `TakeMac` steps from the
pool, which `KeptIs` works out for the empty pool, one address, and more.

`IntactRead` (`IntactIsRead`) and `CrcIsGuard` (`CrcGuards`) compare the fields with what
the manufacturer has written, for any number of records and any damage. They use
`EepromAssumption` as well: the device was given records that fit, and a text that
fits its array and has no 0 in it; the checksum is that of these records, whatever
has become of the bytes. An EEPROM is *faithful* (`Faithful`) if its header and its
bytes, up to the value of the CRC, are those written. An intact one is, and so is
one whose CRC was found to match (`CrcShows`), since no other bytes have that
checksum. In the invariant `EepromInv` the walk over a faithful EEPROM is either where
one of its records begins, with the fields that the records before it mean, or
behind the CRC, with those of all. Steps that the walk cannot make there (an illegal
code, a read outside of the buffer) are ruled out by what it finds: `RecordMet`
says that these are the bytes of the record, for `FlattenSeq` of any number of
records. That takes two inductions, over the sequence that `FlattenSeq` builds
(`FlatExists`) and over what is appended behind a record (`Beginning`); `Induction` is
the principle for one set of numbers, from the well-founded order of the library,
since a principle with an operator as its parameter cannot be used.

### SysdManifestProofs

`DocumentedIsRead` (`ManifestIsRead`): a documented manifest of any shape and size is
read, whatever the order in which the hash table gives the members of its objects:
`daemons[]` has each entry of its "daemons" objects once, with its h/w handler flag,
`mgmtIntf` has the characters of the management interface's name, and their end if
the memory is zero, and no error is met. In
addition to the assumptions of `SysdBoot` it takes `ManifestAssumption`: a tag begins
with itself ("daemons" is one of `DaemonsKeys`, and no `MgmtKeys`), and `MaxDepth`
levels down there are all trees of the manifest.

The property is far from inductive: the stack has what is left to visit, but not
where in the manifest that is. The invariant `ManifestInv` says that *there are* a
list of trees (`at`, one beside each frame), a set `V` of the trees met, and a list
`read` of the entries that `daemons[]` stands for, such that:

1. no two frames of the same kind are about the same tree (`Beside`);
2. a key of a tree in `V` either is in the rest of a frame about that tree, or what
   it holds was met, and not both (`Explored`). So no tree is met twice, since the
   place of a tree determines its parent and key; and none is forgotten;
3. the same of the entries of a "daemons" object, from when it is entered;
4. `daemons[]` has the names and flags of `read` in order, and `read` has
   no entry twice (`Listed`);
5. the management interface of the manifest has been read into `mgmtIntf`, or its
   object is still to be visited, or on the stack (`IntfMet`).

Each action is one of a few moves of the exploration (`Skipped`, `Entered`,
`Opened`, `Emptied`, `EntryRead`, `IntfRead`), which are lemmas about sets of frames
and say nothing of the order on the stack. When the stack is empty nothing is left
to visit: `V` has the root and is closed under what is inside its trees, so
it has all `Trees`, by induction over the depth (`TreesWithin`). Then `read` enumerates
`Entries` without repetition, and the cardinalities agree (`ListedAll`).

### InitialConfigureProofs

For any description files and os-release files under `SizeAssumption` and `InputAssumption`
(the lists of an input are sequences, names of ports are not `NoPort`, there is an
image), any sizes of the maps and of `subports[]`, and any number of rejected
commits and failed allocations: `TypeCorrect`; `CommittedComplete`
(`CompleteUnlessNoMemory`); `FactoryImmutable` (`OnlyFactoryImmutable`);
`ProfilesDescribed` (`ProfilesAsDescribed`); `MutualLinks` (`LinksMutual`);
`CodePointsMapped` (`EveryCodePointMapped`).

All of these speak of the configuration that is committed, hence of the end of a
function. The invariant `IInv` says what there is in the middle of it:

1. `TypeInv`: the types, except those that follow from the rest.
2. `PlaceInv`: the YAML entry at which a profile is lies in the entries of that
   profile's kind, and elsewhere there is none.
3. `RowsInv`: past each step the transaction has the columns and rows which that step
   writes, unless an allocation failed; without memory for the list of interfaces only
   those are missing.
4. `ProfilesInv`: a profile which has come to entry k consists of the rows of the
   entries before k (`QueuesSoFar`, `SchedulesSoFar`), a finished one of all of them, and
   only the factory default's are marked.

The fourth is the hard one. If both profiles have the same name, the second is
built over the first: a queue's row then has the local priorities of all
entries, but the description of the last one that was *read again*, if one was.
`again` in `QueueSoFar` says so, and with k at the end it comes down to
what the first round gave (`SoFarAll`).

### SystemShownProofs

What becomes of the committed row in later passes, and what a user is shown of it,
on top of the invariant of `InitialConfigureProofs`; in addition to its
assumptions, `ReleaseAssumption` (the lines of an os-release file have texts, an array
holds a character at least) and `ShowAssumption` (rows of the inventory are
numbers): `VersionShown` (`VersionIsAnImages`), `PassBreaks`
(`PassBreaksOnlyOnNews`), `ShowEnds` (`ShowEndsUnlessConfigured`).

`ReadInv` follows the reading of a file: what `OsRelease` has found is, of each
identifier, the last value among the lines before `line`, cut off to the array, and
the names among these lines. `SoftwareInv` says what the row holds between passes:
what the images up to `pass` say. A pass that compares the row with the file
compares two texts that were cut off in different places, once each when they
were read and again when they were joined; `CutTwice` is the lemma that this makes
no difference. The trimmed text is one of the file's
(`TrimmedType`), and the last value is the one at the greatest index (`GreatestNatural`).

`UserInv` is about an output in the making. The lists of "show system" are sorted
by `SortSeq`; `SortingExists` gives a sorting permutation, by rank, so that
`ByName` has all the rows it was given and no other (`ByNameIs`). The Subsystem row
is in the transaction from its step on, unless there was no memory for it
(`SubsystemKept`), and a user has seen a System row only behind the commit.

### TimezoneCliProofs

For any number of users, zones, words and lists under `CliAssumption`, on top of
the assumptions of `SysdRun`: `CliImplementation` (`CliSpec => Spec`, the property
`ImplementsSysdRun`), so that the theorems of `SysdRunProofs` carry over
(`CliHwReady` is one); `CliTypeCorrect`; `ReplayIsSound`; `NoFormIsSound`.

`ChosenZone` says that the word looked up is found at one index only, whose zone
is one of the switch's; then a `Write` is a `SetTimezone` or changes nothing
(`CliStep`). For what replicas show, `RowsGrow` goes through every action of
`SysdRun`: no transaction takes a System row away; and `past` collects the zones, so
a replica's is in it (`ReplicaStep`). The invariant is `CliTypeOK`, with
`TypeOK` of `SysdRun` from `TypeCorrect`. Without it `ReplayRestores` and
`NoFormNamesAPastZone` are not inductive: they speak of a replica, and
whether the switch has had what it shows is a matter of its history.

### Model-checked only

- Liveness and everything under fairness.
- `ZoneList` is recursive and used by TLC only; the theorems take any list.

## Assumptions and limits

**The IDL** is external and modelled from how sysd uses it.
`ovsdb_idl_run` reads everything the server has sent: reading a part
first and the rest in the next round has the same effect, since sysd looks at
the replica only after it. Messages of a session are in order, so the
updates that came before the lock was granted are read with it. A transaction
that the server applies after the session's end is applied before the lock is
given to another. An unanswered commit is `TXN_TRY_AGAIN`, one without the lock
`TXN_NOT_LOCKED`, one that changes nothing `TXN_UNCHANGED`; the code treats all
but `TXN_SUCCESS` alike. In a transaction, rows that it inserted are found and
read back as written. Outside of one, a write-only column that already
has the value is skipped; any other write dereferences `idl->txn`.

**The server** keeps its database. Tables other than those sysd reads again
are left out of `SysdRun`.

**config-yaml, libyaml, dmidecode and libc** are inputs. A getter for a file that
was not parsed returns NULL or a count of zero, as the code's tests of the QoS
getters imply; a `qos.yaml` that was parsed gives the trust and both profile names; names
of ports are distinct.

**Undefined behaviour**: a buffer that was never written holds any value
(`fresh`); a write through a dead or NULL row, or over the end of an array, is
"fault", after which nothing is claimed.

**The time zone database** has no two names that differ only in case, and fits
the tables of the CLI; `data->keys->string` of a column that was never set is the
empty string, not NULL (`NoZone`).

**Memory** runs out only in `InitialConfigure`; the counters that bound the
environment (`MaxCrashes`, `MaxDrops`, `MaxFails` and the like) are named in
each module.

### Not modelled

- The commands that only run `date` or `timedatectl`, or print a file: `show date`,
  `show system clock`, `show system timezone`.
- What `sysd_dump`, diag dump and the event log print; that a dump wakes the main
  loop is `SysdRun!Dump`.
- Options, daemonizing, unixctl and vlog: the OVS library's code in a fixed
  order. `daemonize_complete` is reached in the first pass with the lock.
- `sysd_cfg_yaml.c` beyond its return values: config-yaml is not in the
  repository.
- The wording and layout of what is printed, and the fixed sizes of the
  CLI's tables and buffers.

`PROJECT.json` has the list of components and, under "hazards", what
in them is hard to test, with the properties that would catch it.

## Plan

Done, in this order: `HwReady`, `SysdRun` and its proofs; `PackageInfo`;
`HwDaemonCheck` and its proofs; `SysdBoot`; `InitialConfigure`; `Manifest` and
`FruEeprom` inside `SysdBoot`; `OsRelease` and `ShowSystem` inside
`InitialConfigure`; `TimezoneCli` on `SysdRun`, with its proofs.

The proofs about the settled daemon (in `SysdRunProofs`), `PackageInfoProofs`,
`SysdBootProofs`, `InitialConfigureProofs`, `SystemShownProofs` and `SysdManifestProofs`
came after the models were complete. With the last, every invariant that a passing
run checks is stated by a theorem.

Left: the hazards without a property, most of which first need a statement of what
the code *should* do (see their notes in `PROJECT.json`).
