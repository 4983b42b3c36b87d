-------------------------- MODULE InitialConfigure --------------------------
(***************************************************************************)
(* sysd_initial_configure(): the transaction of the first configuration,   *)
(* row by row.  What the description files said has been parsed (cfg); the *)
(* rows exist in the transaction only until the commit, which applies all  *)
(* of them or, if it fails, none: the next pass of the main loop starts    *)
(* over.  An allocation that fails ends the function early, or leaves the  *)
(* subsystem without interfaces, and the transaction is committed as it is.*)
(*                                                                         *)
(* The software information in it is read by the machine of OsRelease,     *)
(* which also runs in every later pass of the main loop that has a change  *)
(* to look at, over an image that may have been replaced since.            *)
(*                                                                         *)
(* SysdRun takes this transaction as one step; here its contents matter.   *)
(* "fault" stands for undefined behaviour, a NULL pointer or an array's    *)
(* end overrun: whatever follows, nothing is claimed of it.                *)
(***************************************************************************)
EXTENDS Integers, Sequences, FiniteSets, SequencesExt

CONSTANTS
    Inputs,         \* What image.manifest and the hwdesc files may say.
    NoPort,         \* No parent_port; no split_parent.
    NoText,         \* A description the YAML does not give.
    CosRows,        \* QOS_COS_MAP_ENTRY_COUNT.
    DscpRows,       \* QOS_DSCP_MAP_ENTRY_COUNT.
    MaxSplit,       \* SYSD_MAX_SPLIT_PORTS.
    NoFile, NoEquals, NStr, Between, Behind, Unset,     \* See OsRelease.
    Died,           \* See ShowSystem.
    MaxFails,       \* Bound on commits that fail.
    MaxNoMemory     \* Bound on allocations that fail.

ASSUME SizeAssumption ==
    \A n \in {CosRows, DscpRows, MaxSplit, MaxFails, MaxNoMemory} : n \in Nat

(* An input: mgmtIntf, daemons and acl say whether mgmt_intf, any daemon   *)
(* and the ACL limits are there, qosInfo whether qos.yaml was parsed.      *)
(* ports are the interfaces in order; queues and schedule the entries of   *)
(* the two profiles; cos and dscp those of the two maps: a code point, and *)
(* whether the entry is whole, which is to say with color and description; *)
(* names the profiles' names.  images are the os-release files of the      *)
(* switch's images over time; inventory the fans, LEDs, power supplies and *)
(* sensors other daemons find; shows how often "show system" is typed, in  *)
(* a vtysh in which other plugins have registered the tables of plugins.   *)
Ports(c) == 1..Len(c.ports)

IsSequence(s) == s \in Seq(ToSet(s))

ASSUME InputAssumption ==
    \A c \in Inputs :
        /\ IsSequence(c.ports)
        /\ \A p \in Ports(c) : /\ c.ports[p].name # NoPort
                               /\ IsSequence(c.ports[p].subports)
        /\ IsSequence(c.queues) /\ IsSequence(c.schedule)
        /\ IsSequence(c.cos) /\ IsSequence(c.dscp)
        /\ IsSequence(c.images) /\ c.images # <<>>
        /\ c.shows \in Nat

(* What OsRelease takes for texts: those of the lines, and the constants'   *)
(* own; no text stands for a column without a value.  An array has room    *)
(* for a character and the 0 behind it.                                    *)
Texts == Seq(STRING)

ASSUME ReleaseAssumption ==
    /\ NStr \in Nat \ {0, 1}
    /\ Between \in Texts /\ Behind \in Texts /\ Unset \notin Texts
    /\ \A c \in Inputs : \A m \in 1..Len(c.images) :
          c.images[m] # NoFile =>
              /\ IsSequence(c.images[m])
              /\ \A n \in 1..Len(c.images[m]) : c.images[m][n].value \in Texts

(* The rows of the inventory are numbers, see ShowSystem, and a process    *)
(* that has ended is none of the outputs.                                  *)
Outputs == [overview : BOOLEAN, fans : Seq(Int), leds : Seq(Int),
            psus : Seq(Int), temps : Seq(Int)]

ASSUME ShowAssumption ==
    /\ Died \notin Outputs
    /\ \A c \in Inputs : \A kind \in {"fans", "leds", "psus", "temps"} :
          c.inventory[kind] \in Seq(Int)

VARIABLES
    cfg,            \* The input.
    pc,             \* The step of sysd_initial_configure.
    k,              \* The YAML entry a profile is at.
    system,         \* The columns of the System row that are set.
    interfaces,     \* interfaces[p]: the split links of port p's row.
    maps,           \* maps.cos, maps.dscp: the code point of each row.
    profiles,       \* profiles.queue, profiles.schedule: rows by name.
    inUse,          \* System:q_profile and System:qos, if set: a name.
    line, found,    \* The reading of /etc/os-release, see OsRelease.
    software,       \* The software columns of the System row.
    short,          \* The allocations that failed in this attempt.
    image,          \* The image that is installed.
    pass,           \* The image the last whole pass has seen.
    shown,          \* What "show system" has shown last.
    used            \* How much of each bound has been used.

release == <<line, found, software>>
images == <<image, pass, shown>>
txn == <<k, system, interfaces, maps, profiles, inUse, release, short>>
vars == <<cfg, pc, txn, images, used>>

Cli == INSTANCE ShowSystem
Rel == INSTANCE OsRelease WITH file <- cfg.images[image], row <- software

Kinds == {"queue", "schedule"}
NoProfiles == [kind \in Kinds |-> <<>>]
NoRows == <<>>

(* In the order of the function's calls; "default" and "factory" name the  *)
(* profile that is created first and second.                               *)
Steps == <<"system", "subsystem", "links", "daemons", "release", "trust", "dscp",
           "cos", "queue default", "queue factory", "schedule default",
           "schedule factory", "acl", "commit">>
After(s) == Steps[1 + CHOOSE n \in 1..Len(Steps) : Steps[n] = s]
ProfileSteps == {"queue default", "queue factory", "schedule default",
                 "schedule factory"}
KindOf(s) == IF s \in {"queue default", "queue factory"}
             THEN "queue" ELSE "schedule"
IsDefault(s) == s \in {"queue default", "schedule default"}

Init ==
    /\ cfg \in Inputs
    /\ pc = "system"
    /\ k = 0
    /\ system = {}
    /\ interfaces = NoRows
    /\ maps = [cos |-> NoRows, dscp |-> NoRows]
    /\ profiles = NoProfiles
    /\ inUse = <<>>
    /\ line = 0 /\ found = Rel!NothingFound /\ software = Rel!UnsetRow
    /\ short = {}
    /\ image = 1 /\ pass = 1
    /\ shown = Cli!NothingShown
    /\ used = [fails |-> 0, noMemory |-> 0, shows |-> 0]

Step(s) == pc = s /\ pc' = After(s)

(* An allocation of the step fails.                                        *)
NoMemory(s) ==
    /\ used.noMemory < MaxNoMemory
    /\ used' = [used EXCEPT !.noMemory = @ + 1]
    /\ short' = short \union {s}

-----------------------------------------------------------------------------
(* Rows of the switch itself.                                              *)

(* The columns sysd_configure_default_bridge and _vrf set.                 *)
DefaultRows == {"bridges", "vrfs"}

(* The System row and its MAC addresses.  mgmt_intf is NULL if the         *)
(* manifest has no management interface.                                   *)
AddSystem ==
    /\ cfg.mgmtIntf
    /\ Step("system")
    /\ system' = {"mgmt_intf", "macs"} \union DefaultRows
    /\ UNCHANGED <<cfg, k, interfaces, maps, profiles, inUse, release, short, images, used>>

AddSystemFault ==
    /\ pc = "system"
    /\ ~cfg.mgmtIntf
    /\ pc' = "fault"
    /\ UNCHANGED <<cfg, txn, images, used>>

(* An Interface row, not linked yet.                                       *)
InterfaceRow == [parent |-> NoPort, children |-> {}]

(* The subsystem and one Interface row per port.                           *)
AddSubsystem ==
    /\ Step("subsystem")
    /\ interfaces' = [p \in Ports(cfg) |-> InterfaceRow]
    /\ system' = system \union {"subsystems"}
    /\ UNCHANGED <<cfg, k, maps, profiles, inUse, release, short, images, used>>

(* Mutant of NoSubsystem: without interfaces there is no subsystem.        *)
NoSubsystemAtAll ==
    /\ pc = "subsystem"
    /\ \/ NoMemory("subsystems") /\ pc' = "commit"
       \/ NoMemory("interfaces") /\ pc' = "daemons"
    /\ UNCHANGED <<cfg, k, system, interfaces, maps, profiles, inUse, release,
                   images>>

(* The list of subsystems cannot be allocated: the function returns and    *)
(* its caller commits.  The list of interfaces cannot: the subsystem stays *)
(* without any.                                                            *)
NoSubsystem ==
    /\ pc = "subsystem"
    /\ \/ /\ NoMemory("subsystems")
          /\ pc' = "commit"
          /\ UNCHANGED system
       \/ /\ NoMemory("interfaces")
          /\ pc' = "daemons"
          /\ system' = system \union {"subsystems"}
    /\ UNCHANGED <<cfg, k, interfaces, maps, profiles, inUse, release, images>>

(* The ports sysd_set_splittable_port_info has in its name table, and      *)
(* those of them that have one of the names.                               *)
Splittable(c) ==
    {p \in Ports(c) : c.ports[p].subports # <<>> \/ c.ports[p].parent # NoPort}
Named(c, names) == {p \in Splittable(c) : c.ports[p].name \in names}

(* subports[j] is written before the lookup is tested: one name more after *)
(* MaxSplit were found is written behind the array.                        *)
Overflow(c, p) ==
    LET names == c.ports[p].subports
    IN  \E n \in 1..Len(names) :
            Cardinality({m \in 1..(n - 1) : Named(c, {names[m]}) # {}})
                >= MaxSplit

(* Mutant of SplitLinks: only ports with subports are in the name table.   *)
SplitLinksParentsOnly(c) ==
    LET parents(names) == {p \in Named(c, names) : c.ports[p].subports # <<>>}
    IN  [p \in Ports(c) |->
            [parent   |-> IF parents({c.ports[p].parent}) = {} THEN NoPort
                          ELSE c.ports[p].parent,
             children |-> {c.ports[q].name :
                             q \in parents(ToSet(c.ports[p].subports))}]]

SplitLinks(c) ==
    [p \in Ports(c) |->
        [parent   |-> IF Named(c, {c.ports[p].parent}) = {} THEN NoPort
                      ELSE c.ports[p].parent,
         children |-> {c.ports[q].name :
                         q \in Named(c, ToSet(c.ports[p].subports))}]]

LinkPorts ==
    /\ \A p \in Ports(cfg) : ~Overflow(cfg, p)
    /\ Step("links")
    /\ interfaces' = SplitLinks(cfg)
    /\ UNCHANGED <<cfg, k, system, maps, profiles, inUse, release, short, images, used>>

LinkPortsFault ==
    /\ pc = "links"
    /\ \E p \in Ports(cfg) : Overflow(cfg, p)
    /\ pc' = "fault"
    /\ UNCHANGED <<cfg, txn, images, used>>

(* The Daemon rows; the column is not written if there are none.           *)
AddDaemons ==
    /\ Step("daemons")
    /\ system' = IF cfg.daemons THEN system \union {"daemons"} ELSE system
    /\ UNCHANGED <<cfg, k, interfaces, maps, profiles, inUse, release, short, images, used>>

NoDaemons ==
    /\ pc = "daemons"
    /\ NoMemory("daemons")
    /\ pc' = "commit"
    /\ UNCHANGED <<cfg, k, system, interfaces, maps, profiles, inUse, release, images>>

(* sysd_update_sw_info reads a line, for the new row or for the one a      *)
(* later pass has found.                                                   *)
ReadRelease ==
    /\ pc \in {"release", "existing"}
    /\ Rel!ReadLine
    /\ UNCHANGED <<cfg, pc, k, system, interfaces, maps, profiles, inUse,
                   short, images, used>>

(* It writes to the new row; the time zone follows.                        *)
WriteRelease ==
    /\ Rel!Read
    /\ Step("release")
    /\ software' = Rel!SetSoftware
    /\ line' = 0 /\ found' = Rel!NothingFound
    /\ system' = system \union {"timezone"}
    /\ UNCHANGED <<cfg, k, interfaces, maps, profiles, inUse, short, images,
                   used>>

-----------------------------------------------------------------------------
(* QoS and ACL.                                                            *)

(* Mutant of InitTrust: without qos.yaml nothing more is initialised.      *)
InitTrustReturns ==
    /\ pc = "trust"
    /\ pc' = IF cfg.qosInfo THEN "dscp" ELSE "commit"
    /\ system' = IF cfg.qosInfo THEN system \union {"trust"} ELSE system
    /\ UNCHANGED <<cfg, k, interfaces, maps, profiles, inUse, release, short, images, used>>

(* qos_init_trust.                                                         *)
InitTrust ==
    /\ Step("trust")
    /\ system' = IF cfg.qosInfo THEN system \union {"trust"} ELSE system
    /\ UNCHANGED <<cfg, k, interfaces, maps, profiles, inUse, release, short, images, used>>

(* Mutant of MapRows: the last entry is not read.                          *)
MapRowsButLast(entries, n) ==
    [r \in 1..n |-> IF r < Len(entries) THEN entries[r].point ELSE 0]

(* The map's rows: as many as the switch has code points, the first of     *)
(* them set from the YAML; a row that is not set has code point 0.         *)
MapRows(entries, n) ==
    [r \in 1..n |-> IF r <= Len(entries) THEN entries[r].point ELSE 0]

(* The loop sets no row behind the array, and each entry's color and       *)
(* description, which smap_replace copies, are there.                      *)
Settable(entries, n) ==
    /\ Len(entries) <= n
    /\ \A r \in 1..Len(entries) : entries[r].whole

(* qos_init_dscp_map and qos_init_cos_map: nothing without a first entry.  *)
InitMap(map, entries, n) ==
    /\ Settable(entries, n)
    /\ Step(map)
    /\ \/ /\ entries # <<>>
          /\ maps' = [maps EXCEPT ![map] = MapRows(entries, n)]
          /\ system' = system \union {map}
       \/ /\ entries = <<>>
          /\ UNCHANGED <<maps, system>>
    /\ UNCHANGED <<cfg, k, interfaces, profiles, inUse, release, short, images, used>>

(* More entries than rows, or smap_replace of NULL.                        *)
InitMapFault(map, entries, n) ==
    /\ pc = map
    /\ ~Settable(entries, n)
    /\ pc' = "fault"
    /\ UNCHANGED <<cfg, txn, images, used>>

InitMaps ==
    \/ InitMap("dscp", cfg.dscp, DscpRows)
    \/ InitMap("cos", cfg.cos, CosRows)
    \/ InitMapFault("dscp", cfg.dscp, DscpRows)
    \/ InitMapFault("cos", cfg.cos, CosRows)

(* The name and the YAML entries of the profile that is being created.     *)
Name == IF IsDefault(pc) THEN cfg.names.default ELSE cfg.names.factory
Entries == IF KindOf(pc) = "queue" THEN cfg.queues ELSE cfg.schedule

EmptyProfile == [hwDefault |-> FALSE, rows |-> <<>>]

Profile == profiles[KindOf(pc)][Name]

(* f, with v for x, which may be new to it.                                *)
Put(f, x, v) == [y \in DOMAIN f \union {x} |-> IF y = x THEN v ELSE f[y]]

(* profiles, with the one that is being created replaced by p.             *)
WithProfile(p) ==
    [profiles EXCEPT ![KindOf(pc)] = Put(@, Name, p)]

(* Without qos_info neither profile of the kind is created.                *)
SkipProfiles ==
    /\ pc \in {"queue default", "schedule default"}
    /\ ~cfg.qosInfo
    /\ pc' = After(After(pc))
    /\ UNCHANGED <<cfg, txn, images, used>>

(* qos_queue_profile_command and qos_schedule_profile_command: the row is  *)
(* created unless there is one of that name.  The queues of a schedule     *)
(* profile are then deleted.                                               *)
BeginProfile ==
    /\ pc \in ProfileSteps
    /\ cfg.qosInfo
    /\ k = 0
    /\ k' = 1
    /\ LET old == IF Name \in DOMAIN profiles[KindOf(pc)]
                  THEN Profile ELSE EmptyProfile
       IN  profiles' = WithProfile(IF KindOf(pc) = "queue" THEN old
                                   ELSE [old EXCEPT !.rows = <<>>])
    /\ UNCHANGED <<cfg, pc, system, interfaces, maps, inUse, release, short, images, used>>

(* qos_queue_profile_row_command: the entry's priority is added to the row *)
(* of its queue, which is inserted if it is the queue's first.             *)
NewQueue == [prios |-> {}, text |-> NoText, hwDefault |-> FALSE]

(* Mutant of QueueRow: every entry starts a row of its own.                *)
QueueRowFresh(rows, e) ==
    [NewQueue EXCEPT !.prios = {e.prio}, !.text = e.text]

QueueRow(rows, e) ==
    LET row == IF e.queue \in DOMAIN rows THEN rows[e.queue] ELSE NewQueue
    IN  [row EXCEPT !.prios = @ \union {e.prio},
                    !.text = IF e.text = NoText THEN @ ELSE e.text]

(* qos_schedule_profile_row_command: a strict queue has no weight.         *)
ScheduleRow(rows, e) ==
    LET weight == IF e.algorithm = "strict" THEN {} ELSE {e.weight}
    IN  IF e.queue \in DOMAIN rows
        THEN [rows[e.queue] EXCEPT !.algorithm = e.algorithm, !.weight = weight]
        ELSE [algorithm |-> e.algorithm, weight |-> weight, hwDefault |-> FALSE]

(* Mutant of AddEntry: rows keyed by the priority instead of the queue.    *)
AddEntryByPriority ==
    /\ pc \in ProfileSteps
    /\ k \in 1..Len(Entries)
    /\ k' = k + 1
    /\ LET e == Entries[k]
           row == IF KindOf(pc) = "queue" THEN QueueRow(Profile.rows, e)
                  ELSE ScheduleRow(Profile.rows, e)
           key == IF KindOf(pc) = "queue" THEN e.prio ELSE e.queue
       IN  profiles' =
               WithProfile([Profile EXCEPT !.rows = Put(@, key, row)])
    /\ UNCHANGED <<cfg, pc, system, interfaces, maps, inUse, release, short, images, used>>

AddEntry ==
    /\ pc \in ProfileSteps
    /\ k \in 1..Len(Entries)
    /\ k' = k + 1
    /\ LET e == Entries[k]
           row == IF KindOf(pc) = "queue" THEN QueueRow(Profile.rows, e)
                  ELSE ScheduleRow(Profile.rows, e)
       IN  profiles' =
               WithProfile([Profile EXCEPT !.rows = Put(@, e.queue, row)])
    /\ UNCHANGED <<cfg, pc, system, interfaces, maps, inUse, release, short, images, used>>

(* The default profile is the System row's.                                *)
UseDefault ==
    /\ IsDefault(pc)
    /\ k = Len(Entries) + 1
    /\ pc' = After(pc)
    /\ k' = 0
    /\ inUse' = Put(inUse, KindOf(pc), Name)
    /\ UNCHANGED <<cfg, system, interfaces, maps, profiles, release, short, images,
                   used>>

(* Mutant of MarkFactory: the profile's own row only.                      *)
MarkFactoryRowOnly ==
    /\ pc \in ProfileSteps
    /\ ~IsDefault(pc)
    /\ k = Len(Entries) + 1
    /\ pc' = After(pc)
    /\ k' = 0
    /\ profiles' = WithProfile([Profile EXCEPT !.hwDefault = TRUE])
    /\ UNCHANGED <<cfg, system, interfaces, maps, inUse, release, short, images, used>>

(* The factory default profile and its rows become immutable.              *)
MarkFactory ==
    /\ pc \in ProfileSteps
    /\ ~IsDefault(pc)
    /\ k = Len(Entries) + 1
    /\ pc' = After(pc)
    /\ k' = 0
    /\ profiles' = WithProfile(
            [hwDefault |-> TRUE,
             rows |-> [q \in DOMAIN Profile.rows |->
                          [Profile.rows[q] EXCEPT !.hwDefault = TRUE]]])
    /\ UNCHANGED <<cfg, system, interfaces, maps, inUse, release, short, images, used>>

(* acl_init_limits does not ask whether acl.yaml was parsed.               *)
AclLimits ==
    /\ cfg.acl
    /\ Step("acl")
    /\ system' = system \union {"acl"}
    /\ UNCHANGED <<cfg, k, interfaces, maps, profiles, inUse, release, short, images, used>>

AclFault ==
    /\ pc = "acl"
    /\ ~cfg.acl
    /\ pc' = "fault"
    /\ UNCHANGED <<cfg, txn, images, used>>

-----------------------------------------------------------------------------
(* The commit, made by the caller.                                         *)

Commit ==
    /\ pc = "commit"
    /\ pc' = "done"
    /\ UNCHANGED <<cfg, txn, images, used>>

(* The rows of the transaction are gone; the main loop calls the function  *)
(* again.                                                                  *)
CommitFails ==
    /\ pc = "commit"
    /\ used.fails < MaxFails
    /\ used' = [used EXCEPT !.fails = @ + 1]
    /\ pc' = "system"
    /\ system' = {}
    /\ interfaces' = NoRows
    /\ maps' = [cos |-> NoRows, dscp |-> NoRows]
    /\ profiles' = NoProfiles
    /\ inUse' = <<>>
    /\ software' = Rel!UnsetRow
    /\ short' = {}
    /\ UNCHANGED <<cfg, k, line, found, images>>

-----------------------------------------------------------------------------
(* Later passes, over the row that is there now.                           *)

(* Another image is installed, and the switch started on it.               *)
ReplaceImage ==
    /\ pc = "done"
    /\ image < Len(cfg.images)
    /\ image' = image + 1
    /\ UNCHANGED <<cfg, pc, txn, pass, shown, used>>

BeginPass ==
    /\ pc = "done"
    /\ pc' = "existing"
    /\ UNCHANGED <<cfg, txn, images, used>>

(* There is no transaction; the IDL skips a write that changes nothing.    *)
PassSurvives ==
    /\ pc = "existing"
    /\ Rel!Read
    /\ Rel!SetSoftware = software
    /\ pc' = "done"
    /\ line' = 0 /\ found' = Rel!NothingFound
    /\ pass' = image
    /\ UNCHANGED <<cfg, k, system, interfaces, maps, profiles, inUse, software,
                   short, image, shown, used>>

(* One that does change something dereferences the NULL transaction.       *)
PassFault ==
    /\ pc = "existing"
    /\ Rel!Read
    /\ Rel!SetSoftware # software
    /\ pc' = "nullTxn"
    /\ UNCHANGED <<cfg, txn, images, used>>

-----------------------------------------------------------------------------
(* system_ovsdb_init registers the tables and the Subsystem's columns of   *)
(* the fans and the LEDs; a replica has those of the power supplies and of *)
(* the sensors only if other plugins of the vtysh registered them.         *)
Registered == {"fans", "leds"} \union cfg.plugins

(* What the replica shows before the commit, and behind it: the row of the *)
(* System table and what the other daemons have added to the Subsystem.    *)
View(committed) ==
    LET there == committed /\ "subsystems" \in system
        rows(kind) == IF there /\ kind \in Registered
                      THEN cfg.inventory[kind] ELSE <<>>
    IN  [hasSystem |-> committed, hasSubsystem |-> there,
         fans |-> rows("fans"), leds |-> rows("leds"),
         psus |-> rows("psus"), temps |-> rows("temps")]

(* A user types "show system".  The database is empty until the commit and *)
(* the same for good after it, and so is the user's replica, which may lag *)
(* behind.                                                                 *)
ShowSystem ==
    /\ used.shows < cfg.shows
    /\ used' = [used EXCEPT !.shows = @ + 1]
    /\ \E committed \in {FALSE, pc = "done"} :
          shown' = [committed |-> committed,
                    output    |-> Cli!Output(View(committed))]
    /\ pc \in {"system", "done"}
    /\ UNCHANGED <<cfg, pc, txn, image, pass>>

Next ==
    \/ AddSystem
    \/ AddSystemFault
    \/ AddSubsystem
    \/ NoSubsystem
    \/ LinkPorts
    \/ LinkPortsFault
    \/ AddDaemons
    \/ NoDaemons
    \/ ReadRelease
    \/ WriteRelease
    \/ InitTrust
    \/ InitMaps
    \/ SkipProfiles
    \/ BeginProfile
    \/ AddEntry
    \/ UseDefault
    \/ MarkFactory
    \/ AclLimits
    \/ AclFault
    \/ Commit
    \/ CommitFails
    \/ ReplaceImage
    \/ BeginPass
    \/ PassSurvives
    \/ PassFault
    \/ ShowSystem

Spec == Init /\ [][Next]_vars

-----------------------------------------------------------------------------
(* Properties.                                                             *)

Columns == {"mgmt_intf", "bridges", "vrfs", "macs", "subsystems", "daemons",
            "timezone", "trust", "dscp", "cos", "acl"}

(* The rows are of the kinds the schema has; a profile is only there under *)
(* one of the two names, and has rows only for queues of its entries.      *)
TypeOK ==
    /\ pc \in ToSet(Steps) \union {"done", "existing", "nullTxn", "fault"}
    /\ k \in Nat
    /\ system \subseteq Columns
    /\ DOMAIN inUse \subseteq Kinds
    /\ DOMAIN maps = {"cos", "dscp"}
    /\ short \subseteq {"subsystems", "interfaces", "daemons"}
    /\ image \in 1..Len(cfg.images) /\ pass \in 1..image
    /\ \A kind \in Kinds : \A name \in DOMAIN profiles[kind] :
          /\ name \in {cfg.names.default, cfg.names.factory}
          /\ DOMAIN profiles[kind][name].rows \subseteq
                {e.queue : e \in ToSet(IF kind = "queue" THEN cfg.queues
                                       ELSE cfg.schedule)}
    /\ used.fails \in 0..MaxFails
    /\ used.shows \in 0..cfg.shows
    /\ used.noMemory \in 0..MaxNoMemory

Whole == pc = "done" /\ short = {}

(* The first configuration is made once: what it leaves out is never added *)
(* later.  A committed one has every row and column the description files  *)
(* ask for, whichever of them were missing.  Without memory for the list   *)
(* of interfaces there are no interfaces, and still all the rest; without  *)
(* memory for one of the other lists nothing is claimed.                   *)
CompleteUnlessNoMemory ==
    pc = "done" /\ short \subseteq {"interfaces"} =>
        /\ Columns \ system \subseteq {"daemons", "trust", "dscp", "cos"}
        /\ DOMAIN interfaces = IF short = {} THEN Ports(cfg) ELSE {}
        /\ cfg.daemons => "daemons" \in system
        /\ cfg.qosInfo => /\ "trust" \in system
                          /\ DOMAIN inUse = Kinds
        /\ cfg.dscp # <<>> => "dscp" \in system
        /\ cfg.cos # <<>> => "cos" \in system

(* What the YAML says about queue q: all the priorities of its entries and *)
(* the last description among them; algorithm and weight of the last one.  *)
EntriesOf(es, q) == {n \in 1..Len(es) : es[n].queue = q}
LastOf(S) == CHOOSE n \in S : \A m \in S : m <= n

QueueAsDescribed(row, q) ==
    LET mine == EntriesOf(cfg.queues, q)
        texts == {n \in mine : cfg.queues[n].text # NoText}
    IN  /\ row.prios = {cfg.queues[n].prio : n \in mine}
        /\ row.text = IF texts = {} THEN NoText
                      ELSE cfg.queues[LastOf(texts)].text

ScheduleAsDescribed(row, q) ==
    LET last == cfg.schedule[LastOf(EntriesOf(cfg.schedule, q))]
    IN  /\ row.algorithm = last.algorithm
        /\ row.weight = IF last.algorithm = "strict" THEN {} ELSE {last.weight}

(* Both profiles of a kind are exactly what qos.yaml describes: the        *)
(* factory default the user can return to is the default he started with.  *)
(* Profiles are built by read-modify-write of rows the transaction itself  *)
(* inserted, by name; also if the two names are the same, and if an        *)
(* earlier attempt at the configuration was rolled back.                   *)
ProfilesAsDescribed ==
    Whole /\ cfg.qosInfo =>
        \A name \in {cfg.names.default, cfg.names.factory} :
            LET queue == profiles.queue[name].rows
                schedule == profiles.schedule[name].rows
            IN  /\ DOMAIN queue = {e.queue : e \in ToSet(cfg.queues)}
                /\ DOMAIN schedule = {e.queue : e \in ToSet(cfg.schedule)}
                /\ \A q \in DOMAIN queue : QueueAsDescribed(queue[q], q)
                /\ \A q \in DOMAIN schedule : ScheduleAsDescribed(schedule[q], q)

(* "Create a profile named factory default that is immutable": every row   *)
(* of it is marked, and no row of the profile the switch uses and the user *)
(* edits, if the names differ.                                             *)
OnlyFactoryImmutable ==
    Whole /\ cfg.qosInfo =>
        \A kind \in Kinds, name \in {cfg.names.default, cfg.names.factory} :
            LET p == profiles[kind][name]
            IN  /\ inUse[kind] = cfg.names.default
                /\ p.hwDefault = (name = cfg.names.factory)
                /\ \A q \in DOMAIN p.rows : p.rows[q].hwDefault = p.hwDefault

(* Every port that names its parent is the parent's child and the other    *)
(* way round, as far as ports.yaml says so on both sides; and a link only  *)
(* goes where ports.yaml says, to a port that exists.                      *)
LinksMutual ==
    Whole =>
        /\ \A p, q \in Ports(cfg) :
              (/\ cfg.ports[p].parent = cfg.ports[q].name
               /\ cfg.ports[p].name \in ToSet(cfg.ports[q].subports))
              => /\ interfaces[p].parent = cfg.ports[q].name
                 /\ cfg.ports[p].name \in interfaces[q].children
        /\ \A p \in Ports(cfg) :
              LET links == interfaces[p].children \union {interfaces[p].parent}
              IN  links \subseteq {NoPort}
                     \union ({cfg.ports[q].name : q \in Ports(cfg)}
                              \intersect ToSet(<<cfg.ports[p].parent>>
                                               \o cfg.ports[p].subports))

(* If the YAML has an entry for each code point, each is in one row of the *)
(* map the System row refers to.                                           *)
EveryCodePointMapped ==
    \A m \in {"cos", "dscp"} :
        LET entries == IF m = "cos" THEN cfg.cos ELSE cfg.dscp
            n == IF m = "cos" THEN CosRows ELSE DscpRows
        IN  Whole /\ Len(entries) = n =>
                \A e \in ToSet(entries) : \E r \in 1..n : maps[m][r] = e.point

(* The row shows the version of the image that the last pass has seen, cut *)
(* off where the column's text ends, however its file is ordered, spaced   *)
(* and repeated.  Of an image without a version it may show an older one's *)
(* for good, but never one made up of two images' halves.                  *)
VersionIsAnImages ==
    pc = "done" /\ short \subseteq {"interfaces"} =>
        LET version(m) == Rel!VersionOf(cfg.images[m])
        IN  /\ version(pass) # Unset => software.version = version(pass)
            /\ \/ software.version = Unset
               \/ \E m \in 1..pass : software.version = version(m)

(* A pass over the row only breaks if there is news for it: the image      *)
(* gives another name or version than the row has, or the row was          *)
(* committed before its software columns could be written.  The pass that  *)
(* follows the first configuration, over the same image, has none.         *)
PassBreaksOnlyOnNews ==
    pc = "nullTxn" =>
        LET new == cfg.images[image]
        IN  \/ short \intersect {"subsystems", "daemons"} # {}
            \/ Rel!VersionOf(new) \notin {Unset, software.version}
            \/ /\ Rel!NamesOf(new) # {}
               /\ Rel!NamesOf(new) # Rel!NamesOf(cfg.images[pass])

(* "show system" ends the user's process only if his replica has no row of *)
(* the first configuration, or memory ran out in it before the subsystem;  *)
(* any other switch is shown with all its fans and LEDs, and with all its  *)
(* power supplies and sensors if their tables are registered.              *)
ShowEndsUnlessConfigured ==
    /\ shown.committed /\ "subsystems" \notin short => shown.output # Died
    /\ shown.output \notin {Cli!Nothing, Died} =>
          /\ shown.output.overview
          /\ \A kind \in {"fans", "leds", "psus", "temps"} :
                ToSet(shown.output[kind]) =
                    IF kind \in Registered THEN ToSet(cfg.inventory[kind]) ELSE {}
=============================================================================
