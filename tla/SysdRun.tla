------------------------------ MODULE SysdRun ------------------------------
(***************************************************************************)
(* The daemon's main loop: instances of ops-sysd, their connections to     *)
(* ovsdb-server, the "ops_sysd" lock they compete for, the IDL replica     *)
(* each of them reads, and everything sysd_run() does with it: the first   *)
(* configuration, the watch over the h/w daemons, System:cur_hw, the       *)
(* Package_Info table and /etc/localtime.                                  *)
(*                                                                         *)
(* Memory allocation succeeds here; what the first configuration writes is *)
(* abstracted to the columns sysd_run() reads again.                       *)
(***************************************************************************)
EXTENDS Integers, FiniteSets

CONSTANTS
    Instances,      \* ops-sysd processes started on the same ovsdb-server.
    NoInstance,     \* The value of lock when nobody holds it.
    HwDaemons,      \* Daemons the manifest marks as h/w handlers.
    SelfDone,       \* Those of them sysd itself writes with cur_hw = 1.
    Zones,          \* Values of System:timezone.
    DefaultZone,    \* DFLT_TIMEZONE.
    NoZone,         \* No time zone; for localtime: the link is missing.
    Releases,       \* Contents of /etc/os-release.
    NoRelease,      \* No such file; for a row: the column was never written.
    NBatches,       \* Transactions a full Package_Info load takes.
    MaxCrashes,     \* Bound on crashes of instances.
    MaxDrops,       \* Bound on connections lost.
    MaxZoneSets,    \* Bound on time zone changes by users.
    MaxUpgrades,    \* Bound on replacements of /etc/os-release.
    MaxMgmtSets     \* Bound on changes of mgmt_intf and mgmt_intf_status.

ASSUME ConfigAssumption ==
    /\ NoInstance \notin Instances
    /\ SelfDone \subseteq HwDaemons
    /\ DefaultZone \in Zones
    /\ NoZone \notin Zones
    /\ NoRelease \notin Releases
    /\ NBatches \in Nat

ASSUME BoundAssumption ==
    /\ MaxCrashes \in Nat
    /\ MaxDrops \in Nat
    /\ MaxZoneSets \in Nat
    /\ MaxUpgrades \in Nat
    /\ MaxMgmtSets \in Nat

VARIABLES
    db,             \* The server's database.
    lock,           \* The instance the server has given the lock to.
    localtime,      \* The zone /etc/localtime links to.
    osRelease,      \* The contents of /etc/os-release.
    conn,           \* conn[i]: the state of i's session, see SessionStates.
    rep,            \* rep[i]: i's IDL replica of db.
    pending,        \* pending[i]: idl_seqno # ovsdb_idl_get_seqno(idl).
    hasLock,        \* hasLock[i]: ovsdb_idl_has_lock(idl).
    hwInitDoneSet,  \* hwInitDoneSet[i]: the static hw_init_done_set.
    batch,          \* batch[i]: the Package_Info transaction i is at.
    pc,             \* pc[i]: where i is in main() and sysd_run().
    used            \* How much of each bound has been used.

serverVars == <<db, lock>>
fileVars == <<localtime, osRelease>>
idlVars == <<conn, rep, pending, hasLock>>
localVars == <<hwInitDoneSet, batch>>
vars == <<serverVars, fileVars, idlVars, localVars, pc, used>>

(* "none": no session.  "fresh": the server has accepted the session and   *)
(* its monitor reply is on the way.  "up": the replica follows the server. *)
(* "lost": the server has ended the session and i has not noticed.         *)
SessionStates == {"none", "fresh", "up", "lost"}

(* The steps of sysd_run() that follow a change of the sequence number.    *)
Handling == {"configure", "existing", "hwcommit", "packages", "pkg",
             "unlink", "link"}
Locations == Handling \union {"down", "loop", "decide", "blocked"}

(* The database: how many System rows, their cur_hw (next_hw is written    *)
(* with it), timezone and software_info/switch_version, the h/w daemons    *)
(* whose row has cur_hw > 0, how often each batch of Package_Info records  *)
(* was inserted, and how often others have written mgmt_intf and           *)
(* mgmt_intf_status.                                                       *)
Database == [rows  : Nat,
             curHw : {0, 1},
             tz    : Zones \union {NoZone},
             sw    : Releases \union {NoRelease},
             hw    : SUBSET HwDaemons,
             pkgs  : [1..NBatches -> Nat],
             mgmt  : 0..MaxMgmtSets]

EmptyDb == [rows |-> 0, curHw |-> 0, tz |-> NoZone, sw |-> NoRelease,
            hw |-> {}, pkgs |-> [b \in 1..NBatches |-> 0], mgmt |-> 0]

Init ==
    /\ db = EmptyDb
    /\ lock = NoInstance
    /\ localtime \in Zones \union {NoZone}
    /\ osRelease \in Releases \union {NoRelease}
    /\ conn = [i \in Instances |-> "none"]
    /\ rep = [i \in Instances |-> EmptyDb]
    /\ pending = [i \in Instances |-> FALSE]
    /\ hasLock = [i \in Instances |-> FALSE]
    /\ hwInitDoneSet = [i \in Instances |-> FALSE]
    /\ batch = [i \in Instances |-> 1]
    /\ pc = [i \in Instances |-> "down"]
    /\ used = [crashes |-> 0, drops |-> 0, zoneSets |-> 0, upgrades |-> 0]

Goto(i, l) == pc' = [pc EXCEPT ![i] = l]

-----------------------------------------------------------------------------
(* The IDL: what the OVSDB client library does for sysd.                   *)

(* Mutants of Alerts: omit_alert on Daemon:cur_hw, on timezone.  Then:     *)
(* does an update from old to new advance the sequence number?  Inserted   *)
(* rows do, and the columns sysd did not omit_alert: timezone, mgmt_intf,  *)
(* mgmt_intf_status, Daemon:cur_hw, and Daemon:name, which never changes.  *)
(* System:cur_hw and software_info do not.                                 *)
AlertsWithoutDaemons(old, new) ==
    \/ old.rows # new.rows
    \/ old.tz # new.tz
    \/ old.mgmt # new.mgmt
    \/ old.pkgs # new.pkgs

AlertsWithoutTimezone(old, new) ==
    \/ old.rows # new.rows
    \/ old.mgmt # new.mgmt
    \/ old.hw # new.hw
    \/ old.pkgs # new.pkgs

Alerts(old, new) ==
    \/ old.rows # new.rows
    \/ old.tz # new.tz
    \/ old.mgmt # new.mgmt
    \/ old.hw # new.hw
    \/ old.pkgs # new.pkgs

Release(i) == lock' = IF lock = i THEN NoInstance ELSE lock

(* i's session is gone and i knows: has_lock is reset.  The replica stays. *)
Forget(i) ==
    /\ conn' = [conn EXCEPT ![i] = "none"]
    /\ hasLock' = [hasLock EXCEPT ![i] = FALSE]

(* ovsdb_idl_txn_commit_block, when the server answers: the transaction    *)
(* asserted the lock, is applied, and its update reaches the replica.      *)
Applied(i, new) ==
    /\ hasLock[i]
    /\ conn[i] = "up"
    /\ db' = new
    /\ rep' = [rep EXCEPT ![i] = new]
    /\ pending' = [pending EXCEPT ![i] = @ \/ Alerts(rep[i], new)]
    /\ UNCHANGED <<lock, conn, hasLock, used>>

(* The server applies the transaction but the connection goes down before  *)
(* the answer: the client sees TXN_TRY_AGAIN.                              *)
Unanswered(i, new) ==
    /\ hasLock[i]
    /\ conn[i] = "up"
    /\ used.drops < MaxDrops
    /\ db' = new
    /\ Release(i)
    /\ Forget(i)
    /\ used' = [used EXCEPT !.drops = @ + 1]
    /\ UNCHANGED <<rep, pending>>

(* The session was already gone (TXN_TRY_AGAIN), or an earlier commit in   *)
(* the same pass found that out (TXN_NOT_LOCKED): nothing is applied.      *)
Rejected(i) ==
    /\ ~hasLock[i] \/ conn[i] = "lost"
    /\ IF hasLock[i] THEN Forget(i) ELSE UNCHANGED <<conn, hasLock>>
    /\ UNCHANGED <<db, lock, rep, pending, used>>

(* new is the database after the transaction: it is merged by the server.  *)
CommitBlock(i, new) ==
    \/ Applied(i, new)
    \/ Unanswered(i, new)
    \/ Rejected(i)

(* ovsdb_idl_run: with a session, everything the server sent is read.      *)
Online(i) == conn[i] \in {"fresh", "up"}
SeenRep(i) == IF Online(i) THEN db ELSE rep[i]

(* Mutant of SeenLock: no ovsdb_idl_set_lock.                              *)
SeenNoLockNeeded(i) == Online(i)

SeenLock(i) == Online(i) /\ lock = i
SeenChange(i) ==
    \/ pending[i]
    \/ conn[i] = "fresh"
    \/ conn[i] = "up" /\ Alerts(rep[i], db)
    \/ SeenLock(i) /\ ~hasLock[i]

(* Mutant of IdlRun: the loss of the lock goes unnoticed.                  *)
IdlRunKeepsLock(i) ==
    /\ conn' = [conn EXCEPT ![i] = IF Online(i) THEN "up" ELSE "none"]
    /\ rep' = [rep EXCEPT ![i] = SeenRep(i)]
    /\ hasLock' = [hasLock EXCEPT ![i] = @ \/ SeenLock(i)]

IdlRun(i) ==
    /\ conn' = [conn EXCEPT ![i] = IF Online(i) THEN "up" ELSE "none"]
    /\ rep' = [rep EXCEPT ![i] = SeenRep(i)]
    /\ hasLock' = [hasLock EXCEPT ![i] = SeenLock(i)]

-----------------------------------------------------------------------------
(* sysd_run().                                                             *)

(* The lock is contended or not yet granted: return, and leave idl_seqno   *)
(* as it is.                                                               *)
RunWithoutLock(i) ==
    /\ pc[i] = "loop"
    /\ IdlRun(i)
    /\ ~SeenLock(i)
    /\ pending' = [pending EXCEPT ![i] = SeenChange(i)]
    /\ Goto(i, "decide")
    /\ UNCHANGED <<serverVars, fileVars, localVars, used>>

(* Nothing has changed since the last pass.                                *)
RunUnchanged(i) ==
    /\ pc[i] = "loop"
    /\ IdlRun(i)
    /\ SeenLock(i)
    /\ ~SeenChange(i)
    /\ Goto(i, "decide")
    /\ UNCHANGED <<serverVars, fileVars, pending, localVars, used>>

(* idl_seqno catches up; the pass depends on whether a System row exists.  *)
RunChanged(i) ==
    /\ pc[i] = "loop"
    /\ IdlRun(i)
    /\ SeenLock(i)
    /\ SeenChange(i)
    /\ pending' = [pending EXCEPT ![i] = FALSE]
    /\ Goto(i, IF SeenRep(i).rows = 0 THEN "configure" ELSE "existing")
    /\ UNCHANGED <<serverVars, fileVars, localVars, used>>

(* The transactions of sysd, as what they make of database d: insert the   *)
(* System row and all it refers to; set cur_hw and next_hw; insert batch b *)
(* of the Package_Info records.                                            *)
WithSystemRow(d) == [d EXCEPT !.rows = @ + 1, !.tz = DefaultZone,
                              !.sw = osRelease, !.hw = SelfDone]
WithHwDone(d) == [d EXCEPT !.curHw = 1]
WithPackages(d, b) == [d EXCEPT !.pkgs[b] = @ + 1]

(* Mutant of Configure: the new row says at once that the hardware is up.  *)
ConfigureAndAnnounce(i) ==
    /\ pc[i] = "configure"
    /\ CommitBlock(i, [WithSystemRow(db) EXCEPT !.curHw = 1])
    /\ Goto(i, "packages")
    /\ UNCHANGED <<fileVars, localVars>>

(* sysd_initial_configure: the System row and all it refers to, in one     *)
(* transaction.  A failed commit is only logged.                           *)
Configure(i) ==
    /\ pc[i] = "configure"
    /\ CommitBlock(i, WithSystemRow(db))
    /\ Goto(i, "packages")
    /\ UNCHANGED <<fileVars, localVars>>

(* Mutant of HwReported: a daemon that is not done does not end the scan.  *)
SomeReported(d) == HwDaemons = {} \/ HwDaemons \intersect d.hw # {}

(* sysd_chk_if_hw_daemons_done.                                            *)
HwReported(d) == HwDaemons \subseteq d.hw

(* A System row exists: sysd_update_sw_info writes its columns outside any *)
(* transaction, which the IDL skips as long as the values are the row's;   *)
(* then the h/w daemons are looked at, until they were once all done.      *)
ExistingRow(i) ==
    /\ pc[i] = "existing"
    /\ osRelease \in {NoRelease, rep[i].sw}
    /\ Goto(i, IF ~hwInitDoneSet[i] /\ HwReported(rep[i])
               THEN "hwcommit" ELSE "packages")
    /\ UNCHANGED <<serverVars, fileVars, idlVars, localVars, used>>

(* sysd_set_hw_done.  When cur_hw is already 1 the transaction is empty    *)
(* and nothing is sent.  The flag is set whatever became of the commit.    *)
SetHwDone(i) ==
    /\ pc[i] = "hwcommit"
    /\ IF rep[i].curHw = 1
       THEN UNCHANGED <<serverVars, idlVars, used>>
       ELSE CommitBlock(i, WithHwDone(db))
    /\ hwInitDoneSet' = [hwInitDoneSet EXCEPT ![i] = TRUE]
    /\ Goto(i, "packages")
    /\ UNCHANGED <<fileVars, batch>>

(* Mutant of NoPackages: load again if the last load was cut short.        *)
LoadUnlessWhole(d) == \E b \in 1..NBatches : d.pkgs[b] = 0

(* Is Package_Info empty in the replica?                                   *)
NoPackages(d) == \A b \in 1..NBatches : d.pkgs[b] = 0

CheckPackages(i) ==
    /\ pc[i] = "packages"
    /\ batch' = [batch EXCEPT ![i] = 1]
    /\ Goto(i, IF NBatches > 0 /\ NoPackages(rep[i]) THEN "pkg" ELSE "unlink")
    /\ UNCHANGED <<serverVars, fileVars, idlVars, hwInitDoneSet, used>>

(* Mutant of AddPackages: one batch too many.                              *)
AddPackagesOffByOne(i) ==
    /\ pc[i] = "pkg"
    /\ CommitBlock(i, WithPackages(db, batch[i]))
    /\ IF batch[i] <= NBatches
       THEN batch' = [batch EXCEPT ![i] = @ + 1] /\ UNCHANGED pc
       ELSE Goto(i, "unlink") /\ UNCHANGED batch
    /\ UNCHANGED <<fileVars, hwInitDoneSet>>

(* One commit of sysd_add_package_info.  A failed one is only logged, and  *)
(* the next batch is tried.                                                *)
AddPackages(i) ==
    /\ pc[i] = "pkg"
    /\ CommitBlock(i, WithPackages(db, batch[i]))
    /\ IF batch[i] < NBatches
       THEN batch' = [batch EXCEPT ![i] = @ + 1] /\ UNCHANGED pc
       ELSE Goto(i, "unlink") /\ UNCHANGED batch
    /\ UNCHANGED <<fileVars, hwInitDoneSet>>

(* Mutant of UnlinkLocaltime: the old link is left in place.               *)
UnlinkNothing(i) ==
    /\ pc[i] = "unlink"
    /\ Goto(i, IF rep[i].rows = 0 THEN "decide" ELSE "link")
    /\ UNCHANGED <<serverVars, fileVars, idlVars, localVars, used>>

(* sysd_handle_timezone_update, up to unlink("/etc/localtime").            *)
UnlinkLocaltime(i) ==
    /\ pc[i] = "unlink"
    /\ IF rep[i].rows = 0
       THEN Goto(i, "decide") /\ UNCHANGED localtime
       ELSE Goto(i, "link") /\ localtime' = NoZone
    /\ UNCHANGED <<serverVars, osRelease, idlVars, localVars, used>>

(* symlink(), which fails when the name exists again.                      *)
LinkLocaltime(i) ==
    /\ pc[i] = "link"
    /\ localtime' = IF localtime = NoZone THEN rep[i].tz ELSE localtime
    /\ Goto(i, "decide")
    /\ UNCHANGED <<serverVars, osRelease, idlVars, localVars, used>>

-----------------------------------------------------------------------------
(* The loop in main().                                                     *)

(* Mutant of Decide: poll_block() in every round.                          *)
DecideToBlock(i) ==
    /\ pc[i] = "decide"
    /\ Goto(i, "blocked")
    /\ UNCHANGED <<serverVars, fileVars, idlVars, localVars, used>>

(* Skip poll_block() if the sequence number moved behind sysd_run's back.  *)
Decide(i) ==
    /\ pc[i] = "decide"
    /\ Goto(i, IF pending[i] THEN "loop" ELSE "blocked")
    /\ UNCHANGED <<serverVars, fileVars, idlVars, localVars, used>>

(* poll_block() returns when the server has sent something not yet read.   *)
Wake(i) ==
    /\ pc[i] = "blocked"
    /\ \/ conn[i] \in {"fresh", "lost"}
       \/ conn[i] = "up" /\ (rep[i] # db \/ hasLock[i] # (lock = i))
    /\ Goto(i, "loop")
    /\ UNCHANGED <<serverVars, fileVars, idlVars, localVars, used>>

(* poll_block() returns for "ovs-appctl ops-sysd/dump" as well, which      *)
(* changes nothing but begins another round.                               *)
Dump(i) ==
    /\ pc[i] = "blocked"
    /\ Goto(i, "loop")
    /\ UNCHANGED <<serverVars, fileVars, idlVars, localVars, used>>

(* Mutant of Start: a System row is taken to mean that all was done.       *)
StartTrusting(i) ==
    /\ pc[i] = "down"
    /\ Goto(i, "loop")
    /\ hwInitDoneSet' = [hwInitDoneSet EXCEPT ![i] = db.rows > 0]
    /\ UNCHANGED <<serverVars, fileVars, idlVars, batch, used>>

(* The process begins with empty statics and an empty replica.             *)
Start(i) ==
    /\ pc[i] = "down"
    /\ Goto(i, "loop")
    /\ UNCHANGED <<serverVars, fileVars, idlVars, localVars, used>>

Die(i) ==
    /\ Release(i)
    /\ Forget(i)
    /\ rep' = [rep EXCEPT ![i] = EmptyDb]
    /\ pending' = [pending EXCEPT ![i] = FALSE]
    /\ hwInitDoneSet' = [hwInitDoneSet EXCEPT ![i] = FALSE]
    /\ batch' = [batch EXCEPT ![i] = 1]
    /\ Goto(i, "down")
    /\ UNCHANGED <<db, fileVars>>

(* sysd_update_sw_info sets a column to a new value with no transaction    *)
(* open: the IDL dereferences idl->txn, which is NULL.                     *)
SwInfoFault(i) ==
    /\ pc[i] = "existing"
    /\ osRelease \notin {NoRelease, rep[i].sw}
    /\ Die(i)
    /\ UNCHANGED used

-----------------------------------------------------------------------------
(* The rest of the switch.                                                 *)

Crash(i) ==
    /\ pc[i] # "down"
    /\ used.crashes < MaxCrashes
    /\ Die(i)
    /\ used' = [used EXCEPT !.crashes = @ + 1]

(* The server ends i's session, and gives up the lock i held through it.   *)
Drop(i) ==
    /\ Online(i)
    /\ used.drops < MaxDrops
    /\ conn' = [conn EXCEPT ![i] = "lost"]
    /\ Release(i)
    /\ used' = [used EXCEPT !.drops = @ + 1]
    /\ UNCHANGED <<db, fileVars, rep, pending, hasLock, localVars, pc>>

(* The server accepts a session; the lock request is the first thing sent. *)
Connect(i) ==
    /\ pc[i] # "down"
    /\ conn[i] = "none"
    /\ conn' = [conn EXCEPT ![i] = "fresh"]
    /\ UNCHANGED <<serverVars, fileVars, rep, pending, hasLock, localVars,
                   pc, used>>

Grant(i) ==
    /\ lock = NoInstance
    /\ Online(i)
    /\ lock' = i
    /\ UNCHANGED <<db, fileVars, idlVars, localVars, pc, used>>

(* H/w daemon d sets Daemon[d]:cur_hw = 1 in the row sysd made for it.     *)
Report(d) ==
    /\ db.rows > 0
    /\ d \notin db.hw
    /\ db' = [db EXCEPT !.hw = @ \union {d}]
    /\ UNCHANGED <<lock, fileVars, idlVars, localVars, pc, used>>

(* A user sets System:timezone.                                            *)
SetTimezone(z) ==
    /\ db.rows > 0
    /\ z # db.tz
    /\ used.zoneSets < MaxZoneSets
    /\ db' = [db EXCEPT !.tz = z]
    /\ used' = [used EXCEPT !.zoneSets = @ + 1]
    /\ UNCHANGED <<lock, fileVars, idlVars, localVars, pc>>

(* A user sets mgmt_intf, or its daemon mgmt_intf_status: sysd reads       *)
(* neither, but wakes up.                                                  *)
SetMgmtIntf ==
    /\ db.rows > 0
    /\ db.mgmt < MaxMgmtSets
    /\ db' = [db EXCEPT !.mgmt = @ + 1]
    /\ UNCHANGED <<lock, fileVars, idlVars, localVars, pc, used>>

(* The image's /etc/os-release is replaced.                                *)
Upgrade(r) ==
    /\ r # osRelease
    /\ used.upgrades < MaxUpgrades
    /\ osRelease' = r
    /\ used' = [used EXCEPT !.upgrades = @ + 1]
    /\ UNCHANGED <<serverVars, localtime, idlVars, localVars, pc>>

-----------------------------------------------------------------------------
Handler(i) ==
    \/ Configure(i)
    \/ ExistingRow(i)
    \/ SwInfoFault(i)
    \/ SetHwDone(i)
    \/ CheckPackages(i)
    \/ AddPackages(i)
    \/ UnlinkLocaltime(i)
    \/ LinkLocaltime(i)

(* One step of process i.                                                  *)
Step(i) ==
    \/ RunWithoutLock(i)
    \/ RunUnchanged(i)
    \/ RunChanged(i)
    \/ Handler(i)
    \/ Decide(i)
    \/ Wake(i)

Environment ==
    \/ \E d \in HwDaemons : Report(d)
    \/ \E z \in Zones : SetTimezone(z)
    \/ SetMgmtIntf
    \/ \E r \in Releases : Upgrade(r)

Next ==
    \/ \E i \in Instances :
           \/ Step(i) \/ Dump(i) \/ Start(i) \/ Crash(i)
           \/ Drop(i) \/ Connect(i) \/ Grant(i)
    \/ Environment

Spec == Init /\ [][Next]_vars

(* The scheduler runs every process, the service manager starts it again,  *)
(* and the server accepts sessions and grants a free lock.  Nothing makes  *)
(* h/w daemons report or users change or ask anything.                     *)
Fairness ==
    \A i \in Instances :
        /\ WF_vars(Step(i))
        /\ WF_vars(Start(i))
        /\ WF_vars(Connect(i))
        /\ WF_vars(Grant(i))

FairSpec == Spec /\ Fairness

-----------------------------------------------------------------------------
(* Properties.                                                             *)

(* Every variable keeps its type, and no counter exceeds its bound.        *)
TypeOK ==
    /\ db \in Database
    /\ lock \in Instances \union {NoInstance}
    /\ localtime \in Zones \union {NoZone}
    /\ osRelease \in Releases \union {NoRelease}
    /\ conn \in [Instances -> SessionStates]
    /\ rep \in [Instances -> Database]
    /\ pending \in [Instances -> BOOLEAN]
    /\ hasLock \in [Instances -> BOOLEAN]
    /\ hwInitDoneSet \in [Instances -> BOOLEAN]
    /\ batch \in [Instances -> 1..NBatches \union {1}]
    /\ pc \in [Instances -> Locations]
    /\ used \in [crashes : 0..MaxCrashes, drops : 0..MaxDrops,
                 zoneSets : 0..MaxZoneSets, upgrades : 0..MaxUpgrades]

(* The switch is configured once: over crashes, failovers and transactions *)
(* whose answer was lost, no second System row is ever inserted by the     *)
(* cfg == NULL branch of sysd_run.                                         *)
SingleSystemRow == db.rows <= 1

(* System:cur_hw is 1 only if every h/w daemon has set its own cur_hw, as  *)
(* the comment in sysd_chk_if_hw_daemons_done promises the configuration   *)
(* daemon, although sysd decides on a replica that may be stale.           *)
HwDoneOnlyAfterDaemons == db.curHw = 1 => HwDaemons \subseteq db.hw

(* No batch of Package_Info records is inserted twice: the emptiness test  *)
(* on the replica is enough even if an earlier load was cut short.         *)
PackagesOnce == \A b \in 1..NBatches : db.pkgs[b] <= 1

(* i sleeps in poll_block() with the lock, and the server has nothing more *)
(* to tell it.                                                             *)
Settled(i) ==
    /\ pc[i] = "blocked"
    /\ conn[i] = "up"
    /\ hasLock[i]
    /\ rep[i] = db

(* No wakeup is lost: an active instance that sleeps with a current        *)
(* replica has done all there is to do with it.  This is what the test of  *)
(* idl_seqno before poll_block() in main() is for.                         *)
SettledDone ==
    \A i \in Instances : Settled(i) =>
        /\ db.rows = 1
        /\ HwDaemons \subseteq db.hw => hwInitDoneSet[i]
        /\ NBatches > 0 => \E b \in 1..NBatches : db.pkgs[b] > 0

(* ... and /etc/localtime follows System:timezone, when there is one       *)
(* instance (two can race for the link, see the README).                   *)
SettledLocaltime ==
    \A i \in Instances : Settled(i) => localtime = db.tz

(* What a session tells: only the instance the server gave the lock to can *)
(* both believe it has it and have a live session.  ovsdb-server's lock    *)
(* protects the database, nothing else.                                    *)
OneActiveInstance ==
    \A i, j \in Instances :
        hasLock[i] /\ conn[i] = "up" /\ hasLock[j] /\ conn[j] = "up" => i = j

(* Once the h/w daemons have all reported, sysd sets System:cur_hw.        *)
ReadyEventually ==
    (db.rows > 0 /\ HwDaemons \subseteq db.hw) ~> (db.curHw = 1)

(* A restart repairs what a lost connection broke: if no connection is     *)
(* lost any more, a process that starts after the daemons have reported    *)
(* announces it, because hw_init_done_set does not outlive a process.      *)
(* (If the software information is to be updated too, see SwInfoUpdated.)  *)
RestartRecovers ==
    \A i \in Instances :
        (/\ pc[i] = "down"
         /\ used.drops = MaxDrops
         /\ db.rows > 0
         /\ HwDaemons \subseteq db.hw)
            ~> (db.curHw = 1 \/ osRelease \notin {NoRelease, db.sw})

(* /etc/localtime ends up at the time zone the user last set.              *)
LocaltimeFollows ==
    \A z \in Zones : <>[](db.tz = z) => <>[](localtime = z)

(* Every batch of Package_Info is loaded in the end ("Populate source url  *)
(* and version of packages/daemon present in image").                      *)
PackagesEventually == <>(\A b \in 1..NBatches : db.pkgs[b] = 1)

(* An instance without the lock is disabled "until it goes away": it       *)
(* sleeps, it does not spin through main()'s loop.                         *)
StandbySleeps ==
    \A i \in Instances : []<>(pc[i] \in {"blocked", "down"} \/ hasLock[i])

(* A pass over an existing row brings its software information up to date  *)
(* with /etc/os-release: "Update the software information."                *)
SwInfoUpdated ==
    \A i \in Instances, r \in Releases :
        (pc[i] = "existing" /\ osRelease = r) ~> (db.sw = r \/ osRelease # r)

(* What the rest of the switch sees of all this: see HwReady.              *)
Abstract == INSTANCE HwReady WITH
    configured <- db.rows > 0,
    reported   <- db.hw,
    ready      <- db.curHw = 1

(* Every step of the daemon is a step of the abstract system, or none.     *)
ImplementsHwReady == Abstract!Safety

(* With fairness and without lost connections also the announcement comes. *)
ImplementsHwReadyFair == Abstract!Spec
=============================================================================
