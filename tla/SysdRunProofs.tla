--------------------------- MODULE SysdRunProofs ---------------------------
(***************************************************************************)
(* The safety of SysdRun for any number of instances, h/w daemons and      *)
(* batches, and any bounds.                                                *)
(*                                                                         *)
(* The argument: the server's lock makes at most one instance active (it   *)
(* believes it has the lock, over a live session).  Only the active        *)
(* instance inserts System and Package_Info rows, so in those tables its   *)
(* replica is the database itself: what it decided on when it ran is still *)
(* so when it commits.  The h/w daemons' rows change under its feet, but   *)
(* only from not done to done, so a stale replica errs on the safe side.   *)
(* The last part is about a daemon that sleeps: nothing is left to do.     *)
(***************************************************************************)
EXTENDS SysdRun, TLAPS

Active(i) == hasLock[i] /\ conn[i] = "up"

(* The server gives the lock to a live session, and the active instance is *)
(* the one that has it.                                                    *)
LockInv ==
    \A i \in Instances :
        /\ lock = i => Online(i)
        /\ Active(i) => lock = i

(* Where an instance is tells what its replica shows.                      *)
PcInv ==
    \A i \in Instances :
        /\ pc[i] = "configure" => rep[i].rows = 0
        /\ pc[i] \in {"existing", "hwcommit"} => rep[i].rows > 0
        /\ pc[i] = "hwcommit" => HwReported(rep[i])
        /\ pc[i] = "pkg" =>
               /\ batch[i] <= NBatches
               /\ \A b \in 1..NBatches :
                      b >= batch[i] => rep[i].pkgs[b] = 0

(* How replicas compare with the database.                                 *)
RepInv ==
    \A i \in Instances :
        /\ rep[i].rows <= db.rows
        /\ rep[i].hw \subseteq db.hw
        /\ Active(i) => rep[i].rows = db.rows /\ rep[i].pkgs = db.pkgs

(* The database on its own.                                                *)
DbInv ==
    /\ SingleSystemRow
    /\ db.rows = 0 => db.hw = {} /\ db.curHw = 0
    /\ HwDoneOnlyAfterDaemons
    /\ PackagesOnce

Inv == TypeOK /\ LockInv /\ PcInv /\ RepInv /\ DbInv

-----------------------------------------------------------------------------
(* Types.                                                                  *)

(* The empty database, before the System row exists, is a database.        *)
LEMMA EmptyDbType == EmptyDb \in Database
  BY ConfigAssumption, BoundAssumption DEF EmptyDb, Database

(* The variables keep their types when i's session ends, or i dies.        *)
LEMMA DieType ==
  ASSUME TypeOK, NEW i \in Instances, Die(i)
  PROVE  /\ lock' \in Instances \union {NoInstance}
         /\ conn' \in [Instances -> SessionStates]
         /\ rep' \in [Instances -> Database]
         /\ pending' \in [Instances -> BOOLEAN]
         /\ hasLock' \in [Instances -> BOOLEAN]
         /\ hwInitDoneSet' \in [Instances -> BOOLEAN]
         /\ batch' \in [Instances -> 1..NBatches \union {1}]
         /\ pc' \in [Instances -> Locations]
  BY EmptyDbType
     DEF TypeOK, Die, Release, Forget, Goto, Locations, SessionStates

(* A commit_block that writes a database keeps the types of what it may    *)
(* change, whatever its outcome.                                           *)
LEMMA CommitType ==
  ASSUME TypeOK, NEW i \in Instances, NEW new \in Database,
         CommitBlock(i, new)
  PROVE  /\ db' \in Database
         /\ lock' \in Instances \union {NoInstance}
         /\ conn' \in [Instances -> SessionStates]
         /\ rep' \in [Instances -> Database]
         /\ pending' \in [Instances -> BOOLEAN]
         /\ hasLock' \in [Instances -> BOOLEAN]
         /\ used' \in [crashes : 0..MaxCrashes, drops : 0..MaxDrops,
                        zoneSets : 0..MaxZoneSets, upgrades : 0..MaxUpgrades]
<1>1. CASE Applied(i, new)
  <2>1. (pending[i] \/ Alerts(rep[i], new)) \in BOOLEAN
    BY DEF TypeOK, Alerts
  <2> QED
    BY <1>1, <2>1 DEF Applied, TypeOK
<1>2. CASE Unanswered(i, new)
  BY <1>2, BoundAssumption
     DEF Unanswered, Release, Forget, TypeOK, SessionStates
<1>3. CASE Rejected(i)
  BY <1>3 DEF Rejected, Forget, TypeOK, SessionStates
<1> QED
  BY <1>1, <1>2, <1>3 DEF CommitBlock

(* The databases that sysd's transactions write.                           *)
LEMMA WrittenDbType ==
  ASSUME TypeOK
  PROVE  /\ WithSystemRow(db) \in Database
         /\ WithHwDone(db) \in Database
         /\ \A b \in 1..NBatches : WithPackages(db, b) \in Database
<1>1. WithSystemRow(db) \in Database
  <2>1. db.rows + 1 \in Nat
    BY DEF TypeOK, Database
  <2> QED
    BY <2>1, ConfigAssumption DEF TypeOK, Database, WithSystemRow
<1>2. WithHwDone(db) \in Database
  BY DEF TypeOK, Database, WithHwDone
<1>3. ASSUME NEW b \in 1..NBatches
      PROVE  WithPackages(db, b) \in Database
  <2> DEFINE p == [db.pkgs EXCEPT ![b] = @ + 1]
  <2>1. p \in [1..NBatches -> Nat]
    <3>1. db.pkgs \in [1..NBatches -> Nat]
      BY DEF TypeOK, Database
    <3>2. db.pkgs[b] \in Nat
      BY <3>1
    <3>3. \A n \in Nat : n + 1 \in Nat
      OBVIOUS
    <3>4. db.pkgs[b] + 1 \in Nat
      BY <3>2, <3>3
    <3> QED
      BY <3>1, <3>4
  <2>2. WithPackages(db, b) = [db EXCEPT !.pkgs = p]
    BY DEF TypeOK, Database, WithPackages
  <2> QED
    BY <2>1, <2>2 DEF TypeOK, Database
<1> QED
  BY <1>1, <1>2, <1>3

(* Every step keeps the types.                                             *)
LEMMA TypeStep ==
  ASSUME Inv, [Next]_vars
  PROVE  TypeOK'
<1> USE DEF Inv
<1>1. ASSUME NEW i \in Instances, RunWithoutLock(i) \/ RunUnchanged(i)
                                                   \/ RunChanged(i)
      PROVE  TypeOK'
  <2>1. SeenRep(i) \in Database /\ SeenLock(i) \in BOOLEAN
    BY DEF TypeOK, SeenRep, SeenLock, Online
  <2>2. SeenChange(i) \in BOOLEAN
    BY DEF TypeOK, SeenChange, SeenLock, Online, Alerts
  <2>3. /\ conn' \in [Instances -> SessionStates]
        /\ rep' \in [Instances -> Database]
        /\ hasLock' \in [Instances -> BOOLEAN]
    BY <1>1, <2>1 DEF TypeOK, RunWithoutLock, RunUnchanged, RunChanged,
                      IdlRun, SessionStates
  <2>4. pending' \in [Instances -> BOOLEAN]
    BY <1>1, <2>2 DEF TypeOK, RunWithoutLock, RunUnchanged, RunChanged
  <2>5. pc' \in [Instances -> Locations]
    BY <1>1 DEF TypeOK, RunWithoutLock, RunUnchanged, RunChanged, Goto,
                Locations, Handling
  <2> QED
    BY <1>1, <2>3, <2>4, <2>5
       DEF TypeOK, RunWithoutLock, RunUnchanged, RunChanged,
           serverVars, fileVars, localVars
<1>2. ASSUME NEW i \in Instances, Configure(i)
      PROVE  TypeOK'
  <2>1. pc' \in [Instances -> Locations]
    BY <1>2 DEF TypeOK, Configure, Goto, Locations, Handling
  <2> QED
    BY <1>2, <2>1, CommitType, WrittenDbType
       DEF TypeOK, Configure, fileVars, localVars
<1>3. ASSUME NEW i \in Instances, SetHwDone(i)
      PROVE  TypeOK'
  <2>1. pc' \in [Instances -> Locations]
    BY <1>3 DEF TypeOK, SetHwDone, Goto, Locations, Handling
  <2>2. hwInitDoneSet' \in [Instances -> BOOLEAN]
    BY <1>3 DEF TypeOK, SetHwDone
  <2>3. CASE rep[i].curHw = 1
    BY <1>3, <2>1, <2>2, <2>3
       DEF TypeOK, SetHwDone, serverVars, fileVars, idlVars
  <2>4. CASE rep[i].curHw # 1
    BY <1>3, <2>1, <2>2, <2>4, CommitType, WrittenDbType
       DEF TypeOK, SetHwDone, fileVars
  <2> QED
    BY <2>3, <2>4
<1>4. ASSUME NEW i \in Instances, AddPackages(i)
      PROVE  TypeOK'
  <2>1. batch[i] \in 1..NBatches
    BY <1>4, ConfigAssumption DEF AddPackages, PcInv, TypeOK
  <2>2. /\ pc' \in [Instances -> Locations]
        /\ batch' \in [Instances -> 1..NBatches \union {1}]
    BY <1>4, <2>1, ConfigAssumption
       DEF TypeOK, AddPackages, Goto, Locations, Handling
  <2> QED
    BY <1>4, <2>1, <2>2, CommitType, WrittenDbType
       DEF TypeOK, AddPackages, fileVars
<1>5. ASSUME NEW i \in Instances,
             ExistingRow(i) \/ CheckPackages(i) \/ Decide(i) \/ Wake(i)
                            \/ Dump(i) \/ Start(i)
      PROVE  TypeOK'
  BY <1>5 DEF TypeOK, ExistingRow, CheckPackages, Decide, Wake, Dump,
              Start, Goto, Locations, Handling, serverVars, fileVars,
              idlVars, localVars
<1>6. ASSUME NEW i \in Instances, UnlinkLocaltime(i) \/ LinkLocaltime(i)
      PROVE  TypeOK'
  <2>1. rep[i].tz \in Zones \union {NoZone}
    BY DEF TypeOK, Database
  <2> QED
    BY <1>6, <2>1 DEF TypeOK, UnlinkLocaltime, LinkLocaltime, Goto, Locations,
                      Handling, serverVars, idlVars, localVars
<1>7. ASSUME NEW i \in Instances, SwInfoFault(i)
      PROVE  TypeOK'
  BY <1>7, DieType DEF TypeOK, SwInfoFault, Die, fileVars
<1>8. ASSUME NEW i \in Instances, Crash(i)
      PROVE  TypeOK'
  <2>1. used' \in [crashes : 0..MaxCrashes, drops : 0..MaxDrops,
                   zoneSets : 0..MaxZoneSets, upgrades : 0..MaxUpgrades]
    BY <1>8, BoundAssumption DEF TypeOK, Crash
  <2> QED
    BY <1>8, <2>1, DieType DEF TypeOK, Crash, Die, fileVars
<1>9. ASSUME NEW i \in Instances, Drop(i) \/ Connect(i) \/ Grant(i)
      PROVE  TypeOK'
  <2>1. CASE Drop(i)
    <3>1. used' \in [crashes : 0..MaxCrashes, drops : 0..MaxDrops,
                     zoneSets : 0..MaxZoneSets, upgrades : 0..MaxUpgrades]
      BY <2>1, BoundAssumption DEF TypeOK, Drop
    <3> QED
      BY <2>1, <3>1
         DEF TypeOK, Drop, Release, SessionStates, fileVars, localVars
  <2>2. CASE Connect(i)
    BY <2>2 DEF TypeOK, Connect, SessionStates, serverVars, fileVars, localVars
  <2>3. CASE Grant(i)
    BY <2>3 DEF TypeOK, Grant, fileVars, idlVars, localVars
  <2> QED
    BY <1>9, <2>1, <2>2, <2>3
<1>10. ASSUME NEW d \in HwDaemons, Report(d)
       PROVE  TypeOK'
  <2>1. db' \in Database
    BY <1>10 DEF TypeOK, Report, Database
  <2> QED
    BY <1>10, <2>1 DEF TypeOK, Report, fileVars, idlVars, localVars
<1>11. ASSUME NEW z \in Zones, SetTimezone(z)
       PROVE  TypeOK'
  <2>1. db' \in Database
    BY <1>11 DEF TypeOK, SetTimezone, Database
  <2>2. used' \in [crashes : 0..MaxCrashes, drops : 0..MaxDrops,
                   zoneSets : 0..MaxZoneSets, upgrades : 0..MaxUpgrades]
    BY <1>11, BoundAssumption DEF TypeOK, SetTimezone
  <2> QED
    BY <1>11, <2>1, <2>2
       DEF TypeOK, SetTimezone, fileVars, idlVars, localVars
<1>12. ASSUME NEW r \in Releases, Upgrade(r)
       PROVE  TypeOK'
  BY <1>12, BoundAssumption
     DEF TypeOK, Upgrade, serverVars, idlVars, localVars
<1>13. CASE SetMgmtIntf
  <2>1. db.mgmt + 1 \in 0..MaxMgmtSets
    BY <1>13, BoundAssumption DEF TypeOK, SetMgmtIntf, Database
  <2>2. db' \in Database
    BY <1>13, <2>1 DEF TypeOK, SetMgmtIntf, Database
  <2> QED
    BY <1>13, <2>2 DEF TypeOK, SetMgmtIntf, fileVars, idlVars, localVars
<1>14. CASE UNCHANGED vars
  BY <1>14 DEF TypeOK, vars, serverVars, fileVars, idlVars, localVars
<1> QED
  BY <1>1, <1>2, <1>3, <1>4, <1>5, <1>6, <1>7, <1>8, <1>9, <1>10, <1>11,
     <1>12, <1>13, <1>14
     DEF Next, Step, Handler, Environment

-----------------------------------------------------------------------------
(* The lock.                                                               *)

(* Losing the session, one's own or an instance's death, keeps LockInv.    *)
LEMMA ForgetLock ==
  ASSUME Inv, NEW i \in Instances, Forget(i),
         Release(i) \/ (lock' = lock /\ conn[i] = "lost")
  PROVE  LockInv'
  BY ConfigAssumption
     DEF Inv, TypeOK, LockInv, Active, Online, Forget, Release

(* A commit, whatever its outcome, keeps LockInv.                          *)
LEMMA CommitLock ==
  ASSUME Inv, NEW i \in Instances, NEW new, CommitBlock(i, new)
  PROVE  LockInv'
<1>1. CASE Applied(i, new)
  BY <1>1 DEF Inv, LockInv, Active, Online, Applied
<1>2. CASE Unanswered(i, new)
  BY <1>2, ForgetLock DEF Unanswered
<1>3. CASE Rejected(i) /\ hasLock[i]
  BY <1>3, ForgetLock DEF Rejected
<1>4. CASE Rejected(i) /\ ~hasLock[i]
  BY <1>4 DEF Inv, LockInv, Active, Online, Rejected
<1> QED
  BY <1>1, <1>2, <1>3, <1>4 DEF CommitBlock

(* Every step keeps LockInv.                                               *)
LEMMA LockStep ==
  ASSUME Inv, [Next]_vars
  PROVE  LockInv'
<1> USE DEF Inv
<1>1. ASSUME NEW i \in Instances, RunWithoutLock(i) \/ RunUnchanged(i)
                                                   \/ RunChanged(i)
      PROVE  LockInv'
  <2>1. IdlRun(i) /\ lock' = lock
    BY <1>1 DEF RunWithoutLock, RunUnchanged, RunChanged, serverVars
  <2> QED
    BY <2>1 DEF TypeOK, LockInv, Active, Online, IdlRun, SeenLock
<1>2. ASSUME NEW i \in Instances,
             Configure(i) \/ SetHwDone(i) \/ AddPackages(i)
      PROVE  LockInv'
  <2>1. \/ \E new : CommitBlock(i, new)
        \/ UNCHANGED <<lock, conn, hasLock>>
    BY <1>2 DEF Configure, SetHwDone, AddPackages, serverVars, idlVars
  <2> QED
    BY <2>1, CommitLock DEF LockInv, Active, Online
<1>3. ASSUME NEW i \in Instances,
             ExistingRow(i) \/ CheckPackages(i) \/ UnlinkLocaltime(i)
               \/ LinkLocaltime(i) \/ Decide(i) \/ Wake(i) \/ Dump(i)
               \/ Start(i)
      PROVE  LockInv'
  BY <1>3 DEF ExistingRow, CheckPackages, UnlinkLocaltime, LinkLocaltime,
              Decide, Wake, Dump, Start, LockInv, Active, Online,
              serverVars, idlVars
<1>4. ASSUME NEW i \in Instances, SwInfoFault(i) \/ Crash(i)
      PROVE  LockInv'
  BY <1>4, ForgetLock DEF SwInfoFault, Crash, Die
<1>5. ASSUME NEW i \in Instances, Drop(i)
      PROVE  LockInv'
  BY <1>5, ConfigAssumption
     DEF TypeOK, LockInv, Active, Online, Drop, Release
<1>6. ASSUME NEW i \in Instances, Connect(i)
      PROVE  LockInv'
  BY <1>6 DEF TypeOK, LockInv, Active, Online, Connect, serverVars
<1>7. ASSUME NEW i \in Instances, Grant(i)
      PROVE  LockInv'
  BY <1>7, ConfigAssumption
     DEF TypeOK, LockInv, Active, Online, Grant, idlVars
<1>8. CASE Environment \/ UNCHANGED vars
  BY <1>8 DEF Environment, Report, SetTimezone, SetMgmtIntf, Upgrade, LockInv,
              Active, Online, vars, serverVars, idlVars
<1> QED
  BY <1>1, <1>2, <1>3, <1>4, <1>5, <1>6, <1>7, <1>8
     DEF Next, Step, Handler

-----------------------------------------------------------------------------
(* The database and its replicas.                                          *)

(* Only the active instance's transactions and the switch's own changes    *)
(* touch the database.  This is what each of sysd's three transactions     *)
(* does to it, if anything.                                                *)
LEMMA CommitDb ==
  ASSUME Inv, NEW i \in Instances, NEW new, CommitBlock(i, new)
  PROVE  \/ db' = db /\ rep' = rep
         \/ /\ Active(i)
            /\ db' = new
            /\ rep' = [rep EXCEPT ![i] = new] \/ (rep' = rep /\ ~Active(i)')
  BY DEF CommitBlock, Applied, Unanswered, Rejected, Forget, Active, Inv,
         TypeOK

(* An instance that was not active before a commit of i is not after.      *)
LEMMA CommitActive ==
  ASSUME Inv, NEW i \in Instances, NEW new, CommitBlock(i, new),
         NEW j \in Instances, Active(j)'
  PROVE  Active(j)
  BY DEF CommitBlock, Applied, Unanswered, Rejected, Forget, Active, Inv,
         TypeOK

(* Two active instances are one.                                           *)
LEMMA ActiveUnique ==
  ASSUME Inv, NEW i \in Instances, NEW j \in Instances, Active(i), Active(j)
  PROVE  i = j
  BY DEF Inv, LockInv

(* What Configure, SetHwDone and AddPackages write, when they write.       *)
LEMMA ConfigureDb ==
  ASSUME Inv, NEW i \in Instances, Active(i), pc[i] = "configure"
  PROVE  /\ db.rows = 0
         /\ WithSystemRow(db).rows = 1
         /\ WithSystemRow(db).curHw = db.curHw
         /\ WithSystemRow(db).hw = SelfDone
         /\ WithSystemRow(db).pkgs = db.pkgs
  BY DEF Inv, TypeOK, Database, PcInv, RepInv, WithSystemRow

LEMMA SetHwDoneDb ==
  ASSUME Inv, NEW i \in Instances, pc[i] = "hwcommit"
  PROVE  /\ db.rows > 0
         /\ HwDaemons \subseteq db.hw
         /\ WithHwDone(db).rows = db.rows
         /\ WithHwDone(db).curHw = 1
         /\ WithHwDone(db).hw = db.hw
         /\ WithHwDone(db).pkgs = db.pkgs
<1>1. rep[i].rows > 0 /\ rep[i].rows <= db.rows /\ rep[i] \in Database
  BY DEF Inv, TypeOK, PcInv, RepInv
<1>2. HwDaemons \subseteq rep[i].hw /\ rep[i].hw \subseteq db.hw
  BY DEF Inv, PcInv, RepInv, HwReported
<1> QED
  BY <1>1, <1>2 DEF Inv, TypeOK, Database, WithHwDone

LEMMA AddPackagesDb ==
  ASSUME Inv, NEW i \in Instances, Active(i), pc[i] = "pkg"
  PROVE  /\ batch[i] \in 1..NBatches
         /\ db.pkgs[batch[i]] = 0
         /\ WithPackages(db, batch[i]).rows = db.rows
         /\ WithPackages(db, batch[i]).curHw = db.curHw
         /\ WithPackages(db, batch[i]).hw = db.hw
         /\ WithPackages(db, batch[i]).pkgs =
                [db.pkgs EXCEPT ![batch[i]] = 1]
<1>1. batch[i] \in 1..NBatches
  BY ConfigAssumption DEF Inv, TypeOK, PcInv
<1>2. rep[i].pkgs = db.pkgs
  BY DEF Inv, RepInv
<1>3. db.pkgs[batch[i]] = 0
  BY <1>1, <1>2 DEF Inv, PcInv
<1> QED
  BY <1>1, <1>3 DEF Inv, TypeOK, Database, WithPackages

(* A step that is no commit: the database and the replicas afterwards.     *)
LEMMA RepOther ==
  ASSUME Inv, db' = db, rep' = rep,
         \A j \in Instances : Active(j)' => Active(j)
  PROVE  RepInv'
  BY DEF Inv, RepInv

(* Every step keeps RepInv.                                                *)
LEMMA RepStep ==
  ASSUME Inv, [Next]_vars
  PROVE  RepInv'
<1> USE DEF Inv
<1>1. ASSUME NEW i \in Instances, RunWithoutLock(i) \/ RunUnchanged(i)
                                                   \/ RunChanged(i)
      PROVE  RepInv'
  <2>1. IdlRun(i) /\ db' = db
    BY <1>1 DEF RunWithoutLock, RunUnchanged, RunChanged, serverVars
  <2>2. CASE Online(i)
    <3>1. rep' = [rep EXCEPT ![i] = db]
      BY <2>1, <2>2 DEF IdlRun, SeenRep
    <3>2. \A j \in Instances : j # i /\ Active(j)' => Active(j)
      BY <2>1 DEF TypeOK, IdlRun, Active
    <3> QED
      BY <2>1, <3>1, <3>2 DEF TypeOK, Database, RepInv
  <2>3. CASE ~Online(i)
    <3>1. rep' = rep
      BY <2>1, <2>3 DEF TypeOK, IdlRun, SeenRep
    <3>2. \A j \in Instances : Active(j)' => Active(j)
      BY <2>1, <2>3 DEF TypeOK, IdlRun, Active
    <3> QED
      BY <2>1, <3>1, <3>2, RepOther
  <2> QED
    BY <2>2, <2>3
<1>2. ASSUME NEW i \in Instances, NEW new \in Database, CommitBlock(i, new),
             Active(i) => /\ db.rows <= new.rows
                          /\ db.hw \subseteq new.hw
      PROVE  RepInv'
  <2>1. \A j \in Instances : Active(j)' => Active(j)
    BY <1>2, CommitActive
  <2>2. CASE db' = db /\ rep' = rep
    BY <2>1, <2>2, RepOther
  <2>3. CASE Active(i) /\ db' = new /\ rep' = [rep EXCEPT ![i] = new]
    <3>1. \A j \in Instances : j # i => ~Active(j)'
      BY <2>1, <2>3, ActiveUnique
    <3> QED
      BY <1>2, <2>3, <3>1 DEF TypeOK, Database, RepInv
  <2>4. CASE Active(i) /\ db' = new /\ rep' = rep /\ ~Active(i)'
    <3>1. \A j \in Instances : ~Active(j)'
      BY <2>1, <2>4, ActiveUnique
    <3> QED
      BY <1>2, <2>4, <3>1 DEF TypeOK, Database, RepInv
  <2> QED
    BY <1>2, <2>2, <2>3, <2>4, CommitDb
<1>3. ASSUME NEW i \in Instances, Configure(i)
      PROVE  RepInv'
  <2>1. pc[i] = "configure" /\ CommitBlock(i, WithSystemRow(db))
    BY <1>3 DEF Configure
  <2>2. WithSystemRow(db) \in Database
    BY WrittenDbType
  <2>3. ASSUME Active(i)
        PROVE  db.rows <= WithSystemRow(db).rows
                 /\ db.hw \subseteq WithSystemRow(db).hw
    BY <2>1, <2>3, ConfigureDb DEF DbInv
  <2> QED
    BY <1>2, <2>1, <2>2, <2>3
<1>4. ASSUME NEW i \in Instances, SetHwDone(i)
      PROVE  RepInv'
  <2>1. CASE rep[i].curHw = 1
    BY <1>4, <2>1, RepOther DEF SetHwDone, serverVars, idlVars, Active
  <2>2. CASE rep[i].curHw # 1
    <3>1. pc[i] = "hwcommit" /\ CommitBlock(i, WithHwDone(db))
      BY <1>4, <2>2 DEF SetHwDone
    <3>2. WithHwDone(db) \in Database
      BY WrittenDbType
    <3>3. db.rows <= WithHwDone(db).rows /\ db.hw \subseteq WithHwDone(db).hw
      BY <3>1, SetHwDoneDb DEF TypeOK, Database
    <3> QED
      BY <1>2, <3>1, <3>2, <3>3
  <2> QED
    BY <2>1, <2>2
<1>5. ASSUME NEW i \in Instances, AddPackages(i)
      PROVE  RepInv'
  <2> DEFINE new == WithPackages(db, batch[i])
  <2>1. pc[i] = "pkg" /\ CommitBlock(i, new)
    BY <1>5 DEF AddPackages
  <2>2. batch[i] \in 1..NBatches
    BY <2>1, ConfigAssumption DEF PcInv, TypeOK
  <2>3. new \in Database
    BY <2>2, WrittenDbType
  <2>4. ASSUME Active(i)
        PROVE  db.rows <= new.rows /\ db.hw \subseteq new.hw
    <3>1. new.rows = db.rows /\ new.hw = db.hw
      BY <2>1, <2>4, AddPackagesDb
    <3>2. db.rows \in Nat
      BY DEF TypeOK, Database
    <3> QED
      BY <3>1, <3>2
  <2> QED
    BY <1>2, <2>1, <2>3, <2>4
<1>6. ASSUME NEW i \in Instances,
             ExistingRow(i) \/ CheckPackages(i) \/ UnlinkLocaltime(i)
               \/ LinkLocaltime(i) \/ Decide(i) \/ Wake(i) \/ Dump(i)
               \/ Start(i)
      PROVE  RepInv'
  BY <1>6, RepOther
     DEF ExistingRow, CheckPackages, UnlinkLocaltime, LinkLocaltime,
         Decide, Wake, Dump, Start, Active, serverVars, idlVars
<1>7. ASSUME NEW i \in Instances, Die(i)
      PROVE  RepInv'
  <2>1. /\ EmptyDb.rows = 0
        /\ EmptyDb.hw = {}
    BY DEF EmptyDb
  <2>2. db' = db /\ rep' = [rep EXCEPT ![i] = EmptyDb]
    BY <1>7 DEF Die
  <2>3. \A j \in Instances : Active(j)' => j # i /\ Active(j)
    BY <1>7 DEF Die, Forget, Active, TypeOK
  <2> QED
    BY <2>1, <2>2, <2>3 DEF TypeOK, Database, RepInv
<1>8. ASSUME NEW i \in Instances, Drop(i) \/ Connect(i) \/ Grant(i)
      PROVE  RepInv'
  <2>1. db' = db /\ rep' = rep
    BY <1>8 DEF Drop, Connect, Grant, serverVars, idlVars
  <2>2. \A j \in Instances : Active(j)' => Active(j)
    BY <1>8 DEF TypeOK, Drop, Connect, Grant, Active, idlVars
  <2> QED
    BY <2>1, <2>2, RepOther
<1>9. ASSUME NEW d \in HwDaemons, Report(d)
      PROVE  RepInv'
  BY <1>9 DEF Report, TypeOK, Database, RepInv, Active, idlVars
<1>10. ASSUME NEW z \in Zones, SetTimezone(z)
       PROVE  RepInv'
  BY <1>10 DEF SetTimezone, TypeOK, Database, RepInv, Active, idlVars
<1>11. CASE SetMgmtIntf
  BY <1>11 DEF SetMgmtIntf, TypeOK, Database, RepInv, Active, idlVars
<1>12. CASE (\E r \in Releases : Upgrade(r)) \/ UNCHANGED vars
  BY <1>12, RepOther DEF Upgrade, Active, vars, serverVars, idlVars
<1> QED
  BY <1>1, <1>3, <1>4, <1>5, <1>6, <1>7, <1>8, <1>9, <1>10, <1>11, <1>12
     DEF Next, Step, Handler, Environment, SwInfoFault, Crash

(* The actions that write the database.                                    *)
LEMMA Writers ==
  ASSUME [Next]_vars, db' # db
  PROVE  \/ \E i \in Instances :
                Configure(i) \/ SetHwDone(i) \/ AddPackages(i)
         \/ \E d \in HwDaemons : Report(d)
         \/ \E z \in Zones : SetTimezone(z)
         \/ SetMgmtIntf
  BY DEF Next, Step, Handler, Environment, RunWithoutLock, RunUnchanged,
         RunChanged, ExistingRow, SwInfoFault, CheckPackages, UnlinkLocaltime,
         LinkLocaltime, Decide, Wake, Dump, Start, Crash, Die, Drop,
         Connect, Grant,
         Upgrade, vars, serverVars

(* Every step keeps DbInv.                                                 *)
LEMMA DbStep ==
  ASSUME Inv, [Next]_vars
  PROVE  DbInv'
<1> USE DEF Inv
<1>1. CASE db' = db
  BY <1>1 DEF DbInv, SingleSystemRow, HwDoneOnlyAfterDaemons, PackagesOnce
<1>2. ASSUME NEW i \in Instances, Configure(i), db' # db
      PROVE  DbInv'
  <2>1. Active(i) /\ pc[i] = "configure" /\ db' = WithSystemRow(db)
    BY <1>2, CommitDb DEF Configure
  <2>2. db'.rows = 1 /\ db'.curHw = 0 /\ db'.pkgs = db.pkgs
    BY <2>1, ConfigureDb DEF DbInv
  <2> QED
    BY <2>2 DEF DbInv, SingleSystemRow, HwDoneOnlyAfterDaemons, PackagesOnce
<1>3. ASSUME NEW i \in Instances, SetHwDone(i), db' # db
      PROVE  DbInv'
  <2>1. pc[i] = "hwcommit" /\ db' = WithHwDone(db)
    BY <1>3, CommitDb DEF SetHwDone, serverVars
  <2>2. /\ db'.rows = db.rows /\ db.rows > 0
        /\ db'.hw = db.hw /\ HwDaemons \subseteq db.hw
        /\ db'.pkgs = db.pkgs
    BY <2>1, SetHwDoneDb
  <2> QED
    BY <2>2 DEF DbInv, SingleSystemRow, HwDoneOnlyAfterDaemons, PackagesOnce,
                TypeOK, Database
<1>4. ASSUME NEW i \in Instances, AddPackages(i), db' # db
      PROVE  DbInv'
  <2>1. Active(i) /\ pc[i] = "pkg" /\ db' = WithPackages(db, batch[i])
    BY <1>4, CommitDb DEF AddPackages
  <2>2. /\ db'.rows = db.rows /\ db'.curHw = db.curHw /\ db'.hw = db.hw
        /\ db'.pkgs = [db.pkgs EXCEPT ![batch[i]] = 1]
    BY <2>1, AddPackagesDb
  <2>3. PackagesOnce'
    BY <2>2 DEF DbInv, PackagesOnce, TypeOK, Database
  <2> QED
    BY <2>2, <2>3 DEF DbInv, SingleSystemRow, HwDoneOnlyAfterDaemons
<1>5. ASSUME NEW d \in HwDaemons, Report(d)
      PROVE  DbInv'
  BY <1>5 DEF Report, DbInv, SingleSystemRow, HwDoneOnlyAfterDaemons,
              PackagesOnce, TypeOK, Database
<1>6. ASSUME NEW z \in Zones, SetTimezone(z)
      PROVE  DbInv'
  BY <1>6 DEF SetTimezone, DbInv, SingleSystemRow, HwDoneOnlyAfterDaemons,
              PackagesOnce, TypeOK, Database
<1>7. CASE SetMgmtIntf
  BY <1>7 DEF SetMgmtIntf, DbInv, SingleSystemRow, HwDoneOnlyAfterDaemons,
              PackagesOnce, TypeOK, Database
<1> QED
  BY <1>1, <1>2, <1>3, <1>4, <1>5, <1>6, <1>7, Writers

(* PcInv is about one instance at a time: what a step does to others,      *)
(* whose location, replica and batch it leaves alone, keeps it.            *)
LEMMA PcOthers ==
  ASSUME Inv, NEW i \in Instances,
         \A j \in Instances \ {i} :
             pc'[j] = pc[j] /\ rep'[j] = rep[j] /\ batch'[j] = batch[j],
         pc'[i] \notin {"configure", "existing", "hwcommit", "pkg"}
  PROVE  PcInv'
  BY DEF Inv, PcInv, HwReported

(* A step that leaves all of that alone keeps PcInv.                       *)
LEMMA PcUnchanged ==
  ASSUME Inv, UNCHANGED <<pc, rep, batch>>
  PROVE  PcInv'
  BY DEF Inv, PcInv, HwReported

(* A commit of i changes no replica but i's.                               *)
LEMMA CommitOthers ==
  ASSUME Inv, NEW i \in Instances, NEW new, CommitBlock(i, new)
  PROVE  \A j \in Instances \ {i} : rep'[j] = rep[j]
  BY CommitDb DEF Inv, TypeOK

(* Every step keeps PcInv.                                                 *)
LEMMA PcStep ==
  ASSUME Inv, [Next]_vars
  PROVE  PcInv'
<1> USE DEF Inv
<1>1. ASSUME NEW i \in Instances, RunWithoutLock(i) \/ RunUnchanged(i)
      PROVE  PcInv'
  BY <1>1, PcOthers
     DEF RunWithoutLock, RunUnchanged, IdlRun, Goto, TypeOK, localVars
<1>2. ASSUME NEW i \in Instances, RunChanged(i)
      PROVE  PcInv'
  <2>1. rep'[i] = SeenRep(i) /\ SeenRep(i) \in Database
    BY <1>2 DEF RunChanged, IdlRun, TypeOK, SeenRep
  <2>2. pc'[i] = IF SeenRep(i).rows = 0 THEN "configure" ELSE "existing"
    BY <1>2 DEF RunChanged, Goto, TypeOK
  <2>3. SeenRep(i).rows = 0 \/ SeenRep(i).rows > 0
    BY <2>1 DEF Database
  <2>4. \A j \in Instances \ {i} :
           pc'[j] = pc[j] /\ rep'[j] = rep[j] /\ batch'[j] = batch[j]
    BY <1>2 DEF RunChanged, IdlRun, Goto, TypeOK, localVars
  <2> QED
    BY <2>1, <2>2, <2>3, <2>4 DEF PcInv, HwReported
<1>3. ASSUME NEW i \in Instances, Configure(i) \/ SetHwDone(i)
      PROVE  PcInv'
  <2>1. /\ pc' = [pc EXCEPT ![i] = "packages"] /\ batch' = batch
        /\ rep' = rep \/ \E new : CommitBlock(i, new)
    BY <1>3 DEF Configure, SetHwDone, Goto, idlVars, localVars
  <2>2. \A j \in Instances \ {i} : rep'[j] = rep[j]
    BY <2>1, CommitOthers
  <2> QED
    BY <2>1, <2>2, PcOthers DEF TypeOK
<1>4. ASSUME NEW i \in Instances, ExistingRow(i)
      PROVE  PcInv'
  BY <1>4
     DEF ExistingRow, Goto, TypeOK, PcInv, HwReported, idlVars, localVars
<1>5. ASSUME NEW i \in Instances, CheckPackages(i)
      PROVE  PcInv'
  <2>1. CASE NBatches > 0 /\ NoPackages(rep[i])
    <3>1. /\ batch' = [batch EXCEPT ![i] = 1]
          /\ pc' = [pc EXCEPT ![i] = "pkg"]
          /\ rep' = rep
      BY <1>5, <2>1 DEF CheckPackages, Goto, idlVars
    <3>2. \A b \in 1..NBatches : rep[i].pkgs[b] = 0
      BY <2>1 DEF NoPackages
    <3>3. 1 <= NBatches
      BY <2>1, ConfigAssumption
    <3> QED
      BY <3>1, <3>2, <3>3 DEF TypeOK, PcInv, HwReported
  <2>2. CASE ~(NBatches > 0 /\ NoPackages(rep[i]))
    BY <1>5, <2>2, PcOthers DEF CheckPackages, Goto, TypeOK, idlVars
  <2> QED
    BY <2>1, <2>2
<1>6. ASSUME NEW i \in Instances, AddPackages(i)
      PROVE  PcInv'
  <2> DEFINE new == WithPackages(db, batch[i])
  <2>1. pc[i] = "pkg" /\ CommitBlock(i, new)
    BY <1>6 DEF AddPackages
  <2>2. \A j \in Instances \ {i} : rep'[j] = rep[j]
    BY <2>1, CommitOthers
  <2>3. CASE batch[i] < NBatches
    <3>1. pc' = pc /\ batch' = [batch EXCEPT ![i] = @ + 1]
      BY <1>6, <2>3 DEF AddPackages
    <3>2. batch[i] \in Nat /\ batch[i] + 1 <= NBatches
      BY <2>3, ConfigAssumption DEF TypeOK
    <3>3. \A b \in 1..NBatches : b >= batch[i] => rep[i].pkgs[b] = 0
      BY <2>1 DEF PcInv
    <3>4. \A b \in 1..NBatches : b >= batch[i] + 1 => rep'[i].pkgs[b] = 0
      <4>1. CASE rep'[i] = rep[i]
        BY <3>2, <3>3, <4>1, ConfigAssumption
      <4>2. CASE Active(i) /\ rep'[i] = new
        <5>1. /\ new.pkgs = [db.pkgs EXCEPT ![batch[i]] = 1]
              /\ rep[i].pkgs = db.pkgs
          BY <2>1, <4>2, AddPackagesDb DEF RepInv
        <5>2. db.pkgs \in [1..NBatches -> Nat]
          BY DEF TypeOK, Database
        <5> QED
          BY <3>2, <3>3, <4>2, <5>1, <5>2, ConfigAssumption
      <4> QED
        BY <2>1, <4>1, <4>2, CommitDb DEF TypeOK
    <3> QED
      BY <2>1, <2>2, <3>1, <3>2, <3>4 DEF TypeOK, PcInv, HwReported
  <2>4. CASE ~(batch[i] < NBatches)
    BY <1>6, <2>2, <2>4, PcOthers DEF AddPackages, Goto, TypeOK
  <2> QED
    BY <2>3, <2>4
<1>7. ASSUME NEW i \in Instances,
             UnlinkLocaltime(i) \/ LinkLocaltime(i) \/ Decide(i) \/ Wake(i)
               \/ Dump(i) \/ Start(i)
      PROVE  PcInv'
  BY <1>7, PcOthers
     DEF UnlinkLocaltime, LinkLocaltime, Decide, Wake, Dump, Start, Goto,
         TypeOK, idlVars, localVars
<1>8. ASSUME NEW i \in Instances, Die(i)
      PROVE  PcInv'
  BY <1>8, PcOthers DEF Die, Goto, TypeOK
<1>9. ASSUME NEW i \in Instances, Drop(i) \/ Connect(i) \/ Grant(i)
      PROVE  PcInv'
  BY <1>9, PcUnchanged DEF Drop, Connect, Grant, idlVars, localVars
<1>10. CASE Environment \/ UNCHANGED vars
  BY <1>10, PcUnchanged
     DEF Environment, Report, SetTimezone, SetMgmtIntf, Upgrade, vars, idlVars,
         localVars
<1> QED
  BY <1>1, <1>2, <1>3, <1>4, <1>5, <1>6, <1>7, <1>8, <1>9, <1>10
     DEF Next, Step, Handler, SwInfoFault, Crash

-----------------------------------------------------------------------------
(* The theorems.                                                           *)

(* Inv is inductive, so it always holds.                                   *)
THEOREM Invariance == Spec => []Inv
<1>1. Init => Inv
  <2> SUFFICES ASSUME Init PROVE Inv
    OBVIOUS
  <2>1. TypeOK
    BY EmptyDbType, ConfigAssumption, BoundAssumption
       DEF Init, TypeOK, SessionStates, Locations
  <2>2. LockInv /\ PcInv
    BY ConfigAssumption DEF Init, LockInv, PcInv, Active, Online
  <2>3. RepInv
    BY DEF Init, RepInv, Active, EmptyDb
  <2>4. DbInv
    BY DEF Init, DbInv, SingleSystemRow, HwDoneOnlyAfterDaemons, PackagesOnce,
           EmptyDb
  <2> QED
    BY <2>1, <2>2, <2>3, <2>4 DEF Inv
<1>2. Inv /\ [Next]_vars => Inv'
  BY TypeStep, LockStep, PcStep, RepStep, DbStep DEF Inv
<1> QED
  BY <1>1, <1>2, PTL DEF Spec

(* The variables of the daemon, the server and the files keep their types, *)
(* whatever the number of instances and faults.                            *)
THEOREM TypeCorrect == Spec => []TypeOK
<1>1. Inv => TypeOK
  BY DEF Inv
<1> QED
  BY <1>1, Invariance, PTL

(* sysd_run never inserts a second System row.                             *)
THEOREM ConfiguredOnce == Spec => []SingleSystemRow
<1>1. Inv => SingleSystemRow
  BY DEF Inv, DbInv
<1> QED
  BY <1>1, Invariance, PTL

(* sysd_set_hw_done never sets cur_hw before every h/w daemon has reported.*)
THEOREM HwDoneSound == Spec => []HwDoneOnlyAfterDaemons
<1>1. Inv => HwDoneOnlyAfterDaemons
  BY DEF Inv, DbInv
<1> QED
  BY <1>1, Invariance, PTL

(* sysd_add_package_info never inserts a batch twice.                      *)
THEOREM PackagesLoadedOnce == Spec => []PackagesOnce
<1>1. Inv => PackagesOnce
  BY DEF Inv, DbInv
<1> QED
  BY <1>1, Invariance, PTL

(* The server's lock leaves at most one instance able to write.            *)
THEOREM AtMostOneActive == Spec => []OneActiveInstance
<1>1. Inv => OneActiveInstance
  BY DEF Inv, LockInv, Active, OneActiveInstance
<1> QED
  BY <1>1, Invariance, PTL

-----------------------------------------------------------------------------
(* SysdRun implements HwReady.                                             *)

(* Every step is, to an observer of the database, one of HwReady's.        *)
LEMMA StepImplements ==
  ASSUME Inv, [Next]_vars
  PROVE  [Abstract!Next]_(Abstract!vars)
<1> USE DEF Inv
<1>1. CASE db' = db
  BY <1>1 DEF Abstract!vars
<1>2. ASSUME NEW i \in Instances, Configure(i), db' # db
      PROVE  Abstract!Configure
  <2>1. Active(i) /\ pc[i] = "configure" /\ db' = WithSystemRow(db)
    BY <1>2, CommitDb DEF Configure
  <2>2. /\ db.rows = 0 /\ db'.rows = 1
        /\ db'.hw = SelfDone /\ db'.curHw = db.curHw
    BY <2>1, ConfigureDb
  <2> QED
    BY <2>2, ConfigAssumption DEF Abstract!Configure
<1>3. ASSUME NEW i \in Instances, SetHwDone(i), db' # db
      PROVE  [Abstract!Announce]_(Abstract!vars)
  <2>1. pc[i] = "hwcommit" /\ db' = WithHwDone(db)
    BY <1>3, CommitDb DEF SetHwDone, serverVars
  <2>2. /\ db.rows > 0 /\ db'.rows = db.rows
        /\ HwDaemons \subseteq db.hw /\ db'.hw = db.hw
        /\ db'.curHw = 1
    BY <2>1, SetHwDoneDb
  <2> QED
    BY <2>2 DEF Abstract!Announce, Abstract!vars
<1>4. ASSUME NEW i \in Instances, AddPackages(i), db' # db
      PROVE  UNCHANGED Abstract!vars
  <2>1. Active(i) /\ pc[i] = "pkg" /\ db' = WithPackages(db, batch[i])
    BY <1>4, CommitDb DEF AddPackages
  <2> QED
    BY <2>1, AddPackagesDb DEF Abstract!vars
<1>5. ASSUME NEW d \in HwDaemons, Report(d)
      PROVE  Abstract!Report(d)
  BY <1>5 DEF Report, Abstract!Report, TypeOK, Database
<1>6. ASSUME NEW z \in Zones, SetTimezone(z)
      PROVE  UNCHANGED Abstract!vars
  BY <1>6 DEF SetTimezone, Abstract!vars, TypeOK, Database
<1>7. ASSUME SetMgmtIntf
      PROVE  UNCHANGED Abstract!vars
  BY <1>7 DEF SetMgmtIntf, Abstract!vars, TypeOK, Database
<1> QED
  BY <1>1, <1>2, <1>3, <1>4, <1>5, <1>6, <1>7, Writers DEF Abstract!Next

(* What the rest of the switch sees of sysd, through crashes, failovers    *)
(* and lost connections, is a behaviour of HwReady.                        *)
THEOREM Implementation == Spec => ImplementsHwReady
<1>1. Init => Abstract!Init
  BY DEF Init, Abstract!Init, EmptyDb
<1>2. Inv /\ [Next]_vars => [Abstract!Next]_(Abstract!vars)
  BY StepImplements
<1> QED
  BY <1>1, <1>2, Invariance, PTL DEF Spec, ImplementsHwReady, Abstract!Safety

-----------------------------------------------------------------------------
(***************************************************************************)
(* No wakeup of sysd is lost, for any number of instances, h/w daemons,    *)
(* time zones and batches, and any bounds.                                 *)
(*                                                                         *)
(* The argument: follow one pass of sysd_run() from the point where        *)
(* idl_seqno caught up.  As long as the pass neither loses the lock nor    *)
(* moves the sequence number by a commit of its own, the replica it works  *)
(* on stays the one it began with, up to columns that do not alert, and    *)
(* every step leaves one more of the duties done.  If a commit does move   *)
(* the number, main() sees that before poll_block() and there is another   *)
(* pass; if the lock is lost, getting it back counts as a change.          *)
(***************************************************************************)

(* The locations behind the step that looks after the h/w daemons, behind  *)
(* the one that loads the packages and behind the one that sets the link.  *)
AfterLink == {"decide", "blocked", "loop"}
AfterPackages == AfterLink \union {"unlink", "link"}
AfterHw == AfterPackages \union {"packages", "pkg"}

(* i has the lock, and the sequence number it last acted upon.             *)
Updated(i) == Active(i) /\ ~pending[i]

(* How far i has come with its replica.                                    *)
Duty(i) ==
    /\ pc[i] = "down" => ~hasLock[i]
    /\ pc[i] = "blocked" => ~pending[i]
    /\ Updated(i) /\ pc[i] \in AfterHw =>
           /\ rep[i].rows > 0
           /\ HwReported(rep[i]) => hwInitDoneSet[i]
    /\ Updated(i) /\ pc[i] \in AfterPackages /\ NBatches > 0 =>
           ~NoPackages(rep[i])

DutyInv == \A i \in Instances : Duty(i)

(* The same for the link, which all the processes of a switch share.       *)
LinkInv ==
    \A i \in Instances :
        /\ pc[i] = "link" => localtime = NoZone
        /\ Updated(i) /\ pc[i] \in AfterLink => localtime = rep[i].tz

-----------------------------------------------------------------------------
(* Processes have only the server and the file system in common: a step of *)
(* one leaves what another one knows alone.                                *)
LEMMA StepLocal ==
  ASSUME Inv, NEW i \in Instances, NEW j \in Instances \ {i},
         \/ Step(i) \/ Dump(i) \/ Start(i) \/ Crash(i)
         \/ Drop(i) \/ Connect(i) \/ Grant(i)
  PROVE  /\ pc'[j] = pc[j]
         /\ conn'[j] = conn[j]
         /\ rep'[j] = rep[j]
         /\ pending'[j] = pending[j]
         /\ hasLock'[j] = hasLock[j]
         /\ hwInitDoneSet'[j] = hwInitDoneSet[j]
<1> USE DEF Inv, TypeOK
<1>1. CASE RunWithoutLock(i) \/ RunUnchanged(i) \/ RunChanged(i)
  BY <1>1 DEF RunWithoutLock, RunUnchanged, RunChanged, IdlRun, Goto,
              localVars
<1>2. ASSUME NEW new, CommitBlock(i, new)
      PROVE  /\ conn'[j] = conn[j]
             /\ rep'[j] = rep[j]
             /\ pending'[j] = pending[j]
             /\ hasLock'[j] = hasLock[j]
  BY <1>2 DEF CommitBlock, Applied, Unanswered, Rejected, Forget
<1>3. CASE Configure(i) \/ AddPackages(i)
  BY <1>2, <1>3 DEF Configure, AddPackages, Goto, localVars
<1>4. CASE SetHwDone(i)
  BY <1>2, <1>4 DEF SetHwDone, Goto, idlVars
<1>5. CASE ExistingRow(i) \/ CheckPackages(i) \/ UnlinkLocaltime(i)
             \/ LinkLocaltime(i) \/ Decide(i) \/ Wake(i) \/ Dump(i)
             \/ Start(i)
  BY <1>5 DEF ExistingRow, CheckPackages, UnlinkLocaltime, LinkLocaltime,
              Decide, Wake, Dump, Start, Goto, idlVars, localVars
<1>6. CASE SwInfoFault(i) \/ Crash(i)
  BY <1>6 DEF SwInfoFault, Crash, Die, Forget, Goto
<1>7. CASE Drop(i) \/ Connect(i) \/ Grant(i)
  BY <1>7 DEF Drop, Connect, Grant, idlVars, localVars
<1> QED
  BY <1>1, <1>3, <1>4, <1>5, <1>6, <1>7 DEF Step, Handler

(* A step that leaves alone what i knows of its own state, or takes the    *)
(* lock from it, keeps i's part of DutyInv.                                *)
LEMMA DutyKept ==
  ASSUME NEW i \in Instances, Duty(i),
         UNCHANGED <<pc[i], rep[i], pending[i], hwInitDoneSet[i]>>,
         hasLock'[i] => hasLock[i],
         Active(i)' => Active(i)
  PROVE  Duty(i)'
  BY DEF Duty, Updated, HwReported, NoPackages

(* An update that does not alert leaves what the duties are about alone.   *)
LEMMA SilentUpdate ==
  ASSUME NEW old \in Database, NEW new \in Database, ~Alerts(old, new)
  PROVE  /\ new.rows = old.rows
         /\ new.tz = old.tz
         /\ HwReported(new) <=> HwReported(old)
         /\ NoPackages(new) <=> NoPackages(old)
  BY DEF Alerts, HwReported, NoPackages

(* After a commit of i that alerts, or fails, another pass is due or i has *)
(* lost the lock; a commit never makes i `Updated`.                        *)
LEMMA CommitCurrent ==
  ASSUME Inv, NEW i \in Instances, NEW new, CommitBlock(i, new), Updated(i)'
  PROVE  /\ Updated(i)
         /\ db' = new
         /\ rep'[i] = new
         /\ ~Alerts(rep[i], new)
  BY DEF CommitBlock, Applied, Unanswered, Rejected, Forget, Updated, Active,
         Inv, TypeOK

(* A pass of the main loop: what the replica shows afterwards is current,  *)
(* or a whole pass follows.                                                *)
LEMMA DutyRun ==
  ASSUME Inv, NEW i \in Instances, Duty(i),
         RunWithoutLock(i) \/ RunUnchanged(i) \/ RunChanged(i)
  PROVE  Duty(i)'
<1> USE DEF Inv
<1>1. CASE RunWithoutLock(i)
  <2>1. pc'[i] = "decide" /\ ~hasLock'[i]
    BY <1>1 DEF RunWithoutLock, IdlRun, Goto, TypeOK
  <2> QED
    BY <2>1 DEF Duty, Updated, Active
<1>2. CASE RunUnchanged(i)
  <2>1. /\ pc[i] = "loop" /\ pc'[i] = "decide"
        /\ pending' = pending /\ hwInitDoneSet' = hwInitDoneSet
        /\ rep'[i] = db
    BY <1>2 DEF RunUnchanged, IdlRun, SeenLock, SeenRep, Goto, TypeOK,
                localVars
  <2>2. Updated(i) /\ ~Alerts(rep[i], db)
    BY <1>2 DEF RunUnchanged, SeenChange, SeenLock, Online, Updated, Active
  <2>3. /\ rep[i].rows > 0
        /\ HwReported(rep[i]) => hwInitDoneSet[i]
        /\ NBatches > 0 => ~NoPackages(rep[i])
    BY <2>1, <2>2 DEF Duty, AfterHw, AfterPackages, AfterLink
  <2>4. /\ db.rows > 0
        /\ HwReported(db) => hwInitDoneSet[i]
        /\ NBatches > 0 => ~NoPackages(db)
    BY <2>2, <2>3, SilentUpdate DEF TypeOK
  <2> QED
    BY <2>1, <2>4 DEF Duty, HwReported, NoPackages
<1>3. CASE RunChanged(i)
  <2>1. pc'[i] \in {"configure", "existing"}
    BY <1>3 DEF RunChanged, Goto, TypeOK
  <2> QED
    BY <2>1 DEF Duty, AfterHw, AfterPackages, AfterLink
<1> QED
  BY <1>1, <1>2, <1>3

(* The steps of sysd_run() that write the database.                        *)
LEMMA DutyCommit ==
  ASSUME Inv, NEW i \in Instances, Duty(i),
         Configure(i) \/ SetHwDone(i) \/ AddPackages(i)
  PROVE  Duty(i)'
<1> USE DEF Inv
<1>1. CASE Configure(i)
  <2>1. /\ pc[i] = "configure" /\ pc'[i] = "packages"
        /\ CommitBlock(i, WithSystemRow(db))
    BY <1>1 DEF Configure, Goto, TypeOK
  <2>2. ~Updated(i)'
    <3>1. SUFFICES ASSUME Updated(i)' PROVE FALSE
      OBVIOUS
    <3>2. Updated(i) /\ ~Alerts(rep[i], WithSystemRow(db))
      BY <2>1, <3>1, CommitCurrent
    <3>3. rep[i].rows = 0 /\ WithSystemRow(db).rows = 1
      BY <2>1, <3>2, ConfigureDb DEF PcInv, Updated
    <3> QED
      BY <3>2, <3>3 DEF Alerts
  <2> QED
    BY <2>1, <2>2 DEF Duty, AfterPackages, AfterLink
<1>2. CASE SetHwDone(i)
  <2>1. pc[i] = "hwcommit" /\ pc'[i] = "packages" /\ hwInitDoneSet'[i]
    BY <1>2 DEF SetHwDone, Goto, TypeOK
  <2>2. ASSUME Updated(i)' PROVE rep'[i].rows > 0
    <3>1. CASE rep[i].curHw = 1
      BY <1>2, <2>1, <3>1 DEF SetHwDone, idlVars, PcInv
    <3>2. CASE rep[i].curHw # 1
      <4>1. CommitBlock(i, WithHwDone(db))
        BY <1>2, <3>2 DEF SetHwDone
      <4>2. rep'[i] = WithHwDone(db)
        BY <2>2, <4>1, CommitCurrent
      <4> QED
        BY <2>1, <4>2, SetHwDoneDb
    <3> QED
      BY <3>1, <3>2
  <2> QED
    BY <2>1, <2>2 DEF Duty, AfterPackages, AfterLink
<1>3. CASE AddPackages(i)
  <2> DEFINE new == WithPackages(db, batch[i])
  <2>1. pc[i] = "pkg" /\ CommitBlock(i, new) /\ pc'[i] \in {"pkg", "unlink"}
    BY <1>3 DEF AddPackages, Goto, TypeOK
  <2>2. ~Updated(i)'
    <3>1. SUFFICES ASSUME Updated(i)' PROVE FALSE
      OBVIOUS
    <3>2. Updated(i) /\ ~Alerts(rep[i], new)
      BY <2>1, <3>1, CommitCurrent
    <3>3. /\ batch[i] \in 1..NBatches /\ db.pkgs[batch[i]] = 0
          /\ new.pkgs = [db.pkgs EXCEPT ![batch[i]] = 1]
          /\ rep[i].pkgs = db.pkgs
      BY <2>1, <3>2, AddPackagesDb DEF Updated, RepInv
    <3>4. db.pkgs \in [1..NBatches -> Nat]
      BY DEF TypeOK, Database
    <3>5. new.pkgs[batch[i]] = 1 /\ rep[i].pkgs[batch[i]] = 0
      BY <3>3, <3>4
    <3> QED
      BY <3>2, <3>5 DEF Alerts
  <2> QED
    BY <2>1, <2>2 DEF Duty
<1> QED
  BY <1>1, <1>2, <1>3

(* Every other step of process i, the end of it and of its session.        *)
LEMMA DutyOther ==
  ASSUME Inv, NEW i \in Instances, Duty(i),
         \/ ExistingRow(i) \/ CheckPackages(i) \/ UnlinkLocaltime(i)
         \/ LinkLocaltime(i) \/ Decide(i) \/ Wake(i) \/ SwInfoFault(i)
         \/ Dump(i) \/ Start(i) \/ Crash(i) \/ Drop(i) \/ Connect(i) \/ Grant(i)
  PROVE  Duty(i)'
<1> USE DEF Inv
<1>1. CASE ExistingRow(i)
  <2>1. /\ pc[i] = "existing" /\ pc'[i] \in {"hwcommit", "packages"}
        /\ pc'[i] = "packages" => (HwReported(rep[i]) => hwInitDoneSet[i])
        /\ UNCHANGED <<idlVars, localVars>>
    BY <1>1 DEF ExistingRow, Goto, TypeOK
  <2>2. rep[i].rows > 0
    BY <2>1 DEF PcInv
  <2> QED
    BY <2>1, <2>2
       DEF Duty, HwReported, AfterHw, AfterPackages, AfterLink, idlVars,
           localVars
<1>2. CASE CheckPackages(i)
  <2>1. /\ pc[i] = "packages" /\ pc'[i] \in {"pkg", "unlink"}
        /\ pc'[i] = "unlink" => (NBatches > 0 => ~NoPackages(rep[i]))
        /\ UNCHANGED <<idlVars, hwInitDoneSet>>
    BY <1>2 DEF CheckPackages, Goto, TypeOK
  <2>2. Updated(i) => /\ rep[i].rows > 0
                      /\ HwReported(rep[i]) => hwInitDoneSet[i]
    BY <2>1 DEF Duty, AfterHw
  <2> QED
    BY <2>1, <2>2
       DEF Duty, Updated, Active, HwReported, NoPackages, AfterPackages,
           AfterLink, idlVars
<1>3. CASE UnlinkLocaltime(i) \/ LinkLocaltime(i) \/ Decide(i) \/ Wake(i)
             \/ Dump(i)
  <2>1. /\ pc[i] \in AfterPackages /\ pc'[i] \in AfterPackages
        /\ pc'[i] = "blocked" => ~pending[i]
        /\ UNCHANGED <<idlVars, localVars>>
    BY <1>3 DEF UnlinkLocaltime, LinkLocaltime, Decide, Wake, Dump, Goto,
                TypeOK, AfterPackages, AfterLink
  <2>2. Updated(i) => /\ rep[i].rows > 0
                      /\ HwReported(rep[i]) => hwInitDoneSet[i]
                      /\ NBatches > 0 => ~NoPackages(rep[i])
    BY <2>1 DEF Duty, AfterHw
  <2>3. pc'[i] # "down"
    BY <2>1 DEF AfterPackages, AfterLink
  <2> QED
    BY <2>1, <2>2, <2>3
       DEF Duty, Updated, Active, HwReported, NoPackages, idlVars, localVars
<1>4. CASE Start(i)
  <2>1. pc'[i] = "loop" /\ ~hasLock'[i]
    BY <1>4 DEF Start, Goto, TypeOK, Duty, idlVars
  <2> QED
    BY <2>1 DEF Duty, Updated, Active
<1>5. CASE SwInfoFault(i) \/ Crash(i)
  <2>1. pc'[i] = "down" /\ ~hasLock'[i]
    BY <1>5 DEF SwInfoFault, Crash, Die, Forget, Goto, TypeOK
  <2> QED
    BY <2>1 DEF Duty, Updated, Active
<1>6. CASE Drop(i) \/ Connect(i) \/ Grant(i)
  <2>1. /\ UNCHANGED <<pc[i], rep[i], pending[i], hwInitDoneSet[i]>>
        /\ hasLock'[i] = hasLock[i]
        /\ Active(i)' => Active(i)
    BY <1>6 DEF Drop, Connect, Grant, Active, TypeOK, idlVars, localVars
  <2> QED
    BY <2>1, DutyKept
<1> QED
  BY <1>1, <1>2, <1>3, <1>4, <1>5, <1>6

(* Every step keeps DutyInv.                                               *)
LEMMA DutyStep ==
  ASSUME Inv, DutyInv, [Next]_vars
  PROVE  DutyInv'
<1>1. ASSUME NEW i \in Instances,
             \/ Step(i) \/ Dump(i) \/ Start(i) \/ Crash(i)
             \/ Drop(i) \/ Connect(i) \/ Grant(i)
      PROVE  DutyInv'
  <2>1. Duty(i)'
    BY <1>1, DutyRun, DutyCommit, DutyOther DEF DutyInv, Step, Handler
  <2>2. ASSUME NEW j \in Instances \ {i}
        PROVE  Duty(j)'
    BY <1>1, StepLocal, DutyKept DEF DutyInv, Active
  <2> QED
    BY <2>1, <2>2 DEF DutyInv
<1>2. CASE Environment \/ UNCHANGED vars
  <2>1. UNCHANGED <<idlVars, localVars, pc>>
    BY <1>2 DEF Environment, Report, SetTimezone, SetMgmtIntf, Upgrade, vars
  <2> QED
    BY <2>1, DutyKept DEF DutyInv, Active, idlVars, localVars
<1> QED
  BY <1>1, <1>2 DEF Next

-----------------------------------------------------------------------------
(* No wakeup is lost: an instance that sleeps in poll_block() with the     *)
(* lock and a current replica has configured the switch, has announced the *)
(* hardware if the h/w daemons have all reported, and has loaded packages. *)
THEOREM NoWakeupLost == Spec => []SettledDone
<1>1. Init => DutyInv
  BY DEF Init, DutyInv, Duty, Updated, Active
<1>2. Inv /\ DutyInv /\ [Next]_vars => DutyInv'
  BY DutyStep
<1>3. Inv /\ DutyInv => SettledDone
  <2> SUFFICES ASSUME Inv, DutyInv, NEW i \in Instances, Settled(i)
               PROVE  /\ db.rows = 1
                      /\ HwDaemons \subseteq db.hw => hwInitDoneSet[i]
                      /\ NBatches > 0 => \E b \in 1..NBatches : db.pkgs[b] > 0
    BY DEF SettledDone
  <2>1. Updated(i) /\ pc[i] = "blocked" /\ rep[i] = db
    BY DEF Settled, DutyInv, Duty, Updated, Active
  <2>2. /\ db.rows > 0
        /\ HwReported(db) => hwInitDoneSet[i]
        /\ NBatches > 0 => ~NoPackages(db)
    BY <2>1 DEF DutyInv, Duty, AfterHw, AfterPackages, AfterLink
  <2>3. db.rows = 1
    BY <2>2 DEF Inv, TypeOK, Database, DbInv, SingleSystemRow
  <2>4. \A b \in 1..NBatches : db.pkgs[b] \in Nat
    BY DEF Inv, TypeOK, Database
  <2> QED
    BY <2>2, <2>3, <2>4 DEF HwReported, NoPackages
<1> QED
  BY <1>1, <1>2, <1>3, Invariance, PTL DEF Spec

-----------------------------------------------------------------------------
(* /etc/localtime, when nobody else replaces the link.                     *)

OneInstance == \A i, j \in Instances : i = j

(* Every step keeps LinkInv.  The pass that begins with a time zone ends   *)
(* with the link to it; a commit in between never leaves the instance      *)
(* current with another zone, and a silent update does not carry one.      *)
LEMMA LinkStep ==
  ASSUME OneInstance, Inv, DutyInv, LinkInv, [Next]_vars
  PROVE  LinkInv'
<1> USE DEF Inv
<1>1. SUFFICES ASSUME NEW i \in Instances
               PROVE  /\ pc'[i] = "link" => localtime' = NoZone
                      /\ Updated(i)' /\ pc'[i] \in AfterLink =>
                             localtime' = rep'[i].tz
  BY DEF LinkInv
<1>2. CASE RunWithoutLock(i) \/ RunUnchanged(i) \/ RunChanged(i)
  <2>1. /\ pc[i] = "loop" /\ pc'[i] # "link" /\ localtime' = localtime
    BY <1>2 DEF RunWithoutLock, RunUnchanged, RunChanged, Goto, TypeOK,
                fileVars
  <2>2. ASSUME Updated(i)', pc'[i] \in AfterLink
        PROVE  RunUnchanged(i)
    BY <1>2, <2>2 DEF RunWithoutLock, RunChanged, IdlRun, Goto, TypeOK,
                      Updated, Active, AfterLink
  <2>3. ASSUME RunUnchanged(i)
        PROVE  localtime = rep'[i].tz
    <3>1. rep'[i] = db /\ Updated(i) /\ ~Alerts(rep[i], db)
      BY <2>3 DEF RunUnchanged, IdlRun, SeenChange, SeenLock, SeenRep,
                  Online, Updated, Active, TypeOK
    <3>2. localtime = rep[i].tz
      BY <2>1, <3>1 DEF LinkInv, AfterLink
    <3> QED
      BY <3>1, <3>2, SilentUpdate DEF TypeOK
  <2> QED
    BY <2>1, <2>2, <2>3
<1>3. CASE \/ Configure(i) \/ SetHwDone(i) \/ AddPackages(i)
           \/ ExistingRow(i) \/ CheckPackages(i)
           \/ SwInfoFault(i) \/ Crash(i)
  <2>1. pc'[i] \in {"hwcommit", "packages", "pkg", "unlink", "down"}
    BY <1>3 DEF Configure, SetHwDone, AddPackages, ExistingRow,
                CheckPackages, SwInfoFault, Crash, Die, Goto, TypeOK
  <2> QED
    BY <2>1 DEF AfterLink
<1>4. CASE UnlinkLocaltime(i)
  <2>1. pc[i] = "unlink" /\ UNCHANGED idlVars
    BY <1>4 DEF UnlinkLocaltime
  <2>2. CASE rep[i].rows = 0
    <3>1. pc'[i] = "decide" /\ ~Updated(i)
      BY <1>4, <2>1, <2>2
         DEF UnlinkLocaltime, Goto, TypeOK, DutyInv, Duty, AfterHw,
             AfterPackages
    <3> QED
      BY <2>1, <3>1 DEF Updated, Active, idlVars
  <2>3. CASE rep[i].rows # 0
    <3>1. pc'[i] = "link" /\ localtime' = NoZone
      BY <1>4, <2>3 DEF UnlinkLocaltime, Goto, TypeOK
    <3> QED
      BY <3>1 DEF AfterLink
  <2> QED
    BY <2>2, <2>3
<1>5. CASE LinkLocaltime(i)
  BY <1>5 DEF LinkLocaltime, LinkInv, Goto, TypeOK, idlVars
<1>6. CASE Decide(i) \/ Wake(i) \/ Dump(i)
  BY <1>6 DEF Decide, Wake, Dump, LinkInv, Goto, TypeOK, Updated, Active,
              AfterLink, fileVars, idlVars
<1>7. CASE Start(i)
  BY <1>7 DEF Start, DutyInv, Duty, Goto, TypeOK, Updated, Active, idlVars
<1>8. CASE Drop(i) \/ Connect(i) \/ Grant(i)
  <2>1. UNCHANGED <<pc[i], rep[i], pending[i], localtime>>
        /\ (Active(i)' => Active(i))
    BY <1>8 DEF Drop, Connect, Grant, Active, TypeOK, fileVars, idlVars,
                localVars
  <2> QED
    BY <2>1 DEF LinkInv, Updated
<1>9. CASE Environment \/ UNCHANGED vars
  BY <1>9 DEF Environment, Report, SetTimezone, SetMgmtIntf, Upgrade, LinkInv,
              Updated, Active, vars, fileVars, idlVars
<1> QED
  BY <1>2, <1>3, <1>4, <1>5, <1>6, <1>7, <1>8, <1>9
     DEF Next, Step, Handler, OneInstance

(* sysd_handle_timezone_update with one instance on the switch: whenever   *)
(* it sleeps with the lock and a current replica, /etc/localtime links to  *)
(* System:timezone, whatever crashed and whatever the link was before.     *)
THEOREM LocaltimeSettled ==
  ASSUME OneInstance
  PROVE  Spec => []SettledLocaltime
<1>1. Init => DutyInv /\ LinkInv
  BY DEF Init, DutyInv, LinkInv, Duty, Updated, Active
<1>2. Inv /\ DutyInv /\ LinkInv /\ [Next]_vars => DutyInv' /\ LinkInv'
  BY OneInstance, DutyStep, LinkStep
<1>3. Inv /\ DutyInv /\ LinkInv => SettledLocaltime
  <2> SUFFICES ASSUME Inv, DutyInv, LinkInv, NEW i \in Instances, Settled(i)
               PROVE  localtime = db.tz
    BY DEF SettledLocaltime
  <2>1. Updated(i) /\ pc[i] = "blocked" /\ rep[i] = db
    BY DEF Settled, DutyInv, Duty, Updated, Active
  <2> QED
    BY <2>1 DEF LinkInv, AfterLink
<1> QED
  BY <1>1, <1>2, <1>3, Invariance, PTL DEF Spec
=============================================================================
