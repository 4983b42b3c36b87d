------------------------- MODULE TimezoneCliProofs -------------------------
(***************************************************************************)
(* The commands of the CLI for any number of users, zones and instances:   *)
(* they implement SysdRun, so what is proved of it holds with them, and    *)
(* what they decide on is a past of the switch, never a zone it never had. *)
(***************************************************************************)
EXTENDS TimezoneCli, SysdRunProofs

(* The list of zones is one of those a directory gives, for good.          *)
ListInv == list \in ZoneLists

(* translate_cmd_to_filepath finds a zone of the switch, and the one whose *)
(* lower-case name is the word.                                            *)
LEMMA ChosenZone ==
  ASSUME ListInv, NEW word, Matches(word) # {}
  PROVE  /\ Chosen(word) \in Zones
         /\ Lower[Chosen(word)] = word
         /\ \E n \in 1..Len(list) : Chosen(word) = list[n]
<1>1. list \in Seq(Zones)
  BY CliAssumption DEF ListInv
<1>2. PICK n \in Matches(word) : TRUE
  OBVIOUS
<1>3. \A m \in Matches(word) : n <= m
  <2>1. \A m \in Matches(word) : m = n
    BY <1>2, CliAssumption DEF ListInv, Matches
  <2> QED
    BY <1>1, <1>2, <2>1 DEF Matches
<1>4. PICK k \in Matches(word) : Chosen(word) = list[k]
  BY <1>2, <1>3 DEF Chosen
<1> QED
  BY <1>1, <1>4 DEF Matches

(* Every step of users and switch together is one of SysdRun, or none.     *)
LEMMA CliStep ==
  ASSUME ListInv, [CliNext]_allVars
  PROVE  [Next]_vars /\ ListInv'
<1>1. CASE UNCHANGED allVars
  BY <1>1 DEF allVars, cliVars, ListInv
<1>2. CASE Next /\ UNCHANGED cliVars
  BY <1>2 DEF cliVars, ListInv
<1>3. ASSUME NEW u \in Users, Sync(u)
      PROVE  [Next]_vars /\ ListInv'
  BY <1>3 DEF Sync, ListInv
<1>4. ASSUME NEW u \in Users, NEW word, Write(u, word)
      PROVE  [Next]_vars /\ ListInv'
  <2>1. ListInv'
    BY <1>4 DEF Write, ListInv
  <2>2. Chosen(word) \in Zones
    BY <1>4, ChosenZone DEF Write
  <2>3. CASE SetTimezone(Chosen(word))
    BY <2>1, <2>2, <2>3 DEF Next, Environment
  <2> QED
    BY <1>4, <2>1, <2>3 DEF Write
<1>5. ASSUME NEW u \in Users, Command(u)
      PROVE  [Next]_vars /\ ListInv'
  BY <1>4, <1>5 DEF Command, SetZone, ResetZone
<1> QED
  BY <1>1, <1>2, <1>3, <1>5 DEF CliNext, UserStep

(* populate_zone_db is only called while a process starts: the list that   *)
(* commands are looked up in stays the one of the directory.               *)
THEOREM ListConstant == CliSpec => []ListInv
<1>1. CliInit => ListInv
  BY DEF CliInit, ListInv
<1> QED
  BY <1>1, CliStep, PTL DEF CliSpec

(* The users of the CLI see to it that the switch only ever does what      *)
(* SysdRun allows: everything proved of Spec holds with them.              *)
THEOREM CliImplementation == CliSpec => ImplementsSysdRun
<1>1. CliInit => Init
  BY DEF CliInit
<1> QED
  BY <1>1, CliStep, ListConstant, PTL DEF CliSpec, ImplementsSysdRun, Spec

(* In particular commands cannot get in the way of the promise to the      *)
(* configuration daemon.                                                   *)
THEOREM CliHwReady == CliSpec => ImplementsHwReady
  BY CliImplementation, Implementation DEF ImplementsSysdRun

-----------------------------------------------------------------------------
(* What replicas show.                                                     *)

(* No transaction takes a System row away.                                 *)
LEMMA RowsGrow ==
  ASSUME TypeOK, [Next]_vars
  PROVE  db.rows <= db'.rows
<1>1. db.rows \in Nat
  BY DEF TypeOK, Database
<1>2. ASSUME db' = db
      PROVE  db.rows <= db'.rows
  BY <1>1, <1>2
<1>3. ASSUME NEW i \in Instances, NEW new, CommitBlock(i, new),
             new.rows >= db.rows
      PROVE  db.rows <= db'.rows
  BY <1>1, <1>3 DEF CommitBlock, Applied, Unanswered, Rejected
<1>4. ASSUME NEW i \in Instances, Handler(i)
      PROVE  db.rows <= db'.rows
  <2>1. CASE Configure(i)
    <3>1. WithSystemRow(db).rows >= db.rows
      BY <1>1 DEF WithSystemRow, TypeOK, Database
    <3> QED
      BY <1>3, <2>1, <3>1 DEF Configure
  <2>2. CASE SetHwDone(i)
    <3>1. WithHwDone(db).rows >= db.rows
      BY <1>1 DEF WithHwDone, TypeOK, Database
    <3> QED
      BY <1>2, <1>3, <2>2, <3>1 DEF SetHwDone, serverVars
  <2>3. CASE AddPackages(i)
    <3>1. WithPackages(db, batch[i]).rows >= db.rows
      BY <1>1 DEF WithPackages, TypeOK, Database
    <3> QED
      BY <1>3, <2>3, <3>1 DEF AddPackages
  <2>4. CASE ExistingRow(i) \/ CheckPackages(i) \/ UnlinkLocaltime(i)
             \/ LinkLocaltime(i)
    BY <1>2, <2>4 DEF ExistingRow, CheckPackages, UnlinkLocaltime,
                      LinkLocaltime, serverVars
  <2>5. CASE SwInfoFault(i)
    BY <1>2, <2>5 DEF SwInfoFault, Die
  <2> QED
    BY <1>4, <2>1, <2>2, <2>3, <2>4, <2>5 DEF Handler
<1>5. ASSUME NEW i \in Instances, Step(i)
      PROVE  db.rows <= db'.rows
  BY <1>2, <1>4, <1>5 DEF Step, RunWithoutLock, RunUnchanged, RunChanged,
                          Decide, Wake, serverVars
<1>6. ASSUME NEW i \in Instances,
             \/ Dump(i) \/ Start(i) \/ Crash(i)
             \/ Drop(i) \/ Connect(i) \/ Grant(i)
      PROVE  db.rows <= db'.rows
  BY <1>2, <1>6 DEF Dump, Start, Crash, Die, Drop, Connect, Grant, serverVars
<1>7. CASE Environment
  <2>1. ASSUME NEW d, Report(d) PROVE db'.rows = db.rows
    BY <2>1 DEF Report, TypeOK, Database
  <2>2. ASSUME NEW z, SetTimezone(z) PROVE db'.rows = db.rows
    BY <2>2 DEF SetTimezone, TypeOK, Database
  <2>3. ASSUME SetMgmtIntf PROVE db'.rows = db.rows
    BY <2>3 DEF SetMgmtIntf, TypeOK, Database
  <2>4. ASSUME NEW r, Upgrade(r) PROVE db'.rows = db.rows
    BY <2>4 DEF Upgrade, serverVars
  <2> QED
    BY <1>1, <1>7, <2>1, <2>2, <2>3, <2>4 DEF Environment
<1> QED
  BY <1>2, <1>5, <1>6, <1>7 DEF Next, vars, serverVars

(* A replica shows a zone the switch had and no more rows than there are.  *)
LEMMA ReplicaStep ==
  ASSUME TypeOK, TypeOK', ListInv, CliTypeOK, [CliNext]_allVars
  PROVE  CliTypeOK'
<1>1. [Next]_vars /\ list' \in ZoneLists
  BY CliStep DEF ListInv
<1>2. db.rows <= db'.rows
  BY <1>1, RowsGrow
<1>3. /\ db \in Database /\ db' \in Database
      /\ db.rows \in Nat /\ db'.rows \in Nat
      /\ db'.tz \in Zones \union {NoZone}
  BY DEF TypeOK, Database
<1>4. past' = past \union {db'.tz}
  BY DEF CliNext, allVars, vars, serverVars, CliTypeOK
<1>5. ASSUME NEW r \in Replica, r.rows <= db'.rows, r.tz \in past',
             NEW u \in Users, seen' = [seen EXCEPT ![u] = r]
      PROVE  CliTypeOK'
  BY <1>1, <1>2, <1>3, <1>4, <1>5 DEF CliTypeOK, Replica
<1>6. ASSUME UNCHANGED seen
      PROVE  CliTypeOK'
  BY <1>1, <1>2, <1>3, <1>4, <1>6 DEF CliTypeOK, Replica
<1>7. ASSUME NEW u \in Users, Sync(u)
      PROVE  CliTypeOK'
  <2>1. /\ Current \in Replica
        /\ Current.rows <= db'.rows
        /\ Current.tz \in past'
    BY <1>3, <1>2, <1>4 DEF Current, Replica, CliTypeOK, Database
  <2> QED
    BY <1>5, <1>7, <2>1 DEF Sync
<1>8. ASSUME NEW u \in Users, NEW word, Write(u, word)
      PROVE  CliTypeOK'
  <2> DEFINE r == [rows |-> db.rows, tz |-> Chosen(word)]
  <2>1. r \in Replica
    BY <1>3, <1>8, ChosenZone DEF Write, Replica
  <2>2. db'.tz = Chosen(word)
    BY <1>3, <1>8 DEF Write, SetTimezone, vars, serverVars, Database
  <2>3. r.rows <= db'.rows /\ r.tz \in past'
    BY <1>2, <1>4, <2>2
  <2>4. CASE seen' = [seen EXCEPT ![u] = r]
    BY <1>5, <2>1, <2>3, <2>4
  <2> QED
    BY <1>6, <1>8, <2>4 DEF Write
<1>9. ASSUME NEW u \in Users, Command(u)
      PROVE  CliTypeOK'
  BY <1>8, <1>9 DEF Command, SetZone, ResetZone
<1> QED
  BY <1>6, <1>7, <1>9 DEF CliNext, UserStep, allVars, cliVars

(* What a vtysh process reads from its replica was once in the database.   *)
THEOREM CliTypeCorrect == CliSpec => []CliTypeOK
<1>1. ASSUME CliInit PROVE CliTypeOK
  <2>1. db.rows = 0 /\ db.tz = NoZone
    BY <1>1 DEF CliInit, Init, EmptyDb
  <2>2. EmptyReplica \in Replica /\ EmptyReplica.rows = 0
        /\ EmptyReplica.tz = NoZone
    BY DEF EmptyReplica, Replica
  <2> QED
    BY <1>1, <2>1, <2>2 DEF CliInit, CliTypeOK
<1>2. CliSpec => []TypeOK
  BY CliImplementation, TypeCorrect, PTL DEF ImplementsSysdRun
<1> QED
  BY <1>1, <1>2, ListConstant, ReplicaStep, PTL DEF CliSpec

(* The line show running-config prints leads back to the zone it was       *)
(* printed for.                                                            *)
THEOREM ReplayIsSound == CliSpec => []ReplayRestores
<1>1. ASSUME CliTypeOK PROVE ReplayRestores
  <2> SUFFICES ASSUME NEW u \in Users,
                      NEW n \in 1..Len(list), list[n] = seen[u].tz
               PROVE  /\ Matches(Printed(seen[u])) # {}
                      /\ Chosen(Printed(seen[u])) = seen[u].tz
    BY DEF ReplayRestores
  <2> DEFINE word == Printed(seen[u])
  <2>1. n \in Matches(word)
    BY DEF Matches, Printed
  <2>2. PICK k \in 1..Len(list) :
             Chosen(word) = list[k] /\ Lower[list[k]] = word
    BY <1>1, <2>1, ChosenZone DEF ListInv, CliTypeOK
  <2>3. k = n
    BY <1>1, <2>2, CliAssumption DEF CliTypeOK, Printed
  <2> QED
    BY <2>1, <2>2, <2>3
<1> QED
  BY <1>1, CliTypeCorrect, PTL

(* "no timezone set" resets nothing but a zone the switch has had.         *)
THEOREM NoFormIsSound == CliSpec => NoFormNamesAPastZone
<1>1. ASSUME CliTypeOK, NEW u \in Users, NEW word \in Words,
             ResetZone(u, word)
      PROVE  \E z \in past \ {NoZone, Chosen(DefaultWord)} : Lower[z] = word
  <2>1. seen[u].tz \in past \ {NoZone, Chosen(DefaultWord)}
    BY <1>1 DEF CliTypeOK, ResetZone, Write
  <2> QED
    BY <1>1, <2>1 DEF ResetZone
<1>2. CliTypeOK =>
        [\A u \in Users, word \in Words :
             ResetZone(u, word) =>
                 \E z \in past \ {NoZone, Chosen(DefaultWord)} :
                     Lower[z] = word]_allVars
  BY <1>1
<1> QED
  BY <1>2, CliTypeCorrect, PTL DEF NoFormNamesAPastZone
=============================================================================
