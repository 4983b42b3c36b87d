----------------------- MODULE InitialConfigureProofs -----------------------
(***************************************************************************)
(* Proofs about InitialConfigure: what the first configuration has in its  *)
(* transaction when it has come past a step, unless memory ran out on the  *)
(* way.                                                                    *)
(***************************************************************************)
EXTENDS InitialConfigure, TLAPS

(* Where the transaction is past a step.  A process that has come to a     *)
(* fault is nowhere.                                                       *)
Over == {"done", "existing", "nullTxn"}
PastAcl == {"commit"} \union Over
PastProfiles == {"acl"} \union PastAcl
PastDefaultSchedule == {"schedule factory"} \union PastProfiles
PastQueues == {"schedule default"} \union PastDefaultSchedule
PastDefaultQueue == {"queue factory"} \union PastQueues
PastCos == {"queue default"} \union PastDefaultQueue
PastDscp == {"cos"} \union PastCos
PastTrust == {"dscp"} \union PastDscp
PastRelease == {"trust"} \union PastTrust
PastDaemons == {"release"} \union PastRelease
PastLinks == {"daemons"} \union PastDaemons
PastSubsystem == {"links"} \union PastLinks
PastSystem == {"subsystem"} \union PastSubsystem

(* The columns of the System row, and the rows of the interfaces and maps. *)
(* Without memory for the interfaces there are none, and all the rest.     *)
Unlisted == {"system", "subsystem"}
RowsInv ==
    /\ pc \in Unlisted \union {"links"} => short = {}
    /\ pc \in Unlisted => interfaces = NoRows
    /\ short \subseteq {"interfaces"} =>
        /\ pc \in PastSystem => {"mgmt_intf", "macs", "bridges", "vrfs"}
                                    \subseteq system
        /\ pc \in PastSubsystem => "subsystems" \in system
        /\ pc \in PastLinks =>
               interfaces = IF short = {} THEN SplitLinks(cfg) ELSE NoRows
        /\ pc \in PastDaemons /\ cfg.daemons => "daemons" \in system
        /\ pc \in PastRelease => "timezone" \in system
        /\ pc \in PastTrust /\ cfg.qosInfo => "trust" \in system
        /\ pc \in PastDscp /\ cfg.dscp # <<>> =>
               "dscp" \in system /\ maps["dscp"] = MapRows(cfg.dscp, DscpRows)
        /\ pc \in PastCos /\ cfg.cos # <<>> =>
               "cos" \in system /\ maps["cos"] = MapRows(cfg.cos, CosRows)
        /\ pc \in PastAcl => "acl" \in system

(* What the other variables may be.                                        *)
TypeInv ==
    /\ cfg \in Inputs
    /\ pc \in {"system", "fault"} \union PastSystem
    /\ system \subseteq Columns
    /\ DOMAIN maps = {"cos", "dscp"}
    /\ DOMAIN inUse \subseteq Kinds
    /\ short \subseteq {"subsystems", "interfaces", "daemons"}
    /\ image \in 1..Len(cfg.images) /\ pass \in 1..image
    /\ used \in [fails : 0..MaxFails, noMemory : 0..MaxNoMemory,
                 shows : 0..cfg.shows]

(* Where in its entries a profile is.                                      *)
PlaceInv ==
    /\ pc \notin ProfileSteps => k = 0
    /\ pc \in ProfileSteps => k \in 0..(Len(Entries) + 1)
    /\ k > 0 => cfg.qosInfo

(* The rows of a queue profile after the entries before j of es, where     *)
(* "again" says that all entries had been read once before.                *)
QueueSoFar(es, row, q, j, again) ==
    LET mine == {n \in EntriesOf(es, q) : again \/ n < j}
        texts == {n \in mine : es[n].text # NoText}
        recent == {n \in texts : n < j}
    IN  /\ DOMAIN row = {"prios", "text", "hwDefault"}
        /\ row.prios = {es[n].prio : n \in mine}
        /\ recent # {} => row.text = es[LastOf(recent)].text
        /\ recent = {} /\ texts # {} => row.text = es[LastOf(texts)].text
        /\ texts = {} => row.text = NoText

QueuesSoFar(es, rows, j, again) ==
    /\ DOMAIN rows = {es[n].queue : n \in {m \in 1..Len(es) : again \/ m < j}}
    /\ \A q \in DOMAIN rows : QueueSoFar(es, rows[q], q, j, again)

(* The rows of a schedule profile, which are never read again.             *)
ScheduleSoFar(es, row, q, j) ==
    LET last == es[LastOf({n \in EntriesOf(es, q) : n < j})]
    IN  /\ DOMAIN row = {"algorithm", "weight", "hwDefault"}
        /\ row.algorithm = last.algorithm
        /\ row.weight = IF last.algorithm = "strict" THEN {} ELSE {last.weight}

SchedulesSoFar(es, rows, j) ==
    /\ DOMAIN rows = {es[n].queue : n \in {m \in 1..Len(es) : m < j}}
    /\ \A q \in DOMAIN rows : ScheduleSoFar(es, rows[q], q, j)

(* A profile with those rows, all of them and itself marked, or none.      *)
Built(kind, es, p, j, again, mark) ==
    /\ DOMAIN p = {"hwDefault", "rows"}
    /\ p.hwDefault = mark
    /\ \A q \in DOMAIN p.rows : p.rows[q].hwDefault = mark
    /\ kind = "queue" => QueuesSoFar(es, p.rows, j, again)
    /\ kind = "schedule" => SchedulesSoFar(es, p.rows, j)

Finished(kind, es, p, mark) == Built(kind, es, p, Len(es) + 1, FALSE, mark)

EntriesFor(kind) == IF kind = "queue" THEN cfg.queues ELSE cfg.schedule
PastDefault(kind) ==
    IF kind = "queue" THEN PastDefaultQueue ELSE PastDefaultSchedule
PastFactory(kind) == IF kind = "queue" THEN PastQueues ELSE PastProfiles
Building(kind) == pc \in ProfileSteps /\ KindOf(pc) = kind /\ k > 0

(* An allocation failed that ends the function before the profiles.        *)
Early == short \intersect {"subsystems", "daemons"} # {}

NoneYet(kind) == profiles[kind] = <<>>

BothThere(kind) ==
    LET default == cfg.names.default
        factory == cfg.names.factory
    IN  /\ DOMAIN profiles[kind] = {default, factory}
        /\ \A name \in {default, factory} :
              Finished(kind, EntriesFor(kind), profiles[kind][name],
                       name = factory)

(* The first profile is built, and then the second, over the first one if  *)
(* they have the same name.                                                *)
KindInv(kind) ==
    LET there == profiles[kind]
        es == EntriesFor(kind)
        default == cfg.names.default
        factory == cfg.names.factory
    IN  /\ pc \notin PastDefault(kind) \union {"fault"} /\ ~Building(kind) =>
              NoneYet(kind)
        /\ Building(kind) /\ pc \notin PastDefault(kind) =>
              /\ DOMAIN there = {default}
              /\ Built(kind, es, there[default], k, FALSE, FALSE)
        /\ pc \in PastDefault(kind) \ PastFactory(kind) =>
              /\ DOMAIN there = {default} \union IF k = 0 THEN {} ELSE {factory}
              /\ k = 0 \/ default # factory =>
                    Finished(kind, es, there[default], FALSE)
              /\ k > 0 /\ default # factory =>
                    Built(kind, es, there[factory], k, FALSE, FALSE)
              /\ k > 0 /\ default = factory =>
                    Built(kind, es, there[factory], k, TRUE, FALSE)
        /\ pc \in PastFactory(kind) => BothThere(kind)
        /\ pc = "fault" => NoneYet(kind) \/ BothThere(kind)

ProfilesInv ==
    /\ DOMAIN profiles = Kinds
    /\ Early => pc \in PastAcl
    /\ Early \/ ~cfg.qosInfo => \A kind \in Kinds : NoneYet(kind)
    /\ ~Early /\ cfg.qosInfo =>
          \A kind \in Kinds :
             /\ KindInv(kind)
             /\ pc \in PastDefault(kind) => /\ kind \in DOMAIN inUse
                                            /\ inUse[kind] = cfg.names.default

-----------------------------------------------------------------------------
(* The steps in their order.                                               *)

LEMMA StepsAre ==
  /\ Len(Steps) = 14
  /\ Steps[1] = "system"             /\ Steps[2] = "subsystem"
  /\ Steps[3] = "links"              /\ Steps[4] = "daemons"
  /\ Steps[5] = "release"            /\ Steps[6] = "trust"
  /\ Steps[7] = "dscp"               /\ Steps[8] = "cos"
  /\ Steps[9] = "queue default"      /\ Steps[10] = "queue factory"
  /\ Steps[11] = "schedule default"  /\ Steps[12] = "schedule factory"
  /\ Steps[13] = "acl"               /\ Steps[14] = "commit"
BY DEF Steps

LEMMA AfterNth ==
  ASSUME NEW i \in 1..13, NEW s, Steps[i] = s,
         \A n \in 1..14 : Steps[n] = s => n = i
  PROVE  After(s) = Steps[i + 1]
<1> DEFINE m == CHOOSE n \in 1..Len(Steps) : Steps[n] = s
<1>0. Len(Steps) = 14
  BY StepsAre
<1>1. 1..Len(Steps) = 1..14 /\ i \in 1..14 /\ 1 + i = i + 1
  BY <1>0
<1>2. \E n \in 1..Len(Steps) : Steps[n] = s
  BY <1>1
<1>3. m \in 1..Len(Steps) /\ Steps[m] = s
  BY <1>2, Zenon
<1>4. After(s) = Steps[1 + m]
  BY DEF After
<1> HIDE DEF m
<1>5. m = i
  BY <1>1, <1>3
<1> QED
  BY <1>1, <1>4, <1>5

LEMMA AfterIs ==
  /\ After("system") = "subsystem"         /\ After("subsystem") = "links"
  /\ After("links") = "daemons"            /\ After("daemons") = "release"
  /\ After("release") = "trust"            /\ After("trust") = "dscp"
  /\ After("dscp") = "cos"                 /\ After("cos") = "queue default"
  /\ After("queue default") = "queue factory"
  /\ After("queue factory") = "schedule default"
  /\ After("schedule default") = "schedule factory"
  /\ After("schedule factory") = "acl"     /\ After("acl") = "commit"
<1> DEFINE Place(s) ==
        CASE s = "system" -> 1         [] s = "subsystem" -> 2
          [] s = "links" -> 3          [] s = "daemons" -> 4
          [] s = "release" -> 5        [] s = "trust" -> 6
          [] s = "dscp" -> 7           [] s = "cos" -> 8
          [] s = "queue default" -> 9  [] s = "queue factory" -> 10
          [] s = "schedule default" -> 11
          [] s = "schedule factory" -> 12
          [] s = "acl" -> 13           [] s = "commit" -> 14
<1>2. \A i, n \in 1..14 : Steps[n] = Steps[i] => n = i
  <2>1. /\ Place("system") = 1 /\ Place("subsystem") = 2
        /\ Place("links") = 3 /\ Place("daemons") = 4
        /\ Place("release") = 5 /\ Place("trust") = 6
        /\ Place("dscp") = 7 /\ Place("cos") = 8
        /\ Place("queue default") = 9 /\ Place("queue factory") = 10
        /\ Place("schedule default") = 11 /\ Place("schedule factory") = 12
        /\ Place("acl") = 13 /\ Place("commit") = 14
    OBVIOUS
  <2> HIDE DEF Place
  <2>2. \A n \in 1..14 : Place(Steps[n]) = n
    <3> TAKE n \in 1..14
    <3>1. \/ n = 1 \/ n = 2 \/ n = 3 \/ n = 4 \/ n = 5 \/ n = 6 \/ n = 7
          \/ n = 8 \/ n = 9 \/ n = 10 \/ n = 11 \/ n = 12 \/ n = 13 \/ n = 14
      OBVIOUS
    <3> QED
      BY <2>1, <3>1, StepsAre
  <2> QED
    BY <2>2
<1>3. \A i \in 1..13 : After(Steps[i]) = Steps[i + 1]
  BY <1>2, AfterNth
<1>4. /\ After(Steps[1]) = Steps[2] /\ After(Steps[2]) = Steps[3]
      /\ After(Steps[3]) = Steps[4] /\ After(Steps[4]) = Steps[5]
      /\ After(Steps[5]) = Steps[6] /\ After(Steps[6]) = Steps[7]
      /\ After(Steps[7]) = Steps[8] /\ After(Steps[8]) = Steps[9]
      /\ After(Steps[9]) = Steps[10] /\ After(Steps[10]) = Steps[11]
      /\ After(Steps[11]) = Steps[12] /\ After(Steps[12]) = Steps[13]
      /\ After(Steps[13]) = Steps[14]
  BY <1>3
<1> QED
  BY <1>4, StepsAre

(* What no step changes.                                                   *)
LEMMA InputKept ==
  ASSUME TypeInv, [Next]_vars
  PROVE  cfg' = cfg
BY DEF Next, vars, AddSystem, AddSystemFault, AddSubsystem, NoSubsystem,
       LinkPorts, LinkPortsFault, AddDaemons, NoDaemons, ReadRelease,
       WriteRelease, InitTrust, InitMaps, InitMap, InitMapFault, SkipProfiles,
       BeginProfile, AddEntry, UseDefault, MarkFactory, AclLimits, AclFault,
       Commit, CommitFails, ReplaceImage, BeginPass, PassSurvives, PassFault,
       ShowSystem

-----------------------------------------------------------------------------
(* The rows.                                                               *)

(* A step that leaves the rows alone, and does not come past one it has    *)
(* not made.                                                               *)
LEMMA RowsKept ==
  ASSUME RowsInv, cfg' = cfg,
         UNCHANGED <<system, interfaces, maps, short>>,
         pc' \in Unlisted \union {"links"} => pc' = pc,
         pc' \in PastSystem => pc \in PastSystem,
         pc' \in PastSubsystem => pc \in PastSubsystem,
         pc' \in PastLinks => pc \in PastLinks,
         pc' \in PastDaemons => pc \in PastDaemons,
         pc' \in PastRelease => pc \in PastRelease,
         pc' \in PastTrust => pc \in PastTrust,
         pc' \in PastDscp => pc \in PastDscp,
         pc' \in PastCos => pc \in PastCos,
         pc' \in PastAcl => pc \in PastAcl
  PROVE  RowsInv'
<1>1. SplitLinks(cfg)' = SplitLinks(cfg)
  BY DEF SplitLinks, Named, Splittable, Ports
<1>2. /\ MapRows(cfg.dscp, DscpRows)' = MapRows(cfg.dscp, DscpRows)
      /\ MapRows(cfg.cos, CosRows)' = MapRows(cfg.cos, CosRows)
  BY DEF MapRows
<1> QED
  BY <1>1, <1>2 DEF RowsInv

LEMMA RowsStep ==
  ASSUME TypeInv, RowsInv, [Next]_vars
  PROVE  RowsInv'
<1> USE DEF PastAcl, PastProfiles, PastDefaultSchedule, PastQueues,
            PastDefaultQueue, PastCos, PastDscp, PastTrust, PastRelease,
            PastDaemons, PastLinks, PastSubsystem, PastSystem, Over, Unlisted
<1>1. cfg' = cfg
  BY InputKept
<1>2. SplitLinks(cfg)' = SplitLinks(cfg)
  BY <1>1 DEF SplitLinks, Named, Splittable, Ports
<1>3. /\ MapRows(cfg.dscp, DscpRows)' = MapRows(cfg.dscp, DscpRows)
      /\ MapRows(cfg.cos, CosRows)' = MapRows(cfg.cos, CosRows)
  BY <1>1 DEF MapRows
<1>4. CASE CommitFails
  BY <1>4 DEF CommitFails, RowsInv
<1>5. CASE NoDaemons
  BY <1>5 DEF NoDaemons, NoMemory, RowsInv
<1>6. CASE NoSubsystem
  <2>1. /\ pc = "subsystem" /\ short = {} /\ interfaces' = interfaces
        /\ maps' = maps
    BY <1>6 DEF NoSubsystem, RowsInv
  <2>2. interfaces = NoRows
    BY <2>1 DEF RowsInv
  <2>3. \/ pc' = "commit" /\ short' = {"subsystems"}
        \/ /\ pc' = "daemons" /\ short' = {"interfaces"}
           /\ system' = system \union {"subsystems"}
    BY <1>6, <2>1 DEF NoSubsystem, NoMemory
  <2>4. CASE pc' = "commit" /\ short' = {"subsystems"}
    BY <2>4 DEF RowsInv
  <2>5. CASE /\ pc' = "daemons" /\ short' = {"interfaces"}
             /\ system' = system \union {"subsystems"}
    BY <2>1, <2>2, <2>5 DEF RowsInv
  <2> QED
    BY <2>3, <2>4, <2>5
<1>7. SUFFICES ASSUME ~CommitFails, ~NoDaemons, ~NoSubsystem
               PROVE  RowsInv'
  BY <1>4, <1>5, <1>6
<1>8. CASE UNCHANGED vars
  BY <1>1, <1>8, RowsKept DEF vars, txn
<1>9. CASE AddSystem
  BY <1>1, <1>2, <1>3, <1>9, AfterIs DEF AddSystem, Step, DefaultRows, RowsInv
<1>10. CASE AddSubsystem
  BY <1>1, <1>2, <1>3, <1>10, AfterIs DEF AddSubsystem, Step, RowsInv
<1>11. CASE LinkPorts
  BY <1>1, <1>2, <1>3, <1>11, AfterIs DEF LinkPorts, Step, RowsInv
<1>12. CASE AddDaemons
  BY <1>1, <1>2, <1>3, <1>12, AfterIs DEF AddDaemons, Step, RowsInv
<1>13. CASE WriteRelease
  BY <1>1, <1>2, <1>3, <1>13, AfterIs DEF WriteRelease, Step, RowsInv
<1>14. CASE InitTrust
  BY <1>1, <1>2, <1>3, <1>14, AfterIs DEF InitTrust, Step, RowsInv
<1>15. CASE AclLimits
  BY <1>1, <1>2, <1>3, <1>15, AfterIs DEF AclLimits, Step, RowsInv
<1>16. CASE InitMaps
  <2>0. DOMAIN maps = {"cos", "dscp"}
    BY DEF TypeInv
  <2>1. CASE InitMap("dscp", cfg.dscp, DscpRows)
    <3>1. /\ pc = "dscp" /\ pc' = "cos" /\ interfaces' = interfaces
          /\ short' = short
          /\ system \subseteq system'
          /\ cfg.dscp # <<>> =>
                /\ "dscp" \in system'
                /\ maps'["dscp"] = MapRows(cfg.dscp, DscpRows)
      BY <2>0, <2>1, AfterIs DEF InitMap, Step
    <3> QED
      BY <1>1, <1>2, <1>3, <3>1 DEF RowsInv
  <2>2. CASE InitMap("cos", cfg.cos, CosRows)
    <3>1. /\ pc = "cos" /\ pc' = "queue default" /\ interfaces' = interfaces
          /\ short' = short
          /\ system \subseteq system'
          /\ maps'["dscp"] = maps["dscp"]
          /\ cfg.cos # <<>> =>
                /\ "cos" \in system'
                /\ maps'["cos"] = MapRows(cfg.cos, CosRows)
      BY <2>0, <2>2, AfterIs DEF InitMap, Step
    <3> QED
      BY <1>1, <1>2, <1>3, <3>1 DEF RowsInv
  <2>3. CASE \/ InitMapFault("dscp", cfg.dscp, DscpRows)
             \/ InitMapFault("cos", cfg.cos, CosRows)
    BY <1>1, <2>3, RowsKept DEF InitMapFault, txn
  <2> QED
    BY <1>16, <2>1, <2>2, <2>3 DEF InitMaps
<1>17. CASE AddSystemFault \/ LinkPortsFault \/ AclFault
  BY <1>1, <1>17, RowsKept DEF AddSystemFault, LinkPortsFault, AclFault, txn
<1>18. CASE ReadRelease \/ BeginProfile \/ AddEntry \/ ReplaceImage
            \/ ShowSystem
  BY <1>1, <1>18, RowsKept
  DEF ReadRelease, BeginProfile, AddEntry, ReplaceImage, ShowSystem, txn
<1>19. CASE SkipProfiles
  BY <1>1, <1>19, RowsKept, AfterIs DEF SkipProfiles, txn
<1>20. CASE UseDefault \/ MarkFactory
  BY <1>1, <1>20, RowsKept, AfterIs
  DEF UseDefault, MarkFactory, IsDefault, ProfileSteps
<1>21. CASE Commit \/ BeginPass \/ PassSurvives \/ PassFault
  BY <1>1, <1>21, RowsKept
  DEF Commit, BeginPass, PassSurvives, PassFault, txn
<1> QED
  BY <1>7, <1>8, <1>9, <1>10, <1>11, <1>12, <1>13, <1>14, <1>15, <1>16,
     <1>17, <1>18, <1>19, <1>20, <1>21 DEF Next
-----------------------------------------------------------------------------
(* One entry of a profile.                                                 *)

LEMMA LastIs ==
  ASSUME NEW S, S \subseteq Int, NEW j \in S, \A m \in S : m <= j
  PROVE  LastOf(S) = j
<1>1. \E n \in S : \A m \in S : m <= n
  OBVIOUS
<1> DEFINE l == LastOf(S)
<1>2. l \in S /\ \A m \in S : m <= l
  BY <1>1, Zenon DEF LastOf
<1> HIDE DEF l
<1>3. l = j
  BY <1>2
<1> QED
  BY <1>3 DEF l

(* A further entry of a queue profile: its priority joins the queue's, its *)
(* text, if it has one, takes the place of the queue's.                    *)
LEMMA QueueEntry ==
  ASSUME NEW es, NEW rows, NEW j \in 1..Len(es), Len(es) \in Nat,
         NEW again \in BOOLEAN, QueuesSoFar(es, rows, j, again)
  PROVE  QueuesSoFar(es, Put(rows, es[j].queue, QueueRow(rows, es[j])), j + 1,
                     again)
<1> DEFINE e == es[j]
           new == QueueRow(rows, e)
           rows2 == Put(rows, e.queue, new)
           Mine(q, i) == {n \in EntriesOf(es, q) : again \/ n < i}
           Worded(q, i) == {n \in Mine(q, i) : es[n].text # NoText}
           Recent(q, i) == {n \in Worded(q, i) : n < i}
<1>1. /\ DOMAIN rows2 = DOMAIN rows \union {e.queue}
      /\ rows2[e.queue] = new
      /\ \A q \in DOMAIN rows \ {e.queue} : rows2[q] = rows[q]
  <2> HIDE DEF e, new
  <2> QED
    BY DEF Put
<1>2. DOMAIN rows2 = {es[n].queue : n \in {m \in 1..Len(es) : again \/ m < j + 1}}
  BY <1>1 DEF QueuesSoFar
<1>3. \A q : q # e.queue => /\ Mine(q, j + 1) = Mine(q, j)
                            /\ Worded(q, j + 1) = Worded(q, j)
                            /\ Recent(q, j + 1) = Recent(q, j)
  BY DEF EntriesOf
<1>4. ASSUME NEW q \in DOMAIN rows2, q # e.queue
      PROVE  QueueSoFar(es, rows2[q], q, j + 1, again)
  <2>1. q \in DOMAIN rows /\ rows2[q] = rows[q]
    BY <1>1, <1>4
  <2>2. QueueSoFar(es, rows[q], q, j, again)
    BY <2>1 DEF QueuesSoFar
  <2> QED
    BY <1>3, <1>4, <2>1, <2>2 DEF QueueSoFar
<1>5. QueueSoFar(es, new, e.queue, j + 1, again)
  <2> DEFINE q == e.queue
             old == IF q \in DOMAIN rows THEN rows[q] ELSE NewQueue
  <2>1. j \in EntriesOf(es, q) /\ EntriesOf(es, q) \subseteq 1..Len(es)
    BY DEF EntriesOf
  <2>2. /\ Mine(q, j + 1) = Mine(q, j) \union {j}
        /\ e.text # NoText => /\ Worded(q, j + 1) = Worded(q, j) \union {j}
                              /\ j \in Recent(q, j + 1)
                              /\ Recent(q, j + 1) \subseteq 1..j
        /\ e.text = NoText => /\ Worded(q, j + 1) = Worded(q, j)
                              /\ Recent(q, j + 1) = Recent(q, j)
    BY <2>1
  <2>3. q \notin DOMAIN rows => /\ Mine(q, j) = {}
                                /\ Worded(q, j) = {} /\ Recent(q, j) = {}
    BY DEF QueuesSoFar, EntriesOf
  <2>4. QueueSoFar(es, old, q, j, again)
    <3>1. CASE q \in DOMAIN rows
      BY <3>1 DEF QueuesSoFar
    <3>2. CASE q \notin DOMAIN rows
      <4>1. old = NewQueue
        BY <3>2
      <4> QED
        BY <3>2, <2>3, <4>1 DEF QueueSoFar, NewQueue
    <3> QED
      BY <3>1, <3>2
  <2>5. /\ DOMAIN old = {"prios", "text", "hwDefault"}
        /\ old.prios = {es[n].prio : n \in Mine(q, j)}
        /\ Recent(q, j) # {} => old.text = es[LastOf(Recent(q, j))].text
        /\ Recent(q, j) = {} /\ Worded(q, j) # {} =>
              old.text = es[LastOf(Worded(q, j))].text
        /\ Worded(q, j) = {} => old.text = NoText
    BY <2>4 DEF QueueSoFar
  <2>6. new = [old EXCEPT !.prios = @ \union {e.prio},
                          !.text = IF e.text = NoText THEN @ ELSE e.text]
    BY DEF QueueRow
  <2> HIDE DEF old, new
  <2>7. /\ DOMAIN new = {"prios", "text", "hwDefault"}
        /\ new.prios = old.prios \union {e.prio}
        /\ new.text = IF e.text = NoText THEN old.text ELSE e.text
    BY <2>5, <2>6
  <2>8. new.prios = {es[n].prio : n \in Mine(q, j + 1)}
    BY <2>2, <2>5, <2>7
  <2>9. e.text # NoText => LastOf(Recent(q, j + 1)) = j
    <3> HAVE e.text # NoText
    <3>1. Recent(q, j + 1) \subseteq Int /\ \A m \in Recent(q, j + 1) : m <= j
      BY <2>2
    <3> QED
      BY <2>2, <3>1, LastIs
  <2> HIDE DEF Mine
  <2>10. /\ Recent(q, j + 1) # {} => new.text = es[LastOf(Recent(q, j + 1))].text
         /\ Recent(q, j + 1) = {} /\ Worded(q, j + 1) # {} =>
               new.text = es[LastOf(Worded(q, j + 1))].text
         /\ Worded(q, j + 1) = {} => new.text = NoText
    <3> HIDE DEF Texts, Recent
    <3> QED
      BY <2>2, <2>5, <2>7, <2>9
  <2> USE DEF Mine
  <2> QED
    BY <2>7, <2>8, <2>10 DEF QueueSoFar
<1> QED
  BY <1>1, <1>2, <1>4, <1>5 DEF QueuesSoFar

(* A further entry of a schedule profile: what its queue's row said is     *)
(* replaced.                                                               *)
LEMMA ScheduleEntry ==
  ASSUME NEW es, NEW rows, NEW j \in 1..Len(es), Len(es) \in Nat,
         SchedulesSoFar(es, rows, j)
  PROVE  SchedulesSoFar(es, Put(rows, es[j].queue, ScheduleRow(rows, es[j])),
                        j + 1)
<1> DEFINE e == es[j]
           new == ScheduleRow(rows, e)
           rows2 == Put(rows, e.queue, new)
           Mine(q, i) == {n \in EntriesOf(es, q) : n < i}
<1>1. /\ DOMAIN rows2 = DOMAIN rows \union {e.queue}
      /\ rows2[e.queue] = new
      /\ \A q \in DOMAIN rows \ {e.queue} : rows2[q] = rows[q]
  <2> HIDE DEF e, new
  <2> QED
    BY DEF Put
<1>2. DOMAIN rows2 = {es[n].queue : n \in {m \in 1..Len(es) : m < j + 1}}
  BY <1>1 DEF SchedulesSoFar
<1>3. ASSUME NEW q \in DOMAIN rows2, q # e.queue
      PROVE  ScheduleSoFar(es, rows2[q], q, j + 1)
  <2>1. q \in DOMAIN rows /\ rows2[q] = rows[q]
    BY <1>1, <1>3
  <2>2. Mine(q, j + 1) = Mine(q, j)
    BY <1>3 DEF EntriesOf
  <2>3. ScheduleSoFar(es, rows[q], q, j)
    BY <2>1 DEF SchedulesSoFar
  <2> QED
    BY <2>1, <2>2, <2>3 DEF ScheduleSoFar
<1>4. ScheduleSoFar(es, new, e.queue, j + 1)
  <2>1. j \in Mine(e.queue, j + 1) /\ Mine(e.queue, j + 1) \subseteq 1..j
    BY DEF EntriesOf
  <2>2. LastOf(Mine(e.queue, j + 1)) = j
    <3>1. Mine(e.queue, j + 1) \subseteq Int
          /\ \A m \in Mine(e.queue, j + 1) : m <= j
      BY <2>1
    <3> QED
      BY <2>1, <3>1, LastIs
  <2>3. e.queue \in DOMAIN rows =>
            DOMAIN rows[e.queue] = {"algorithm", "weight", "hwDefault"}
    BY DEF SchedulesSoFar, ScheduleSoFar
  <2>4. /\ DOMAIN new = {"algorithm", "weight", "hwDefault"}
        /\ new.algorithm = e.algorithm
        /\ new.weight = IF e.algorithm = "strict" THEN {} ELSE {e.weight}
    BY <2>3 DEF ScheduleRow
  <2> QED
    BY <2>2, <2>4 DEF ScheduleSoFar
<1> QED
  BY <1>1, <1>2, <1>3, <1>4 DEF SchedulesSoFar

-----------------------------------------------------------------------------
(* One profile.                                                            *)

(* A profile that has been created has what is said before the first entry.*)
LEMMA BuiltFresh ==
  ASSUME NEW kind, NEW es, NEW p, NEW again, kind = "queue" => again = FALSE,
         DOMAIN p = {"hwDefault", "rows"}, p.hwDefault = FALSE, p.rows = <<>>,
         Len(es) \in Nat
  PROVE  Built(kind, es, p, 1, again, FALSE)
<1>1. DOMAIN p.rows = {}
  OBVIOUS
<1>2. {es[n].queue : n \in {m \in 1..Len(es) : m < 1}} = {}
  OBVIOUS
<1>3. kind = "queue" => QueuesSoFar(es, p.rows, 1, again)
  BY <1>1, <1>2 DEF QueuesSoFar
<1>4. SchedulesSoFar(es, p.rows, 1)
  BY <1>1, <1>2 DEF SchedulesSoFar
<1> QED
  BY <1>1, <1>3, <1>4 DEF Built

(* After the last entry it does not matter whether they were read before.  *)
LEMMA SoFarAll ==
  ASSUME NEW es, NEW rows, NEW again \in BOOLEAN, Len(es) \in Nat
  PROVE  /\ QueuesSoFar(es, rows, Len(es) + 1, again) =>
                QueuesSoFar(es, rows, Len(es) + 1, FALSE)
         /\ QueuesSoFar(es, rows, Len(es) + 1, FALSE) =>
                QueuesSoFar(es, rows, 1, TRUE)
<1> DEFINE n == Len(es) + 1
           Index(i, b) == {m \in 1..Len(es) : b \/ m < i}
           Mine(q, i, b) == {m \in EntriesOf(es, q) : b \/ m < i}
           Worded(q, i, b) == {m \in Mine(q, i, b) : es[m].text # NoText}
           Recent(q, i, b) == {m \in Worded(q, i, b) : m < i}
<1>1. /\ Index(n, again) = Index(n, FALSE)
      /\ Index(1, TRUE) = Index(n, FALSE)
  OBVIOUS
<1>2. ASSUME NEW q
      PROVE  /\ Mine(q, n, again) = Mine(q, n, FALSE)
             /\ Mine(q, 1, TRUE) = Mine(q, n, FALSE)
  BY DEF EntriesOf
<1>3. ASSUME NEW q
      PROVE  /\ Worded(q, n, again) = Worded(q, n, FALSE)
             /\ Worded(q, 1, TRUE) = Worded(q, n, FALSE)
  BY <1>2
<1>4. ASSUME NEW q
      PROVE  /\ Recent(q, n, again) = Worded(q, n, FALSE)
             /\ Recent(q, n, FALSE) = Worded(q, n, FALSE)
             /\ Recent(q, 1, TRUE) = {}
  BY DEF EntriesOf
<1>5. ASSUME NEW row, NEW q
      PROVE  /\ QueueSoFar(es, row, q, n, again) => QueueSoFar(es, row, q, n, FALSE)
             /\ QueueSoFar(es, row, q, n, FALSE) => QueueSoFar(es, row, q, 1, TRUE)
  <2> DEFINE Says(mine, texts, recent) ==
                 /\ DOMAIN row = {"prios", "text", "hwDefault"}
                 /\ row.prios = {es[m].prio : m \in mine}
                 /\ recent # {} => row.text = es[LastOf(recent)].text
                 /\ recent = {} /\ texts # {} => row.text = es[LastOf(texts)].text
                 /\ texts = {} => row.text = NoText
             mine1 == Mine(q, n, FALSE)
             texts1 == Worded(q, n, FALSE)
  <2>1. /\ QueueSoFar(es, row, q, n, again) <=>
              Says(Mine(q, n, again), Worded(q, n, again), Recent(q, n, again))
        /\ QueueSoFar(es, row, q, n, FALSE) <=>
              Says(Mine(q, n, FALSE), Worded(q, n, FALSE), Recent(q, n, FALSE))
        /\ QueueSoFar(es, row, q, 1, TRUE) <=>
              Says(Mine(q, 1, TRUE), Worded(q, 1, TRUE), Recent(q, 1, TRUE))
    BY DEF QueueSoFar
  <2>2. /\ QueueSoFar(es, row, q, n, again) <=> Says(mine1, texts1, texts1)
        /\ QueueSoFar(es, row, q, n, FALSE) <=> Says(mine1, texts1, texts1)
        /\ QueueSoFar(es, row, q, 1, TRUE) <=> Says(mine1, texts1, {})
    <3> HIDE DEF Mine, Texts, Recent, Says
    <3> QED
      BY <1>2, <1>3, <1>4, <2>1
  <2> HIDE DEF mine1, texts1
  <2> QED
    BY <2>2
<1> HIDE DEF n
<1>6. \A i, b : QueuesSoFar(es, rows, i, b) <=>
         /\ DOMAIN rows = {es[m].queue : m \in Index(i, b)}
         /\ \A q \in DOMAIN rows : QueueSoFar(es, rows[q], q, i, b)
  BY DEF QueuesSoFar
<1> HIDE DEF Index
<1>7. /\ QueuesSoFar(es, rows, n, again) => QueuesSoFar(es, rows, n, FALSE)
      /\ QueuesSoFar(es, rows, n, FALSE) => QueuesSoFar(es, rows, 1, TRUE)
  BY <1>1, <1>5, <1>6
<1> QED
  BY <1>7 DEF n

(* The row of an entry, in either kind of profile.                         *)
RowOf(kind, rows, e) ==
    IF kind = "queue" THEN QueueRow(rows, e) ELSE ScheduleRow(rows, e)

WithEntry(kind, p, e) ==
    [p EXCEPT !.rows = Put(p.rows, e.queue, RowOf(kind, p.rows, e))]

LEMMA BuiltEntry ==
  ASSUME NEW kind \in Kinds, NEW es, NEW p, NEW j \in 1..Len(es),
         Len(es) \in Nat, NEW again \in BOOLEAN,
         Built(kind, es, p, j, again, FALSE)
  PROVE  Built(kind, es, WithEntry(kind, p, es[j]), j + 1, again, FALSE)
<1> DEFINE e == es[j]
           rows == p.rows
           new == RowOf(kind, rows, e)
           rows2 == Put(rows, e.queue, new)
           p2 == [p EXCEPT !.rows = rows2]
<1>1. DOMAIN p2 = {"hwDefault", "rows"} /\ p2.hwDefault = FALSE /\ p2.rows = rows2
  <2> HIDE DEF rows2
  <2> QED
    BY DEF Built
<1>2. new.hwDefault = FALSE
  <2>1. CASE kind = "queue"
    <3>1. e.queue \in DOMAIN rows =>
              DOMAIN rows[e.queue] = {"prios", "text", "hwDefault"}
      BY <2>1 DEF Built, QueuesSoFar, QueueSoFar
    <3> QED
      BY <2>1, <3>1 DEF Built, RowOf, QueueRow, NewQueue
  <2>2. CASE kind = "schedule"
    <3>1. e.queue \in DOMAIN rows =>
              DOMAIN rows[e.queue] = {"algorithm", "weight", "hwDefault"}
      BY <2>2 DEF Built, SchedulesSoFar, ScheduleSoFar
    <3> QED
      BY <2>2, <3>1 DEF Built, RowOf, ScheduleRow
  <2> QED
    BY <2>1, <2>2 DEF Kinds
<1>3. \A q \in DOMAIN rows2 : rows2[q].hwDefault = FALSE
  <2>1. \A q \in DOMAIN rows : rows[q].hwDefault = FALSE
    BY DEF Built
  <2> HIDE DEF new, e, rows
  <2> QED
    BY <1>2, <2>1 DEF Put
<1>4. kind = "queue" => QueuesSoFar(es, rows2, j + 1, again)
  BY QueueEntry DEF Built, RowOf
<1>5. kind = "schedule" => SchedulesSoFar(es, rows2, j + 1)
  BY ScheduleEntry DEF Built, RowOf
<1> HIDE DEF p2, rows2
<1>6. Built(kind, es, p2, j + 1, again, FALSE)
  BY <1>1, <1>3, <1>4, <1>5 DEF Built
<1> QED
  BY <1>6 DEF p2, rows2, WithEntry

(* The factory default profile.                                            *)
Marked(p) ==
    [hwDefault |-> TRUE,
     rows |-> [q \in DOMAIN p.rows |-> [p.rows[q] EXCEPT !.hwDefault = TRUE]]]

LEMMA BuiltMarked ==
  ASSUME NEW kind \in Kinds, NEW es, NEW p, NEW again \in BOOLEAN,
         Len(es) \in Nat, Built(kind, es, p, Len(es) + 1, again, FALSE)
  PROVE  Finished(kind, es, Marked(p), TRUE)
<1> DEFINE old == p.rows
           rows == Marked(p).rows
           n == Len(es) + 1
<1>1. /\ DOMAIN Marked(p) = {"hwDefault", "rows"} /\ Marked(p).hwDefault = TRUE
      /\ DOMAIN rows = DOMAIN old
      /\ \A q \in DOMAIN rows : rows[q] = [old[q] EXCEPT !.hwDefault = TRUE]
  BY DEF Marked
<1> HIDE DEF rows
<1>2. CASE kind = "queue"
  <2>1. QueuesSoFar(es, old, n, FALSE)
    BY <1>2, SoFarAll DEF Built
  <2>2. ASSUME NEW q \in DOMAIN rows
        PROVE  QueueSoFar(es, rows[q], q, n, FALSE) /\ rows[q].hwDefault = TRUE
    <3>1. QueueSoFar(es, old[q], q, n, FALSE)
      BY <1>1, <2>1 DEF QueuesSoFar
    <3>2. DOMAIN old[q] = {"prios", "text", "hwDefault"}
      BY <3>1 DEF QueueSoFar
    <3>3. /\ DOMAIN rows[q] = {"prios", "text", "hwDefault"}
          /\ rows[q].prios = old[q].prios /\ rows[q].text = old[q].text
          /\ rows[q].hwDefault = TRUE
      BY <1>1, <3>2
    <3> QED
      BY <3>1, <3>3 DEF QueueSoFar
  <2>3. QueuesSoFar(es, rows, n, FALSE)
    BY <1>1, <2>1, <2>2 DEF QueuesSoFar
  <2> QED
    BY <1>1, <1>2, <2>2, <2>3 DEF Finished, Built, rows
<1>3. CASE kind = "schedule"
  <2>1. SchedulesSoFar(es, old, n)
    BY <1>3 DEF Built
  <2>2. ASSUME NEW q \in DOMAIN rows
        PROVE  ScheduleSoFar(es, rows[q], q, n) /\ rows[q].hwDefault = TRUE
    <3>1. ScheduleSoFar(es, old[q], q, n)
      BY <1>1, <2>1 DEF SchedulesSoFar
    <3>2. DOMAIN old[q] = {"algorithm", "weight", "hwDefault"}
      BY <3>1 DEF ScheduleSoFar
    <3>3. /\ DOMAIN rows[q] = {"algorithm", "weight", "hwDefault"}
          /\ rows[q].algorithm = old[q].algorithm /\ rows[q].weight = old[q].weight
          /\ rows[q].hwDefault = TRUE
      BY <1>1, <3>2
    <3> QED
      BY <3>1, <3>3 DEF ScheduleSoFar
  <2>3. SchedulesSoFar(es, rows, n)
    BY <1>1, <2>1, <2>2 DEF SchedulesSoFar
  <2> QED
    BY <1>1, <1>3, <2>2, <2>3 DEF Finished, Built, rows
<1> QED
  BY <1>2, <1>3 DEF Kinds

-----------------------------------------------------------------------------
(* The simple variables.                                                   *)

LEMMA InputLengths ==
  ASSUME NEW c \in Inputs
  PROVE  /\ Len(c.queues) \in Nat /\ Len(c.schedule) \in Nat
         /\ Len(c.cos) \in Nat /\ Len(c.dscp) \in Nat
         /\ Len(c.ports) \in Nat /\ Len(c.images) \in Nat \ {0}
         /\ c.shows \in Nat
<1>1. /\ IsSequence(c.queues) /\ IsSequence(c.schedule)
      /\ IsSequence(c.cos) /\ IsSequence(c.dscp)
      /\ IsSequence(c.ports) /\ IsSequence(c.images) /\ c.images # <<>>
      /\ c.shows \in Nat
  BY InputAssumption
<1>2. \A s : IsSequence(s) => Len(s) \in Nat /\ (s # <<>> => Len(s) # 0)
  <2> TAKE s
  <2> DEFINE S == ToSet(s)
  <2> HAVE IsSequence(s)
  <2>1. s \in Seq(S)
    BY DEF IsSequence
  <2> HIDE DEF S
  <2> QED
    BY <2>1
<1> QED
  BY <1>1, <1>2

LEMMA PlaceStep ==
  ASSUME TypeInv, PlaceInv, [Next]_vars
  PROVE  PlaceInv'
<1>1. cfg' = cfg /\ cfg \in Inputs
  BY InputKept DEF TypeInv
<1>2. Len(cfg.queues) \in Nat /\ Len(cfg.schedule) \in Nat
  BY <1>1, InputLengths
<1>3. Len(Entries) \in Nat /\ Len(Entries') \in Nat
  BY <1>1, <1>2 DEF Entries
<1>4. pc' = pc => Entries' = Entries
  BY <1>1 DEF Entries, KindOf
<1>5. CASE k' = 0
  BY <1>3, <1>5 DEF PlaceInv
<1>6. CASE BeginProfile \/ AddEntry
  <2>1. /\ pc' = pc /\ pc \in ProfileSteps /\ cfg.qosInfo
        /\ k' \in 1..(Len(Entries) + 1)
    BY <1>3, <1>6 DEF BeginProfile, AddEntry, PlaceInv
  <2> QED
    BY <1>1, <1>3, <1>4, <2>1 DEF PlaceInv
<1>7. CASE pc' = pc /\ k' = k
  BY <1>1, <1>4, <1>7 DEF PlaceInv
<1>8. CASE pc \notin ProfileSteps /\ k' = k
  BY <1>5, <1>8 DEF PlaceInv
<1>9. CASE SkipProfiles
  <2>1. k \in 0..(Len(Entries) + 1) /\ ~(k > 0) /\ k' = k
    BY <1>9 DEF SkipProfiles, PlaceInv, ProfileSteps, txn
  <2> QED
    BY <1>3, <1>5, <2>1
<1>10. k' = 0 \/ BeginProfile \/ SkipProfiles \/ AddEntry
      \/ (pc' = pc /\ k' = k)
      \/ (pc \notin ProfileSteps /\ k' = k)
  BY DEF PlaceInv, ProfileSteps, Step, Next, vars, txn, AddSystem,
       AddSystemFault, AddSubsystem, NoSubsystem,
       LinkPorts, LinkPortsFault, AddDaemons, NoDaemons, ReadRelease,
       WriteRelease, InitTrust, InitMaps, InitMap, InitMapFault,
       UseDefault, MarkFactory, AclLimits, AclFault, Commit, CommitFails,
       ReplaceImage, BeginPass, PassSurvives, PassFault, ShowSystem
<1> QED
  BY <1>5, <1>6, <1>7, <1>8, <1>9, <1>10

LEMMA TypeStep ==
  ASSUME TypeInv, [Next]_vars
  PROVE  TypeInv'
<1>1. cfg' = cfg /\ cfg \in Inputs
  BY InputKept DEF TypeInv
<1>2. pc' \in {"system", "fault"} \union PastSystem
  <2> USE DEF PastAcl, PastProfiles, PastDefaultSchedule, PastQueues,
            PastDefaultQueue, PastCos, PastDscp, PastTrust, PastRelease,
            PastDaemons, PastLinks, PastSubsystem, PastSystem, Over
  <2>1. CASE pc' = pc \/ pc' \in {"fault", "commit", "daemons", "system", "done",
                                  "existing", "nullTxn"}
    BY <2>1 DEF TypeInv
  <2>2. CASE \E s \in {"system", "subsystem", "links", "daemons", "release",
                       "trust", "dscp", "cos", "acl"} \union ProfileSteps :
                  pc' = After(s)
    <3>1. PICK s \in {"system", "subsystem", "links", "daemons", "release",
                      "trust", "dscp", "cos", "acl"} \union ProfileSteps :
                 pc' = After(s)
      BY <2>2
    <3>2. \/ s = "system" \/ s = "subsystem" \/ s = "links" \/ s = "daemons"
          \/ s = "release" \/ s = "trust" \/ s = "dscp" \/ s = "cos"
          \/ s = "acl" \/ s = "queue default" \/ s = "queue factory"
          \/ s = "schedule default" \/ s = "schedule factory"
      BY DEF ProfileSteps
    <3> HIDE DEF PastSystem
    <3>3. After(s) \in {"subsystem", "links", "daemons", "release", "trust",
                        "dscp", "cos", "queue default", "queue factory",
                        "schedule default", "schedule factory", "acl",
                        "commit"}
      BY <3>2, AfterIs
    <3> QED
      BY <3>1, <3>3 DEF PastSystem
  <2>3. CASE SkipProfiles
    BY <2>3, AfterIs DEF SkipProfiles
  <2>4. pc' = pc \/ pc' \in {"fault", "commit", "daemons", "system", "done",
                             "existing", "nullTxn"}
        \/ SkipProfiles
        \/ \E s \in {"system", "subsystem", "links", "daemons", "release",
                     "trust", "dscp", "cos", "acl"} \union ProfileSteps :
                  pc' = After(s)
    BY DEF ProfileSteps, IsDefault, Step, Next, vars, txn, AddSystem,
       AddSystemFault, AddSubsystem, NoSubsystem,
       LinkPorts, LinkPortsFault, AddDaemons, NoDaemons, ReadRelease,
       WriteRelease, InitTrust, InitMaps, InitMap, InitMapFault, BeginProfile,
       AddEntry, UseDefault, MarkFactory, AclLimits, AclFault, Commit,
       CommitFails, ReplaceImage, BeginPass, PassSurvives, PassFault, ShowSystem
  <2> QED
    BY <2>1, <2>2, <2>3, <2>4
<1>3. system' \subseteq Columns
  BY DEF TypeInv, Columns, DefaultRows, Next, vars, txn, AddSystem,
       AddSystemFault, AddSubsystem, NoSubsystem, LinkPorts, LinkPortsFault,
       AddDaemons, NoDaemons, ReadRelease, WriteRelease, InitTrust, InitMaps,
       InitMap, InitMapFault, SkipProfiles, BeginProfile, AddEntry, UseDefault,
       MarkFactory, AclLimits, AclFault, Commit, CommitFails, ReplaceImage,
       BeginPass, PassSurvives, PassFault, ShowSystem
<1>4. DOMAIN maps' = {"cos", "dscp"}
  BY DEF TypeInv, Next, vars, txn, AddSystem,
       AddSystemFault, AddSubsystem, NoSubsystem, LinkPorts, LinkPortsFault,
       AddDaemons, NoDaemons, ReadRelease, WriteRelease, InitTrust, InitMaps,
       InitMap, InitMapFault, SkipProfiles, BeginProfile, AddEntry, UseDefault,
       MarkFactory, AclLimits, AclFault, Commit, CommitFails, ReplaceImage,
       BeginPass, PassSurvives, PassFault, ShowSystem
<1>5. DOMAIN inUse' \subseteq Kinds
  <2>1. CASE UseDefault
    <3> DEFINE name == Name
    <3>1. inUse' = Put(inUse, KindOf(pc), name)
      BY <2>1 DEF UseDefault
    <3> HIDE DEF name
    <3>2. KindOf(pc) \in Kinds
      BY DEF KindOf, Kinds
    <3> QED
      BY <3>1, <3>2 DEF Put, TypeInv
  <2>2. CASE inUse' \in {<<>>, inUse}
    <3>1. DOMAIN <<>> = {}
      OBVIOUS
    <3> QED
      BY <2>2, <3>1 DEF TypeInv
  <2>3. UseDefault \/ inUse' \in {<<>>, inUse}
    BY DEF Next, vars, txn, AddSystem,
       AddSystemFault, AddSubsystem, NoSubsystem, LinkPorts, LinkPortsFault,
       AddDaemons, NoDaemons, ReadRelease, WriteRelease, InitTrust, InitMaps,
       InitMap, InitMapFault, SkipProfiles, BeginProfile, AddEntry,
       MarkFactory, AclLimits, AclFault, Commit, CommitFails, ReplaceImage,
       BeginPass, PassSurvives, PassFault, ShowSystem
  <2> QED
    BY <2>1, <2>2, <2>3
<1>6. short' \subseteq {"subsystems", "interfaces", "daemons"}
  BY DEF TypeInv, NoMemory, Next, vars, txn, AddSystem,
       AddSystemFault, AddSubsystem, NoSubsystem, LinkPorts, LinkPortsFault,
       AddDaemons, NoDaemons, ReadRelease, WriteRelease, InitTrust, InitMaps,
       InitMap, InitMapFault, SkipProfiles, BeginProfile, AddEntry, UseDefault,
       MarkFactory, AclLimits, AclFault, Commit, CommitFails, ReplaceImage,
       BeginPass, PassSurvives, PassFault, ShowSystem
<1>7. image' \in 1..Len(cfg'.images) /\ pass' \in 1..image'
  <2>1. Len(cfg.images) \in Nat
    BY <1>1, InputLengths
  <2>2. image \in 1..Len(cfg.images) /\ pass \in 1..image
    BY DEF TypeInv
  <2>3. \/ image' = image /\ pass' \in {pass, image}
        \/ image < Len(cfg.images) /\ image' = image + 1 /\ pass' = pass
    BY DEF Next, vars, images, AddSystem,
       AddSystemFault, AddSubsystem, NoSubsystem, LinkPorts, LinkPortsFault,
       AddDaemons, NoDaemons, ReadRelease, WriteRelease, InitTrust, InitMaps,
       InitMap, InitMapFault, SkipProfiles, BeginProfile, AddEntry, UseDefault,
       MarkFactory, AclLimits, AclFault, Commit, CommitFails, ReplaceImage,
       BeginPass, PassSurvives, PassFault, ShowSystem
  <2> QED
    BY <1>1, <2>1, <2>2, <2>3
<1>8. used' \in [fails : 0..MaxFails, noMemory : 0..MaxNoMemory,
                 shows : 0..cfg'.shows]
  <2>1. used \in [fails : 0..MaxFails, noMemory : 0..MaxNoMemory,
                  shows : 0..cfg.shows]
    BY DEF TypeInv
  <2>2. MaxFails \in Nat /\ MaxNoMemory \in Nat /\ cfg.shows \in Nat
    BY <1>1, SizeAssumption, InputLengths
  <2>3. \/ used' = used
        \/ /\ used.noMemory < MaxNoMemory
           /\ used' = [used EXCEPT !.noMemory = @ + 1]
        \/ used.fails < MaxFails /\ used' = [used EXCEPT !.fails = @ + 1]
        \/ used.shows < cfg.shows /\ used' = [used EXCEPT !.shows = @ + 1]
    BY DEF NoMemory, Next, vars, AddSystem,
       AddSystemFault, AddSubsystem, NoSubsystem, LinkPorts, LinkPortsFault,
       AddDaemons, NoDaemons, ReadRelease, WriteRelease, InitTrust, InitMaps,
       InitMap, InitMapFault, SkipProfiles, BeginProfile, AddEntry, UseDefault,
       MarkFactory, AclLimits, AclFault, Commit, CommitFails, ReplaceImage,
       BeginPass, PassSurvives, PassFault, ShowSystem
  <2> QED
    BY <1>1, <2>1, <2>2, <2>3
<1> QED
  BY <1>1, <1>2, <1>3, <1>4, <1>5, <1>6, <1>7, <1>8 DEF TypeInv

-----------------------------------------------------------------------------
(* The profiles of one kind.                                               *)

LEMMA KindAlone ==
  ASSUME NEW kind \in Kinds, KindInv(kind), cfg' = cfg,
         profiles'[kind] = profiles[kind],
         \/ /\ pc \notin PastDefault(kind) \union {"fault"}
            /\ pc' \notin PastDefault(kind)
            /\ ~Building(kind) /\ ~Building(kind)'
         \/ /\ pc \in PastFactory(kind)
            /\ pc' \in PastFactory(kind) \union {"fault"}
  PROVE  KindInv(kind)'
<1> USE DEF PastAcl, PastProfiles, PastDefaultSchedule, PastQueues,
            PastDefaultQueue, Over
<1>1. EntriesFor(kind)' = EntriesFor(kind)
  BY DEF EntriesFor
<1>2. PastFactory(kind) \subseteq PastDefault(kind)
      /\ "fault" \notin PastDefault(kind)
  BY DEF PastFactory, PastDefault
<1>3. CASE /\ pc \notin PastDefault(kind) \union {"fault"}
           /\ pc' \notin PastDefault(kind)
           /\ ~Building(kind) /\ ~Building(kind)'
  <2>1. NoneYet(kind) /\ NoneYet(kind)'
    BY <1>3 DEF KindInv, NoneYet
  <2> QED
    BY <1>2, <1>3, <2>1 DEF KindInv, PastDefault, PastFactory
<1>4. CASE /\ pc \in PastFactory(kind)
           /\ pc' \in PastFactory(kind) \union {"fault"}
  <2>1. BothThere(kind)
    BY <1>4 DEF KindInv
  <2>2. BothThere(kind)'
    BY <1>1, <2>1 DEF BothThere
  <2>3. pc' = "fault" => ~Building(kind)'
    BY DEF Building, ProfileSteps
  <2> QED
    BY <1>2, <1>4, <2>2, <2>3 DEF KindInv, PastDefault, PastFactory
<1> QED
  BY <1>3, <1>4

(* What the steps of a profile's own kind work on.                         *)
LEMMA Own ==
  ASSUME TypeInv, DOMAIN profiles = Kinds, pc \in ProfileSteps
  PROVE  LET kind == KindOf(pc)
         IN  /\ kind \in Kinds
             /\ Entries = EntriesFor(kind)
             /\ Len(EntriesFor(kind)) \in Nat
             /\ \A p : WithProfile(p)[kind] = Put(profiles[kind], Name, p)
             /\ IsDefault(pc) => /\ Name = cfg.names.default
                                 /\ pc \notin PastDefault(kind) \union {"fault"}
                                 /\ After(pc) \in PastDefault(kind)
                                                    \ PastFactory(kind)
             /\ ~IsDefault(pc) => /\ Name = cfg.names.factory
                                  /\ pc \in PastDefault(kind) \ PastFactory(kind)
                                  /\ After(pc) \in PastFactory(kind)
             /\ k > 0 <=> Building(kind)
<1> USE DEF PastAcl, PastProfiles, PastDefaultSchedule, PastQueues,
            PastDefaultQueue, Over
<1> DEFINE kind == KindOf(pc)
<1>1. kind \in Kinds /\ Entries = EntriesFor(kind)
  BY DEF KindOf, Kinds, Entries, EntriesFor
<1>2. Len(EntriesFor(kind)) \in Nat
  BY InputLengths DEF TypeInv, EntriesFor
<1>3. \A p : WithProfile(p)[kind] = Put(profiles[kind], Name, p)
  <2> DEFINE name == Name
  <2> HIDE DEF name
  <2>1. \A p : WithProfile(p) = [profiles EXCEPT ![kind] = Put(@, name, p)]
    BY DEF WithProfile, name
  <2> HIDE DEF kind
  <2>2. \A p : WithProfile(p)[kind] = Put(profiles[kind], name, p)
    BY <1>1, <2>1
  <2> QED
    BY <2>2 DEF name
<1>4. \/ pc = "queue default" \/ pc = "queue factory"
      \/ pc = "schedule default" \/ pc = "schedule factory"
  BY DEF ProfileSteps
<1>5. IsDefault(pc) => /\ Name = cfg.names.default
                       /\ pc \notin PastDefault(kind) \union {"fault"}
                       /\ After(pc) \in PastDefault(kind) \ PastFactory(kind)
  BY <1>4, AfterIs DEF IsDefault, Name, KindOf, PastDefault, PastFactory
<1>6. ~IsDefault(pc) => /\ Name = cfg.names.factory
                        /\ pc \in PastDefault(kind) \ PastFactory(kind)
                        /\ After(pc) \in PastFactory(kind)
  BY <1>4, AfterIs DEF IsDefault, Name, KindOf, PastDefault, PastFactory
<1>7. k > 0 <=> Building(kind)
  BY DEF Building
<1> QED
  BY <1>1, <1>2, <1>3, <1>5, <1>6, <1>7

LEMMA BeginStep ==
  ASSUME TypeInv, DOMAIN profiles = Kinds, cfg' = cfg, BeginProfile,
         NEW kind, kind = KindOf(pc), KindInv(kind)
  PROVE  KindInv(kind)'
<1> DEFINE es == EntriesFor(kind)
           default == cfg.names.default
           factory == cfg.names.factory
           there == profiles[kind]
           old == IF Name \in DOMAIN there THEN Profile ELSE EmptyProfile
           p == IF kind = "queue" THEN old ELSE [old EXCEPT !.rows = <<>>]
<1>1. /\ pc \in ProfileSteps /\ pc' = pc /\ k = 0 /\ k' = 1
      /\ profiles' = WithProfile(p)
  BY DEF BeginProfile
<1>2. /\ kind \in Kinds /\ Len(es) \in Nat /\ ~Building(kind)
      /\ profiles'[kind] = Put(there, Name, p)
  BY <1>1, Own
<1>3. es' = es /\ Building(kind)'
  <2>1. es' = es
    BY DEF EntriesFor
  <2>2. KindOf(pc)' = kind
    BY <1>1 DEF KindOf
  <2> QED
    BY <1>1, <2>1, <2>2 DEF Building
<1>4. Profile = there[Name]
  BY DEF Profile
<1>5. old = EmptyProfile =>
          DOMAIN p = {"hwDefault", "rows"} /\ p.hwDefault = FALSE /\ p.rows = <<>>
  BY DEF EmptyProfile
<1>6. old = EmptyProfile => Built(kind, es, p, 1, FALSE, FALSE)
  <2> HIDE DEF p, old, es
  <2> QED
    BY <1>2, <1>5, BuiltFresh
<1>7. CASE IsDefault(pc)
  <2>1. /\ Name = default /\ pc \notin PastDefault(kind) \union {"fault"}
    BY <1>1, <1>7, Own
  <2>2. there = <<>> /\ DOMAIN there = {}
    BY <1>2, <2>1 DEF KindInv, NoneYet
  <2>3. Built(kind, es, p, 1, FALSE, FALSE)
    BY <1>6, <2>2
  <2>4. DOMAIN profiles'[kind] = {default} /\ profiles'[kind][default] = p
    <3> HIDE DEF p, there
    <3> QED
      BY <1>2, <2>1, <2>2 DEF Put
  <2>5. pc' \notin PastDefault(kind) /\ pc' # "fault"
        /\ pc' \notin PastFactory(kind)
    <3>1. PastFactory(kind) \subseteq PastDefault(kind)
      BY DEF PastFactory, PastDefault, PastDefaultQueue, PastQueues,
             PastDefaultSchedule, PastProfiles
    <3> QED
      BY <1>1, <2>1, <3>1
  <2> HIDE DEF p, es
  <2> QED
    BY <1>1, <1>3, <2>3, <2>4, <2>5 DEF KindInv, es
<1>8. CASE ~IsDefault(pc)
  <2>1. /\ Name = factory /\ pc \in PastDefault(kind) \ PastFactory(kind)
    BY <1>1, <1>8, Own
  <2>2. DOMAIN there = {default} /\ Finished(kind, es, there[default], FALSE)
    BY <1>1, <2>1 DEF KindInv
  <2>3. /\ default # factory => Built(kind, es, p, 1, FALSE, FALSE)
        /\ default = factory => Built(kind, es, p, 1, TRUE, FALSE)
    <3>1. CASE default # factory
      BY <1>6, <2>1, <2>2, <3>1
    <3>2. CASE default = factory
      <4>1. old = there[default] /\ Built(kind, es, old, Len(es) + 1, FALSE, FALSE)
        BY <1>4, <2>1, <2>2, <3>2 DEF Finished
      <4>2. CASE kind = "queue"
        <5>1. QueuesSoFar(es, old.rows, Len(es) + 1, FALSE)
          BY <4>1, <4>2 DEF Built
        <5>2. QueuesSoFar(es, old.rows, 1, TRUE)
          BY <1>2, <5>1, SoFarAll
        <5>3. p = old
          BY <4>2
        <5> HIDE DEF p, old, es
        <5> QED
          BY <3>2, <4>1, <4>2, <5>2, <5>3 DEF Built
      <4>3. CASE kind # "queue"
        <5>1. p = [old EXCEPT !.rows = <<>>]
          BY <4>3
        <5> HIDE DEF p, old, es
        <5>2. DOMAIN p = {"hwDefault", "rows"} /\ p.hwDefault = FALSE
              /\ p.rows = <<>>
          BY <4>1, <5>1 DEF Built
        <5> QED
          BY <1>2, <4>3, <5>2, BuiltFresh
      <4> QED
        BY <4>2, <4>3
    <3> QED
      BY <3>1, <3>2
  <2>4. /\ DOMAIN profiles'[kind] = {default} \union {factory}
        /\ profiles'[kind][factory] = p
        /\ default # factory => profiles'[kind][default] = there[default]
    <3> HIDE DEF p, there
    <3> QED
      BY <1>2, <2>1, <2>2 DEF Put
  <2>5. pc' \in PastDefault(kind) \ PastFactory(kind) /\ pc' # "fault"
    <3>1. "fault" \notin PastDefault(kind)
      BY DEF PastDefault, PastDefaultQueue, PastQueues,
             PastDefaultSchedule, PastProfiles, PastAcl, Over
    <3> QED
      BY <1>1, <2>1, <3>1
  <2> HIDE DEF p, es
  <2>6. /\ k' # 0 /\ k' > 0
        /\ DOMAIN profiles[kind]' = {default} \union {factory}
    BY <1>1, <2>4
  <2>7. default # factory =>
          Finished(kind, es, profiles[kind]'[default], FALSE)
    BY <2>2, <2>4
  <2>8. default # factory => Built(kind, es, profiles[kind]'[factory], k', FALSE, FALSE)
    BY <1>1, <2>3, <2>4
  <2>9. default = factory => Built(kind, es, profiles[kind]'[factory], k', TRUE, FALSE)
    BY <1>1, <2>3, <2>4
  <2>10. default' = default /\ factory' = factory
    OBVIOUS
  <2> HIDE DEF default, factory
  <2> QED
    BY <1>3, <2>5, <2>6, <2>7, <2>8, <2>9, <2>10 DEF KindInv, es, default, factory
<1> QED
  BY <1>7, <1>8

LEMMA EntryStep ==
  ASSUME TypeInv, DOMAIN profiles = Kinds, cfg' = cfg, AddEntry,
         NEW kind, kind = KindOf(pc), KindInv(kind)
  PROVE  KindInv(kind)'
<1> DEFINE es == EntriesFor(kind)
           default == cfg.names.default
           factory == cfg.names.factory
           there == profiles[kind]
           e == es[k]
           old == there[Name]
           p == WithEntry(kind, old, e)
<1>1. /\ kind \in Kinds /\ pc \in ProfileSteps /\ Entries = es
      /\ Len(es) \in Nat
  BY Own DEF AddEntry
<1>2. /\ pc' = pc /\ k \in 1..Len(es) /\ k' = k + 1
      /\ k > 0 /\ k' # 0 /\ k' > 0 /\ k # 0
  BY <1>1 DEF AddEntry
<1>3. Building(kind) /\ Building(kind)' /\ es' = es
  <2>1. es' = es
    BY DEF EntriesFor
  <2>2. KindOf(pc)' = kind
    BY <1>2 DEF KindOf
  <2> QED
    BY <1>1, <1>2, <2>1, <2>2 DEF Building
<1>4. profiles'[kind] = Put(there, Name, p)
  <2>1. profiles' =
            WithProfile([Profile EXCEPT !.rows = Put(@, e.queue,
                IF KindOf(pc) = "queue" THEN QueueRow(Profile.rows, e)
                ELSE ScheduleRow(Profile.rows, e))])
    BY <1>1 DEF AddEntry
  <2>2. Profile = old
    BY DEF Profile
  <2>3. profiles' = WithProfile(p)
    <3> HIDE DEF e
    <3> QED
      BY <2>1, <2>2 DEF RowOf, WithEntry
  <2> QED
    BY <1>1, <2>3, Own
<1>5. ASSUME NEW again \in BOOLEAN, Built(kind, es, old, k, again, FALSE)
      PROVE  Built(kind, es, p, k', again, FALSE)
  <2> HIDE DEF old, es
  <2>1. Built(kind, es, p, k + 1, again, FALSE)
    BY <1>1, <1>2, <1>5, BuiltEntry
  <2> HIDE DEF p
  <2> QED
    BY <1>2, <2>1
<1>6. default' = default /\ factory' = factory
  OBVIOUS
<1>7. CASE IsDefault(pc)
  <2>1. Name = default /\ pc' \notin PastDefault(kind) \union {"fault"}
    BY <1>1, <1>2, <1>7, Own
  <2>2. DOMAIN there = {default} /\ Built(kind, es, old, k, FALSE, FALSE)
    BY <1>2, <1>3, <2>1 DEF KindInv
  <2>3. Built(kind, es, p, k', FALSE, FALSE)
    BY <1>5, <2>2
  <2>4. DOMAIN profiles'[kind] = {default} /\ profiles'[kind][default] = p
    <3> HIDE DEF p, there
    <3> QED
      BY <1>4, <2>1, <2>2 DEF Put
  <2>5. pc' \notin PastFactory(kind)
    <3>1. PastFactory(kind) \subseteq PastDefault(kind)
      BY DEF PastFactory, PastDefault, PastDefaultQueue, PastQueues,
             PastDefaultSchedule, PastProfiles
    <3> QED
      BY <2>1, <3>1
  <2> HIDE DEF p, es
  <2> QED
    BY <1>3, <2>1, <2>3, <2>4, <2>5 DEF KindInv, es
<1>8. CASE ~IsDefault(pc)
  <2>1. Name = factory /\ pc \in PastDefault(kind) \ PastFactory(kind)
    BY <1>1, <1>8, Own
  <2>2. /\ DOMAIN there = {default} \union {factory}
        /\ default # factory => Finished(kind, es, there[default], FALSE)
        /\ default # factory => Built(kind, es, old, k, FALSE, FALSE)
        /\ default = factory => Built(kind, es, old, k, TRUE, FALSE)
    BY <1>2, <2>1 DEF KindInv
  <2>3. /\ default # factory => Built(kind, es, p, k', FALSE, FALSE)
        /\ default = factory => Built(kind, es, p, k', TRUE, FALSE)
    <3> HIDE DEF p, old, es
    <3> QED
      BY <1>5, <2>2
  <2>4. /\ DOMAIN profiles'[kind] = {default} \union {factory}
        /\ profiles'[kind][factory] = p
        /\ default # factory => profiles'[kind][default] = there[default]
    <3> HIDE DEF p, there
    <3> QED
      BY <1>4, <2>1, <2>2 DEF Put
  <2>5. pc' \in PastDefault(kind) \ PastFactory(kind) /\ pc' # "fault"
    <3>1. "fault" \notin PastDefault(kind)
      BY DEF PastDefault, PastDefaultQueue, PastQueues,
             PastDefaultSchedule, PastProfiles, PastAcl, Over
    <3> QED
      BY <1>2, <2>1, <3>1
  <2> HIDE DEF p, es
  <2>6. default # factory =>
          Finished(kind, es, profiles[kind]'[default], FALSE)
    BY <2>2, <2>4
  <2>7. default # factory => Built(kind, es, profiles[kind]'[factory], k', FALSE, FALSE)
    BY <2>3, <2>4
  <2>8. default = factory => Built(kind, es, profiles[kind]'[factory], k', TRUE, FALSE)
    BY <2>3, <2>4
  <2> HIDE DEF default, factory
  <2> QED
    BY <1>2, <1>3, <1>6, <2>4, <2>5, <2>6, <2>7, <2>8
    DEF KindInv, es, default, factory
<1> QED
  BY <1>7, <1>8

(* The two steps behind the last entry.                                    *)
LEMMA UseStep ==
  ASSUME TypeInv, DOMAIN profiles = Kinds, cfg' = cfg, UseDefault, cfg.qosInfo,
         NEW kind, kind = KindOf(pc), KindInv(kind)
  PROVE  /\ KindInv(kind)'
         /\ kind \in DOMAIN inUse' /\ inUse'[kind] = cfg.names.default
<1> DEFINE es == EntriesFor(kind)
           default == cfg.names.default
<1>1. pc \in ProfileSteps /\ IsDefault(pc)
  BY DEF UseDefault, IsDefault, ProfileSteps
<1>2. /\ kind \in Kinds /\ Entries = es /\ Len(es) \in Nat
      /\ Name = default /\ pc \notin PastDefault(kind) \union {"fault"}
      /\ After(pc) \in PastDefault(kind) \ PastFactory(kind)
  BY <1>1, Own
<1>3. k = Len(es) + 1 /\ k > 0 /\ k' = 0 /\ profiles' = profiles
      /\ pc' \in PastDefault(kind) \ PastFactory(kind)
  BY <1>2 DEF UseDefault
<1>4. /\ DOMAIN profiles'[kind] = {default}
      /\ Finished(kind, es, profiles'[kind][default], FALSE)
  <2>1. Building(kind)
    BY <1>1, <1>3 DEF Building
  <2> QED
    BY <1>2, <1>3, <2>1 DEF KindInv, Finished
<1>5. es' = es /\ pc' # "fault"
  BY <1>3 DEF EntriesFor, PastDefault, PastDefaultQueue, PastQueues,
              PastDefaultSchedule, PastProfiles, PastAcl, Over
<1>6. KindInv(kind)'
  <2>1. k' = 0 /\ ~(k' > 0) /\ DOMAIN profiles[kind]' = {default} \union {}
    BY <1>3, <1>4
  <2>2. default' = default
    OBVIOUS
  <2> HIDE DEF es, default
  <2> QED
    BY <1>3, <1>4, <1>5, <2>1, <2>2 DEF KindInv, es, default
<1>7. inUse' = Put(inUse, kind, default)
  BY <1>2 DEF UseDefault
<1> QED
  BY <1>6, <1>7 DEF Put

LEMMA MarkStep ==
  ASSUME TypeInv, DOMAIN profiles = Kinds, cfg' = cfg, MarkFactory,
         NEW kind, kind = KindOf(pc), KindInv(kind)
  PROVE  KindInv(kind)'
<1> DEFINE es == EntriesFor(kind)
           default == cfg.names.default
           factory == cfg.names.factory
           there == profiles[kind]
           old == there[factory]
<1>1. pc \in ProfileSteps /\ ~IsDefault(pc)
  BY DEF MarkFactory
<1>2. /\ kind \in Kinds /\ Entries = es /\ Len(es) \in Nat
      /\ Name = factory /\ pc \in PastDefault(kind) \ PastFactory(kind)
      /\ After(pc) \in PastFactory(kind)
  BY <1>1, Own
<1>3. k = Len(es) + 1 /\ k > 0 /\ k # 0 /\ pc' \in PastFactory(kind)
  BY <1>2 DEF MarkFactory
<1>4. profiles'[kind] = Put(there, factory, Marked(old))
  <2>1. Profile = old
    BY <1>2 DEF Profile
  <2>2. profiles' = WithProfile(Marked(old))
    BY <2>1 DEF MarkFactory, Marked
  <2> QED
    BY <1>1, <1>2, <2>2, Own
<1>5. /\ DOMAIN there = {default} \union {factory}
      /\ default # factory => Finished(kind, es, there[default], FALSE)
      /\ default # factory => Built(kind, es, old, Len(es) + 1, FALSE, FALSE)
      /\ default = factory => Built(kind, es, old, Len(es) + 1, TRUE, FALSE)
  BY <1>2, <1>3 DEF KindInv
<1>6. Finished(kind, es, Marked(old), TRUE)
  <2>1. PICK again \in BOOLEAN : Built(kind, es, old, Len(es) + 1, again, FALSE)
    BY <1>5, Zenon
  <2> QED
    BY <1>2, <2>1, BuiltMarked
<1>7. /\ DOMAIN profiles'[kind] = {default, factory}
      /\ Finished(kind, es, profiles'[kind][factory], TRUE)
      /\ default # factory => Finished(kind, es, profiles'[kind][default], FALSE)
  <2> DEFINE new == Marked(old)
  <2>0. profiles'[kind] = Put(there, factory, new)
    BY <1>4
  <2> HIDE DEF new, there
  <2>1. /\ DOMAIN profiles'[kind] = {default, factory}
        /\ profiles'[kind][factory] = new
        /\ default # factory => profiles'[kind][default] = there[default]
    BY <2>0, <1>5 DEF Put
  <2>2. Finished(kind, es, new, TRUE)
    BY <1>6 DEF new
  <2>3. /\ Finished(kind, es, profiles'[kind][factory], TRUE)
        /\ default # factory => Finished(kind, es, profiles'[kind][default], FALSE)
    <3> HIDE DEF es, default, factory
    <3> QED
      BY <1>5, <2>1, <2>2
  <2> QED
    BY <2>1, <2>3
<1>8. es' = es
  BY DEF EntriesFor
<1>9. BothThere(kind)'
  <2>1. ASSUME NEW name \in {default, factory}
        PROVE  Finished(kind, es, profiles'[kind][name], name = factory)
    <3>1. CASE name = factory
      <4>1. (name = factory) = TRUE
        BY <3>1
      <4> QED
        BY <1>7, <3>1, <4>1
    <3>2. CASE name # factory
      <4>1. (name = factory) = FALSE /\ name = default /\ default # factory
        BY <3>2
      <4> QED
        BY <1>7, <4>1
    <3> QED
      BY <3>1, <3>2
  <2> HIDE DEF es
  <2> QED
    BY <1>7, <1>8, <2>1 DEF BothThere, es
<1>10. pc' \in PastDefault(kind) /\ pc' # "fault"
  BY <1>3 DEF PastDefault, PastFactory, PastDefaultQueue, PastQueues,
              PastDefaultSchedule, PastProfiles, PastAcl, Over
<1> QED
  BY <1>3, <1>9, <1>10 DEF KindInv

(* Where the steps go that are not about profiles.                         *)
LEMMA StepShape ==
  ASSUME TypeInv, PlaceInv, [Next]_vars, ~CommitFails, cfg.qosInfo, ~Early'
  PROVE  \/ UNCHANGED vars
         \/ BeginProfile \/ AddEntry \/ UseDefault \/ MarkFactory
         \/ /\ UNCHANGED <<profiles, inUse>>
            /\ pc \in {"system", "subsystem", "links", "daemons", "release",
                       "trust", "dscp", "cos"}
            /\ pc' \in {"system", "subsystem", "links", "daemons", "release",
                        "trust", "dscp", "cos", "queue default", "fault"}
         \/ /\ UNCHANGED <<profiles, inUse>>
            /\ pc \in PastProfiles
            /\ pc' \in PastProfiles \union {"fault"}
<1> USE DEF PastProfiles, PastAcl, Over
<1>1. CASE AddSystem \/ AddSystemFault \/ AddSubsystem \/ LinkPorts
           \/ LinkPortsFault \/ AddDaemons \/ WriteRelease \/ InitTrust
  BY <1>1, AfterIs DEF AddSystem, AddSystemFault, AddSubsystem, LinkPorts,
     LinkPortsFault, AddDaemons, WriteRelease, InitTrust, Step, txn
<1>2. CASE NoSubsystem \/ NoDaemons
  BY <1>2 DEF NoSubsystem, NoDaemons, NoMemory, Early
<1>3. CASE InitMaps
  BY <1>3, AfterIs DEF InitMaps, InitMap, InitMapFault, Step, txn
<1>4. CASE AclLimits \/ AclFault \/ Commit \/ ReplaceImage \/ BeginPass
           \/ PassSurvives \/ PassFault
  BY <1>4, AfterIs DEF AclLimits, AclFault, Commit, ReplaceImage, BeginPass,
     PassSurvives, PassFault, Step, txn
<1>5. CASE ReadRelease \/ ShowSystem
  BY <1>5 DEF ReadRelease, ShowSystem, txn
<1>6. ~SkipProfiles
  BY DEF SkipProfiles
<1> QED
  BY <1>1, <1>2, <1>3, <1>4, <1>5, <1>6 DEF Next

LEMMA KindStep ==
  ASSUME TypeInv, PlaceInv, PlaceInv', [Next]_vars, ~CommitFails, cfg.qosInfo,
         ~Early', cfg' = cfg, DOMAIN profiles = Kinds,
         NEW kind \in Kinds, KindInv(kind),
         pc \in PastDefault(kind) =>
             kind \in DOMAIN inUse /\ inUse[kind] = cfg.names.default
  PROVE  /\ KindInv(kind)'
         /\ pc' \in PastDefault(kind) =>
              kind \in DOMAIN inUse' /\ inUse'[kind] = cfg.names.default
<1> USE DEF PastProfiles, PastAcl, Over, PastDefaultSchedule, PastQueues,
            PastDefaultQueue
<1>0. kind = "queue" \/ kind = "schedule"
  BY DEF Kinds
<1>1. CASE UNCHANGED vars
  <2>1. /\ pc' = pc /\ k' = k /\ profiles' = profiles /\ inUse' = inUse
        /\ EntriesFor(kind)' = EntriesFor(kind)
    BY <1>1 DEF vars, txn, EntriesFor
  <2>2. Building(kind)' <=> Building(kind)
    BY <2>1 DEF Building, KindOf
  <2>3. NoneYet(kind)' <=> NoneYet(kind)
    BY <2>1 DEF NoneYet
  <2>4. BothThere(kind)' <=> BothThere(kind)
    BY <2>1 DEF BothThere
  <2>5. KindInv(kind)'
    BY <2>1, <2>2, <2>3, <2>4 DEF KindInv
  <2> QED
    BY <2>1, <2>5
<1>2. CASE /\ UNCHANGED <<profiles, inUse>>
           /\ pc \in {"system", "subsystem", "links", "daemons", "release",
                      "trust", "dscp", "cos"}
           /\ pc' \in {"system", "subsystem", "links", "daemons", "release",
                       "trust", "dscp", "cos", "queue default", "fault"}
  <2>1. pc \notin PastDefault(kind) \union {"fault"} /\ pc' \notin PastDefault(kind)
    BY <1>0, <1>2 DEF PastDefault
  <2>2. ~Building(kind) /\ k = 0
    BY <1>2 DEF Building, ProfileSteps, PlaceInv
  <2>3. k' = 0
    BY <1>2, <2>2 DEF PlaceInv, ProfileSteps, Next, vars, txn, AddSystem,
       AddSystemFault, AddSubsystem, NoSubsystem, LinkPorts, LinkPortsFault,
       AddDaemons, NoDaemons, ReadRelease, WriteRelease, InitTrust, InitMaps,
       InitMap, InitMapFault, SkipProfiles, BeginProfile, AddEntry,
       UseDefault, MarkFactory, AclLimits, AclFault, Commit, CommitFails,
       ReplaceImage, BeginPass, PassSurvives, PassFault, ShowSystem
  <2>4. ~Building(kind)'
    BY <2>3 DEF Building
  <2>5. KindInv(kind)'
    BY <1>2, <2>1, <2>2, <2>4, KindAlone
  <2> QED
    BY <2>1, <2>5
<1>3. CASE /\ UNCHANGED <<profiles, inUse>>
           /\ pc \in PastProfiles
           /\ pc' \in PastProfiles \union {"fault"}
  <2>1. /\ pc \in PastFactory(kind) /\ pc' \in PastFactory(kind) \union {"fault"}
        /\ pc \in PastDefault(kind)
    BY <1>0, <1>3 DEF PastFactory, PastDefault
  <2>2. KindInv(kind)'
    BY <1>3, <2>1, KindAlone
  <2> QED
    BY <1>3, <2>1, <2>2
<1>4. CASE /\ BeginProfile \/ AddEntry \/ UseDefault \/ MarkFactory
           /\ KindOf(pc) # kind
  <2>1. pc \in ProfileSteps
    BY <1>4 DEF BeginProfile, AddEntry, UseDefault, MarkFactory, IsDefault,
                ProfileSteps
  <2>2. profiles'[kind] = profiles[kind]
    <3>1. profiles' = profiles \/ \E p : profiles' = WithProfile(p)
      BY <1>4 DEF BeginProfile, AddEntry, UseDefault, MarkFactory
    <3>2. \A p : WithProfile(p)[kind] = profiles[kind]
      BY <1>4 DEF WithProfile
    <3> QED
      BY <3>1, <3>2
  <2>3. pc' = pc \/ (pc' = After(pc) /\ k' = 0)
    BY <1>4 DEF BeginProfile, AddEntry, UseDefault, MarkFactory
  <2>4. CASE kind = "queue"
    <3>1. pc = "schedule default" \/ pc = "schedule factory"
      BY <1>4, <2>1, <2>4 DEF KindOf, ProfileSteps
    <3>2. pc \in PastFactory(kind) /\ pc' \in PastFactory(kind)
          /\ pc \in PastDefault(kind)
      BY <2>3, <2>4, <3>1, AfterIs DEF PastFactory, PastDefault
    <3>3. KindInv(kind)'
      BY <2>2, <3>2, KindAlone
    <3>4. inUse' = inUse \/ inUse' = Put(inUse, KindOf(pc), Name)
      BY <1>4 DEF BeginProfile, AddEntry, UseDefault, MarkFactory
    <3>5. inUse'[kind] = inUse[kind] /\ kind \in DOMAIN inUse'
      <4> DEFINE name == Name
      <4> HIDE DEF name
      <4>1. inUse' = inUse \/ inUse' = Put(inUse, KindOf(pc), name)
        BY <3>4 DEF name
      <4> QED
        BY <1>4, <3>2, <4>1 DEF Put
    <3> QED
      BY <3>2, <3>3, <3>5
  <2>5. CASE kind = "schedule"
    <3>1. pc = "queue default" \/ pc = "queue factory"
      BY <1>4, <2>1, <2>5 DEF KindOf, ProfileSteps
    <3>2. /\ pc \notin PastDefault(kind) \union {"fault"}
          /\ pc' \notin PastDefault(kind)
      BY <2>3, <2>5, <3>1, AfterIs DEF PastDefault
    <3>3. ~Building(kind)
      BY <1>4 DEF Building
    <3>4. ~Building(kind)'
      <4>1. pc' = pc => KindOf(pc)' = KindOf(pc)
        BY DEF KindOf
      <4> QED
        BY <1>4, <2>3, <4>1 DEF Building
    <3>5. KindInv(kind)'
      BY <2>2, <3>2, <3>3, <3>4, KindAlone
    <3> QED
      BY <3>2, <3>5
  <2> QED
    BY <1>0, <2>4, <2>5
<1>5. CASE BeginProfile /\ KindOf(pc) = kind
  <2>1. KindInv(kind)'
    BY <1>5, BeginStep
  <2> QED
    BY <1>5, <2>1 DEF BeginProfile
<1>6. CASE AddEntry /\ KindOf(pc) = kind
  <2>1. KindInv(kind)'
    BY <1>6, EntryStep
  <2> QED
    BY <1>6, <2>1 DEF AddEntry
<1>7. CASE UseDefault /\ KindOf(pc) = kind
  BY <1>7, UseStep
<1>8. CASE MarkFactory /\ KindOf(pc) = kind
  <2>1. KindInv(kind)'
    BY <1>8, MarkStep
  <2>2. pc \in PastDefault(kind)
    BY <1>8, Own DEF MarkFactory
  <2> QED
    BY <1>8, <2>1, <2>2 DEF MarkFactory
<1> QED
  BY <1>1, <1>2, <1>3, <1>4, <1>5, <1>6, <1>7, <1>8, StepShape

LEMMA ProfilesStep ==
  ASSUME TypeInv, PlaceInv, PlaceInv', ProfilesInv, [Next]_vars
  PROVE  ProfilesInv'
<1> USE DEF PastProfiles, PastAcl, Over
<1>1. cfg' = cfg /\ DOMAIN profiles = Kinds
  BY InputKept DEF ProfilesInv
<1>2. \/ profiles' = profiles /\ inUse' = inUse
      \/ BeginProfile \/ AddEntry \/ UseDefault \/ MarkFactory \/ CommitFails
  BY DEF Next, vars, txn, AddSystem, AddSystemFault, AddSubsystem, NoSubsystem,
     LinkPorts, LinkPortsFault, AddDaemons, NoDaemons, ReadRelease,
     WriteRelease, InitTrust, InitMaps, InitMap, InitMapFault, SkipProfiles,
     AclLimits, AclFault, Commit, ReplaceImage, BeginPass, PassSurvives,
     PassFault, ShowSystem
<1>3. DOMAIN profiles' = Kinds
  BY <1>1, <1>2 DEF BeginProfile, AddEntry, UseDefault, MarkFactory, CommitFails,
                    WithProfile, NoProfiles
<1>4. BeginProfile \/ AddEntry \/ UseDefault \/ MarkFactory =>
          /\ pc \in ProfileSteps /\ short' = short
          /\ ~UseDefault => cfg.qosInfo
  <2>1. Len(Entries) \in Nat
    BY InputLengths DEF TypeInv, Entries
  <2>2. AddEntry \/ MarkFactory => k > 0
    BY <2>1 DEF AddEntry, MarkFactory
  <2>3. /\ k > 0 => cfg.qosInfo
        /\ BeginProfile => cfg.qosInfo
    BY DEF PlaceInv, BeginProfile
  <2>4. BeginProfile \/ AddEntry \/ UseDefault \/ MarkFactory =>
            pc \in ProfileSteps /\ short' = short
    BY DEF BeginProfile, AddEntry, UseDefault, MarkFactory, IsDefault,
           ProfileSteps
  <2> QED
    BY <2>2, <2>3, <2>4
<1>5. CASE CommitFails
  <2>1. /\ pc' = "system" /\ short' = {} /\ k' = 0
        /\ \A kind \in Kinds : profiles'[kind] = <<>>
    BY <1>5 DEF CommitFails, NoProfiles, PlaceInv, ProfileSteps
  <2>2. ~Early'
    BY <2>1 DEF Early
  <2>3. ASSUME NEW kind \in Kinds
        PROVE  /\ KindInv(kind)' /\ NoneYet(kind)'
               /\ pc' \notin PastDefault(kind)
    <3>1. pc' \notin PastDefault(kind) /\ pc' \notin PastFactory(kind)
      BY <2>1 DEF PastDefault, PastFactory, PastDefaultSchedule, PastQueues,
            PastDefaultQueue
    <3>2. ~Building(kind)'
      BY <2>1 DEF Building
    <3> QED
      BY <2>1, <3>1, <3>2 DEF KindInv, NoneYet
  <2> QED
    BY <1>3, <2>2, <2>3 DEF ProfilesInv
<1>6. CASE ~CommitFails
  <2>1. Early => Early'
    BY <1>6 DEF Early, NoMemory, Next, vars, txn, AddSystem, AddSystemFault,
       AddSubsystem, NoSubsystem, LinkPorts, LinkPortsFault, AddDaemons,
       NoDaemons, ReadRelease, WriteRelease, InitTrust, InitMaps, InitMap,
       InitMapFault, SkipProfiles, BeginProfile, AddEntry, UseDefault,
       MarkFactory, AclLimits, AclFault, Commit, ReplaceImage, BeginPass,
       PassSurvives, PassFault, ShowSystem
  <2>2. Early' => \/ Early
                  \/ pc \in {"subsystem", "daemons"} /\ pc' = "commit"
                     /\ profiles' = profiles
    BY <1>6 DEF Early, NoMemory, Next, vars, txn, AddSystem, AddSystemFault,
       AddSubsystem, NoSubsystem, LinkPorts, LinkPortsFault, AddDaemons,
       NoDaemons, ReadRelease, WriteRelease, InitTrust, InitMaps, InitMap,
       InitMapFault, SkipProfiles, BeginProfile, AddEntry, UseDefault,
       MarkFactory, AclLimits, AclFault, Commit, ReplaceImage, BeginPass,
       PassSurvives, PassFault, ShowSystem
  <2>3. Early => pc \in PastAcl /\ pc' \in PastAcl
    <3>1. Early => pc \in PastAcl
      BY DEF ProfilesInv
    <3>2. pc \in PastAcl => pc' \in PastAcl
      BY <1>6 DEF Next, vars, txn, Step, ProfileSteps, IsDefault, AddSystem,
       AddSystemFault, AddSubsystem, NoSubsystem, LinkPorts, LinkPortsFault,
       AddDaemons, NoDaemons, ReadRelease, WriteRelease, InitTrust, InitMaps,
       InitMap, InitMapFault, SkipProfiles, BeginProfile, AddEntry,
       UseDefault, MarkFactory, AclLimits, AclFault, Commit, ReplaceImage,
       BeginPass, PassSurvives, PassFault, ShowSystem
    <3> QED
      BY <3>1, <3>2
  <2>4. Early' => pc' \in PastAcl
    BY <2>2, <2>3
  <2>5. ASSUME Early' \/ ~cfg.qosInfo, NEW kind \in Kinds
        PROVE  NoneYet(kind)'
    <3>1. profiles' = profiles
      <4>1. CASE Early'
        <5>1. CASE Early
          <6>1. pc \notin ProfileSteps
            BY <2>3, <5>1 DEF ProfileSteps
          <6> QED
            BY <1>2, <1>4, <1>6, <6>1
        <5> QED
          BY <2>2, <4>1, <5>1
      <4>2. CASE ~cfg.qosInfo
        BY <1>2, <1>4, <1>6, <4>2 DEF UseDefault
      <4> QED
        BY <2>5, <4>1, <4>2
    <3>2. NoneYet(kind)
      <4>1. CASE Early \/ ~cfg.qosInfo
        BY <4>1 DEF ProfilesInv
      <4>2. CASE ~Early /\ cfg.qosInfo
        <5>1. pc \in {"subsystem", "daemons"} /\ KindInv(kind)
          BY <2>2, <2>5, <4>2 DEF ProfilesInv
        <5>2. pc \notin PastDefault(kind) \union {"fault"} /\ ~Building(kind)
          BY <5>1 DEF PastDefault, PastDefaultSchedule, PastQueues,
                      PastDefaultQueue, Building, ProfileSteps
        <5> QED
          BY <5>1, <5>2 DEF KindInv
      <4> QED
        BY <4>1, <4>2
    <3> QED
      BY <3>1, <3>2 DEF NoneYet
  <2>6. ASSUME ~Early', cfg.qosInfo, NEW kind \in Kinds
        PROVE  /\ KindInv(kind)'
               /\ pc' \in PastDefault(kind) =>
                    kind \in DOMAIN inUse' /\ inUse'[kind] = cfg.names.default
    <3>1. /\ KindInv(kind)
          /\ pc \in PastDefault(kind) =>
                kind \in DOMAIN inUse /\ inUse[kind] = cfg.names.default
      BY <2>1, <2>6 DEF ProfilesInv
    <3> QED
      BY <1>1, <1>6, <2>6, <3>1, KindStep
  <2> QED
    BY <1>1, <1>3, <2>4, <2>5, <2>6 DEF ProfilesInv
<1> QED
  BY <1>5, <1>6

-----------------------------------------------------------------------------
(* The first configuration.                                                *)

IInv == TypeInv /\ PlaceInv /\ RowsInv /\ ProfilesInv

LEMMA IInvInit ==
  ASSUME Init
  PROVE  IInv
<1> USE DEF Init
<1>1. TypeInv
  <2>1. Len(cfg.images) \in Nat \ {0} /\ cfg.shows \in Nat
    BY InputLengths
  <2>2. MaxFails \in Nat /\ MaxNoMemory \in Nat
    BY SizeAssumption
  <2>3. DOMAIN <<>> = {}
    OBVIOUS
  <2> QED
    BY <2>1, <2>2, <2>3 DEF TypeInv
<1>2. PlaceInv
  BY DEF PlaceInv, ProfileSteps
<1>3. RowsInv
  BY DEF RowsInv, Unlisted, PastSystem, PastSubsystem, PastLinks, PastDaemons,
     PastRelease, PastTrust, PastDscp, PastCos, PastDefaultQueue, PastQueues,
     PastDefaultSchedule, PastProfiles, PastAcl, Over
<1>4. ProfilesInv
  <2>1. DOMAIN profiles = Kinds /\ \A kind \in Kinds : NoneYet(kind)
    BY DEF NoProfiles, NoneYet
  <2>2. ~Early
    BY DEF Early
  <2>3. \A kind \in Kinds : ~Building(kind)
    BY DEF Building
  <2>4. \A kind \in Kinds : pc \notin PastDefault(kind) /\ pc \notin PastFactory(kind)
    BY DEF PastDefault, PastFactory, PastDefaultSchedule, PastQueues,
           PastDefaultQueue, PastProfiles, PastAcl, Over
  <2> QED
    BY <2>1, <2>2, <2>3, <2>4 DEF ProfilesInv, KindInv
<1> QED
  BY <1>1, <1>2, <1>3, <1>4 DEF IInv

LEMMA IInvStep ==
  ASSUME IInv, [Next]_vars
  PROVE  IInv'
<1>1. TypeInv' /\ PlaceInv' /\ RowsInv'
  BY TypeStep, PlaceStep, RowsStep DEF IInv
<1> QED
  BY <1>1, ProfilesStep DEF IInv

(* What the transaction has in it once it is past a step, and that it has  *)
(* nothing of the profiles if it is not.                                   *)
THEOREM IInvInvariance == Spec => []IInv
BY IInvInit, IInvStep, PTL DEF Spec

(* The elements of a sequence of the input, by their places.               *)
LEMMA ElementsOf ==
  ASSUME NEW s, IsSequence(s)
  PROVE  /\ DOMAIN s = 1..Len(s) /\ Len(s) \in Nat
         /\ ToSet(s) = {s[i] : i \in 1..Len(s)}
<1> DEFINE S == ToSet(s)
<1>1. s \in Seq(S)
  BY DEF IsSequence
<1> HIDE DEF S
<1>2. DOMAIN s = 1..Len(s) /\ Len(s) \in Nat
  BY <1>1
<1>3. ToSet(s) = {s[i] : i \in DOMAIN s}
  BY DEF ToSet
<1> QED
  BY <1>2, <1>3

LEMMA InputSequences ==
  ASSUME NEW c \in Inputs
  PROVE  /\ IsSequence(c.queues) /\ IsSequence(c.schedule)
         /\ IsSequence(c.cos) /\ IsSequence(c.dscp)
         /\ IsSequence(c.ports)
         /\ \A p \in Ports(c) : /\ c.ports[p].name # NoPort
                                /\ IsSequence(c.ports[p].subports)
BY InputAssumption

(* The rows of a profile are of queues that have an entry.                 *)
LEMMA RowsOfEntries ==
  ASSUME TypeInv, NEW kind \in Kinds, NEW p, NEW j, NEW again \in BOOLEAN,
         NEW mark, Built(kind, EntriesFor(kind), p, j, again, mark)
  PROVE  DOMAIN p.rows \subseteq {e.queue : e \in ToSet(EntriesFor(kind))}
<1> DEFINE es == EntriesFor(kind)
<1>1. IsSequence(es)
  BY InputSequences DEF TypeInv, EntriesFor
<1> HIDE DEF es
<1>2. ToSet(es) = {es[i] : i \in 1..Len(es)}
  BY <1>1, ElementsOf
<1>3. DOMAIN p.rows \subseteq {es[n].queue : n \in 1..Len(es)}
  BY DEF Built, QueuesSoFar, SchedulesSoFar, Kinds, es
<1>4. DOMAIN p.rows \subseteq {e.queue : e \in ToSet(es)}
  BY <1>2, <1>3
<1> QED
  BY <1>4 DEF es

LEMMA TypeFollows ==
  ASSUME IInv
  PROVE  TypeOK
<1>1. pc \in ToSet(Steps) \union {"done", "existing", "nullTxn", "fault"}
  <2>1. ToSet(Steps) = {Steps[i] : i \in 1..14}
    BY DEF ToSet, Steps
  <2>2. {"system", "subsystem", "links", "daemons", "release", "trust", "dscp",
         "cos", "queue default", "queue factory", "schedule default",
         "schedule factory", "acl", "commit"} \subseteq {Steps[i] : i \in 1..14}
    <3> DEFINE All == {Steps[n] : n \in 1..14}
    <3>1. \A i \in 1..14 : Steps[i] \in All
      OBVIOUS
    <3> HIDE DEF All
    <3>2. /\ Steps[1] \in All /\ Steps[2] \in All /\ Steps[3] \in All
          /\ Steps[4] \in All /\ Steps[5] \in All /\ Steps[6] \in All
          /\ Steps[7] \in All /\ Steps[8] \in All /\ Steps[9] \in All
          /\ Steps[10] \in All /\ Steps[11] \in All /\ Steps[12] \in All
          /\ Steps[13] \in All /\ Steps[14] \in All
      BY <3>1
    <3>3. {"system", "subsystem", "links", "daemons", "release", "trust", "dscp",
           "cos", "queue default", "queue factory", "schedule default",
           "schedule factory", "acl", "commit"} \subseteq All
      BY <3>2, StepsAre
    <3> QED
      BY <3>3 DEF All
  <2> QED
    BY <2>1, <2>2 DEF IInv, TypeInv, PastAcl, PastProfiles, PastDefaultSchedule,
       PastQueues, PastDefaultQueue, PastCos, PastDscp, PastTrust, PastRelease,
       PastDaemons, PastLinks, PastSubsystem, PastSystem, Over
<1>2. k \in Nat
  <2>1. Len(Entries) \in Nat
    BY InputLengths DEF IInv, TypeInv, Entries
  <2> QED
    BY <2>1 DEF IInv, PlaceInv
<1>3. ASSUME NEW kind \in Kinds, NEW name \in DOMAIN profiles[kind]
      PROVE  /\ name \in {cfg.names.default, cfg.names.factory}
             /\ DOMAIN profiles[kind][name].rows \subseteq
                   {e.queue : e \in ToSet(EntriesFor(kind))}
  <2> DEFINE default == cfg.names.default
             factory == cfg.names.factory
             p == profiles[kind][name]
             es == EntriesFor(kind)
  <2>1. DOMAIN <<>> = {}
    OBVIOUS
  <2>2. ~NoneYet(kind) /\ ~Early /\ cfg.qosInfo /\ KindInv(kind)
    BY <1>3, <2>1 DEF IInv, ProfilesInv, NoneYet
  <2>3. /\ name \in {default, factory}
        /\ \E j, again, mark : again \in BOOLEAN /\ Built(kind, es, p, j, again, mark)
    <3>1. CASE Building(kind) /\ pc \notin PastDefault(kind)
      BY <1>3, <2>2, <3>1 DEF KindInv
    <3>2. CASE pc \in PastDefault(kind) \ PastFactory(kind)
      <4>1. name = default \/ (name = factory /\ k # 0)
        BY <1>3, <2>2, <3>2 DEF KindInv
      <4>2. k # 0 => k > 0
        BY <1>2
      <4>3. CASE k = 0 \/ (default # factory /\ name = default)
        <5>1. Finished(kind, es, p, FALSE)
          BY <2>2, <3>2, <4>1, <4>3 DEF KindInv
        <5> QED
          BY <4>1, <5>1 DEF Finished
      <4>4. CASE k # 0 /\ name = factory
        <5>1. \/ Built(kind, es, p, k, FALSE, FALSE)
              \/ Built(kind, es, p, k, TRUE, FALSE)
          BY <2>2, <3>2, <4>2, <4>4 DEF KindInv
        <5> QED
          BY <4>4, <5>1
      <4> QED
        BY <4>1, <4>3, <4>4
    <3>3. CASE BothThere(kind)
      <4>1. name \in {default, factory} /\ Finished(kind, es, p, name = factory)
        BY <1>3, <3>3 DEF BothThere
      <4> QED
        BY <4>1 DEF Finished
    <3> QED
      BY <2>2, <3>1, <3>2, <3>3 DEF KindInv
  <2>4. PICK j, again, mark : again \in BOOLEAN /\ Built(kind, es, p, j, again, mark)
    BY <2>3
  <2>5. DOMAIN p.rows \subseteq {e.queue : e \in ToSet(es)}
    BY <2>4, RowsOfEntries DEF IInv
  <2> QED
    BY <2>3, <2>5
<1>4. used.fails \in 0..MaxFails /\ used.shows \in 0..cfg.shows
      /\ used.noMemory \in 0..MaxNoMemory
  BY DEF IInv, TypeInv
<1> QED
  BY <1>1, <1>2, <1>3, <1>4 DEF IInv, TypeInv, TypeOK, EntriesFor

(* Whatever the description files say, the rows are of the kinds the       *)
(* schema has, profiles have one of the two names, and rows only for       *)
(* queues that qos.yaml mentions.                                          *)
THEOREM TypeCorrect == Spec => []TypeOK
BY IInvInvariance, TypeFollows, PTL

LEMMA LandedIs ==
  ASSUME IInv, pc = "done", short \subseteq {"interfaces"}
  PROVE  /\ cfg \in Inputs
         /\ {"mgmt_intf", "macs", "bridges", "vrfs", "subsystems",
             "timezone", "acl"} \subseteq system
         /\ cfg.daemons => "daemons" \in system
         /\ interfaces = IF short = {} THEN SplitLinks(cfg) ELSE NoRows
         /\ cfg.qosInfo => "trust" \in system
         /\ cfg.dscp # <<>> =>
                "dscp" \in system /\ maps["dscp"] = MapRows(cfg.dscp, DscpRows)
         /\ cfg.cos # <<>> =>
                "cos" \in system /\ maps["cos"] = MapRows(cfg.cos, CosRows)
         /\ cfg.qosInfo => \A kind \in Kinds :
                /\ BothThere(kind) /\ kind \in DOMAIN inUse
                /\ inUse[kind] = cfg.names.default
<1> USE DEF Over, PastAcl, PastProfiles, PastDefaultSchedule, PastQueues,
            PastDefaultQueue, PastCos, PastDscp, PastTrust, PastRelease,
            PastDaemons, PastLinks, PastSubsystem, PastSystem
<1>1. ~Early
  BY DEF Early
<1>2. \A kind \in Kinds : pc \in PastDefault(kind) /\ pc \in PastFactory(kind)
  BY DEF PastDefault, PastFactory
<1>3. cfg.qosInfo => \A kind \in Kinds :
                /\ BothThere(kind) /\ kind \in DOMAIN inUse
                /\ inUse[kind] = cfg.names.default
  BY <1>1, <1>2 DEF IInv, ProfilesInv, KindInv
<1> QED
  BY <1>3 DEF IInv, TypeInv, RowsInv

LEMMA WholeIs ==
  ASSUME IInv, Whole
  PROVE  /\ cfg \in Inputs
         /\ interfaces = SplitLinks(cfg)
         /\ cfg.dscp # <<>> => maps["dscp"] = MapRows(cfg.dscp, DscpRows)
         /\ cfg.cos # <<>> => maps["cos"] = MapRows(cfg.cos, CosRows)
         /\ cfg.qosInfo => \A kind \in Kinds :
                /\ BothThere(kind) /\ kind \in DOMAIN inUse
                /\ inUse[kind] = cfg.names.default
BY LandedIs DEF Whole

(* The configuration that is committed is complete, of every description   *)
(* and after any number of rejected commits, and an allocation that fails  *)
(* for the interfaces takes away nothing but them.                         *)
THEOREM CommittedComplete == Spec => []CompleteUnlessNoMemory
<1>1. ASSUME IInv
      PROVE  CompleteUnlessNoMemory
  <2>1. DOMAIN SplitLinks(cfg) = Ports(cfg) /\ DOMAIN NoRows = {}
    BY DEF SplitLinks, NoRows
  <2>2. DOMAIN inUse \subseteq Kinds
    BY <1>1 DEF IInv, TypeInv
  <2> QED
    BY <1>1, <2>1, <2>2, LandedIs DEF CompleteUnlessNoMemory, Columns
<1> QED
  BY <1>1, IInvInvariance, PTL

(* The profile the switch uses is the default one, and exactly the factory *)
(* default's rows cannot be changed.                                       *)
THEOREM FactoryImmutable == Spec => []OnlyFactoryImmutable
<1>1. ASSUME IInv
      PROVE  OnlyFactoryImmutable
  <2>1. ASSUME Whole, cfg.qosInfo, NEW kind \in Kinds,
               NEW name \in {cfg.names.default, cfg.names.factory}
        PROVE  LET p == profiles[kind][name]
               IN  /\ inUse[kind] = cfg.names.default
                   /\ p.hwDefault = (name = cfg.names.factory)
                   /\ \A q \in DOMAIN p.rows : p.rows[q].hwDefault = p.hwDefault
    <3>1. BothThere(kind) /\ inUse[kind] = cfg.names.default
      BY <1>1, <2>1, WholeIs
    <3>2. Finished(kind, EntriesFor(kind), profiles[kind][name],
                   name = cfg.names.factory)
      BY <3>1 DEF BothThere
    <3> QED
      BY <3>1, <3>2 DEF Finished, Built
  <2> QED
    BY <2>1 DEF OnlyFactoryImmutable
<1> QED
  BY <1>1, IInvInvariance, PTL

(* Both profiles of a kind are what qos.yaml describes, also if its two    *)
(* names are the same and the second profile is built over the first.      *)
THEOREM ProfilesDescribed == Spec => []ProfilesAsDescribed
<1>1. ASSUME IInv
      PROVE  ProfilesAsDescribed
  <2> SUFFICES ASSUME Whole, cfg.qosInfo,
                      NEW name \in {cfg.names.default, cfg.names.factory}
               PROVE  LET queue == profiles.queue[name].rows
                          schedule == profiles.schedule[name].rows
                      IN  /\ DOMAIN queue = {e.queue : e \in ToSet(cfg.queues)}
                          /\ DOMAIN schedule = {e.queue : e \in ToSet(cfg.schedule)}
                          /\ \A q \in DOMAIN queue : QueueAsDescribed(queue[q], q)
                          /\ \A q \in DOMAIN schedule :
                                ScheduleAsDescribed(schedule[q], q)
    BY DEF ProfilesAsDescribed
  <2> DEFINE queues == cfg.queues
             schedules == cfg.schedule
             queue == profiles["queue"][name].rows
             schedule == profiles["schedule"][name].rows
  <2>1. /\ QueuesSoFar(queues, queue, Len(queues) + 1, FALSE)
        /\ SchedulesSoFar(schedules, schedule, Len(schedules) + 1)
    <3>1. BothThere("queue") /\ BothThere("schedule")
      BY <1>1, WholeIs DEF Kinds
    <3> QED
      BY <3>1 DEF BothThere, Finished, Built, EntriesFor
  <2>2. /\ IsSequence(queues) /\ IsSequence(schedules)
    BY <1>1, InputSequences DEF IInv, TypeInv
  <2> HIDE DEF queues, schedules
  <2>3. /\ ToSet(queues) = {queues[i] : i \in 1..Len(queues)}
        /\ ToSet(schedules) = {schedules[i] : i \in 1..Len(schedules)}
        /\ Len(queues) \in Nat /\ Len(schedules) \in Nat
    BY <2>2, ElementsOf
  <2>4. /\ DOMAIN queue = {e.queue : e \in ToSet(queues)}
        /\ DOMAIN schedule = {e.queue : e \in ToSet(schedules)}
    <3>1. DOMAIN queue = {queues[i].queue : i \in 1..Len(queues)}
      BY <2>1, <2>3 DEF QueuesSoFar
    <3>2. DOMAIN schedule = {schedules[i].queue : i \in 1..Len(schedules)}
      BY <2>1, <2>3 DEF SchedulesSoFar
    <3> HIDE DEF queue, schedule
    <3> QED
      BY <2>3, <3>1, <3>2
  <2>5. ASSUME NEW q \in DOMAIN queue
        PROVE  QueueAsDescribed(queue[q], q)
    <3> DEFINE mine == EntriesOf(queues, q)
               texts == {n \in mine : queues[n].text # NoText}
               row == queue[q]
    <3>1. QueueSoFar(queues, row, q, Len(queues) + 1, FALSE)
      BY <2>1, <2>5 DEF QueuesSoFar
    <3>2. /\ {n \in mine : FALSE \/ n < Len(queues) + 1} = mine
          /\ {n \in texts : n < Len(queues) + 1} = texts
      BY <2>3 DEF EntriesOf
    <3> HIDE DEF mine, row
    <3>3. /\ row.prios = {queues[n].prio : n \in mine}
          /\ texts # {} => row.text = queues[LastOf(texts)].text
          /\ texts = {} => row.text = NoText
      BY <3>1, <3>2 DEF QueueSoFar, mine
    <3> QED
      BY <3>3 DEF QueueAsDescribed, mine, row, queues
  <2>6. ASSUME NEW q \in DOMAIN schedule
        PROVE  ScheduleAsDescribed(schedule[q], q)
    <3> DEFINE mine == EntriesOf(schedules, q)
    <3>1. ScheduleSoFar(schedules, schedule[q], q, Len(schedules) + 1)
      BY <2>1, <2>6 DEF SchedulesSoFar
    <3>2. {n \in mine : n < Len(schedules) + 1} = mine
      BY <2>3 DEF EntriesOf
    <3> QED
      BY <3>1, <3>2 DEF ScheduleSoFar, ScheduleAsDescribed, schedules
  <2> QED
    BY <2>4, <2>5, <2>6 DEF queues, schedules
<1> QED
  BY <1>1, IInvInvariance, PTL

(* Split links go both ways if ports.yaml says so on both sides, and only  *)
(* where it says, to ports that are there.                                 *)
THEOREM MutualLinks == Spec => []LinksMutual
<1>1. ASSUME IInv, Whole
      PROVE  LinksMutual
  <2> DEFINE ports == cfg.ports
  <2>1. interfaces = SplitLinks(cfg) /\ cfg \in Inputs
    BY <1>1, WholeIs
  <2>2. \A p \in Ports(cfg) : ports[p].name # NoPort /\ IsSequence(ports[p].subports)
    BY <2>1, InputSequences
  <2>3. \A p \in Ports(cfg) :
           /\ interfaces[p].parent =
                 IF Named(cfg, {ports[p].parent}) = {} THEN NoPort
                 ELSE ports[p].parent
           /\ interfaces[p].children =
                 {ports[q].name : q \in Named(cfg, ToSet(ports[p].subports))}
    BY <2>1 DEF SplitLinks
  <2>4. ASSUME NEW p \in Ports(cfg), NEW q \in Ports(cfg),
               ports[p].parent = ports[q].name,
               ports[p].name \in ToSet(ports[q].subports)
        PROVE  /\ interfaces[p].parent = ports[q].name
               /\ ports[p].name \in interfaces[q].children
    <3>1. ports[q].subports # <<>>
      BY <2>4 DEF ToSet
    <3>2. ports[p].parent # NoPort
      BY <2>2, <2>4
    <3>3. p \in Splittable(cfg) /\ q \in Splittable(cfg)
      BY <3>1, <3>2 DEF Splittable
    <3>4. q \in Named(cfg, {ports[p].parent})
          /\ p \in Named(cfg, ToSet(ports[q].subports))
      BY <2>4, <3>3 DEF Named
    <3> QED
      BY <2>3, <2>4, <3>4
  <2>5. ASSUME NEW p \in Ports(cfg),
               NEW l \in interfaces[p].children \union {interfaces[p].parent},
               l # NoPort
        PROVE  /\ \E q \in Ports(cfg) : l = ports[q].name
               /\ l \in ToSet(<<ports[p].parent>> \o ports[p].subports)
    <3> DEFINE subports == ports[p].subports
               said == <<ports[p].parent>> \o subports
    <3>1. l = ports[p].parent \/ l \in ToSet(subports)
      BY <2>3, <2>5 DEF Named
    <3>2. \E q \in Ports(cfg) : l = ports[q].name
      <4>1. CASE l \in interfaces[p].children
        BY <2>3, <4>1 DEF Named, Splittable
      <4>2. CASE l = interfaces[p].parent
        <5>1. l = ports[p].parent /\ Named(cfg, {ports[p].parent}) # {}
          BY <2>3, <2>5, <4>2
        <5> QED
          BY <5>1 DEF Named, Splittable
      <4> QED
        BY <4>1, <4>2
    <3>3. DOMAIN subports = 1..Len(subports) /\ Len(subports) \in Nat
          /\ ToSet(subports) = {subports[i] : i \in 1..Len(subports)}
          /\ subports \in Seq(ToSet(subports))
      BY <2>2, ElementsOf DEF IsSequence
    <3>4. ToSet(said) = {said[i] : i \in DOMAIN said}
      BY DEF ToSet
    <3> DEFINE S == ToSet(subports) \union {ports[p].parent}
    <3>5. subports \in Seq(S) /\ <<ports[p].parent>> \in Seq(S)
      BY <3>3
    <3> HIDE DEF S, subports
    <3>6. /\ DOMAIN said = 1..(1 + Len(subports)) /\ said[1] = ports[p].parent
          /\ \A i \in 1..Len(subports) : said[1 + i] = subports[i]
      BY <3>3, <3>5
    <3> HIDE DEF said
    <3>7. l \in ToSet(said)
      <4>1. CASE l = ports[p].parent
        <5>1. 1 \in DOMAIN said
          BY <3>3, <3>6
        <5> QED
          BY <3>4, <3>6, <4>1, <5>1
      <4>2. CASE l \in ToSet(subports)
        <5>1. PICK i \in 1..Len(subports) : l = subports[i]
          BY <3>3, <4>2
        <5>2. 1 + i \in DOMAIN said
          BY <3>3, <3>6
        <5>3. said[1 + i] = l
          BY <3>6, <5>1
        <5> QED
          BY <3>4, <5>2, <5>3
      <4> QED
        BY <3>1, <4>1, <4>2
    <3> QED
      BY <3>2, <3>7 DEF said, subports
  <2> QED
    BY <2>4, <2>5 DEF LinksMutual
<1>2. ASSUME IInv
      PROVE  LinksMutual
  BY <1>1, <1>2 DEF LinksMutual
<1> QED
  BY <1>2, IInvInvariance, PTL

LEMMA PointsInRows ==
  ASSUME NEW entries, IsSequence(entries), NEW e \in ToSet(entries)
  PROVE  /\ entries # <<>>
         /\ \E r \in 1..Len(entries) :
                MapRows(entries, Len(entries))[r] = e.point
<1>1. /\ ToSet(entries) = {entries[i] : i \in 1..Len(entries)}
      /\ Len(entries) \in Nat
  BY ElementsOf
<1>2. PICK r \in 1..Len(entries) : entries[r] = e
  BY <1>1
<1> QED
  BY <1>1, <1>2 DEF MapRows

(* A description with as many code points as the switch has rows maps each.*)
THEOREM CodePointsMapped == Spec => []EveryCodePointMapped
<1>1. ASSUME IInv
      PROVE  EveryCodePointMapped
  <2>1. cfg \in Inputs
    BY <1>1 DEF IInv, TypeInv
  <2>2. IsSequence(cfg.cos) /\ IsSequence(cfg.dscp)
    BY <2>1, InputSequences
  <2>3. ASSUME Whole
        PROVE  /\ cfg.dscp # <<>> => maps["dscp"] = MapRows(cfg.dscp, DscpRows)
               /\ cfg.cos # <<>> => maps["cos"] = MapRows(cfg.cos, CosRows)
    BY <1>1, <2>3, WholeIs
  <2>4. ASSUME Whole, Len(cfg.cos) = CosRows, NEW e \in ToSet(cfg.cos)
        PROVE  \E r \in 1..CosRows : maps["cos"][r] = e.point
    <3>1. cfg.cos # <<>>
          /\ \E r \in 1..CosRows : MapRows(cfg.cos, CosRows)[r] = e.point
      BY <2>2, <2>4, PointsInRows
    <3> QED
      BY <2>3, <2>4, <3>1
  <2>5. ASSUME Whole, Len(cfg.dscp) = DscpRows, NEW e \in ToSet(cfg.dscp)
        PROVE  \E r \in 1..DscpRows : maps["dscp"][r] = e.point
    <3>1. cfg.dscp # <<>>
          /\ \E r \in 1..DscpRows : MapRows(cfg.dscp, DscpRows)[r] = e.point
      BY <2>2, <2>5, PointsInRows
    <3> QED
      BY <2>3, <2>5, <3>1
  <2> QED
    BY <2>4, <2>5 DEF EveryCodePointMapped
<1> QED
  BY <1>1, IInvInvariance, PTL

=============================================================================
