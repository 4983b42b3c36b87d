------------------------ MODULE HwDaemonCheckProofs ------------------------
(***************************************************************************)
(* The lookup of sysd_chk_if_hw_daemons_done() is exact for any manifest   *)
(* and any order of the Daemon table, as long as no daemon's name is a     *)
(* prefix of another's.                                                    *)
(***************************************************************************)
EXTENDS HwDaemonCheck, TLAPS

(* cur_hw of a row says whether its daemon has reported.                   *)
CurIsReported == \A n \in DOMAIN rows : rows[n].cur > 0 <=> n \in reported

Inv == TypeOK /\ CurIsReported

(* With an exact lookup a daemon is looked up in its own row, if that is a *)
(* h/w daemon's.                                                           *)
LEMMA MatchIsSelf ==
    ASSUME NamesAssumption, PrefixFree, TypeOK,
           NEW order \in Orders, NEW n \in Names
    PROVE  Match(n, order) = {n} \intersect HwRows
<1>1. Candidates(n) = {n} \intersect HwRows
  BY DEF Candidates, HwRows, NamesAssumption, PrefixFree, TypeOK, IsPrefix
<1>2. \A k \in DOMAIN rows : order[k] \in Nat
  <2>1. order \in [DOMAIN rows -> 1..Cardinality(DOMAIN rows)]
    BY DEF Orders, Injection
  <2>. QED  BY <2>1
<1>. QED  BY <1>1, <1>2 DEF Match, HwRows

(* So the rows found are those of the daemons sysd and the database know.  *)
LEMMA MatchesIsKnown ==
    ASSUME NamesAssumption, PrefixFree, TypeOK, NEW order \in Orders
    PROVE  Matches(order) = Known
<1>1. HwNames(manifest) \subseteq Names
  BY DEF TypeOK, Manifests, HwNames
<1>2. \A n \in HwNames(manifest) : Match(n, order) = {n} \intersect HwRows
  BY <1>1, MatchIsSelf
<1>. QED  BY <1>2 DEF Matches, Known

(* The loop passes just when all of those have reported.                   *)
LEMMA PassedIsReported ==
    ASSUME NamesAssumption, PrefixFree, Inv, NEW order \in Orders
    PROVE  Passed(order) <=> \/ HwNames(manifest) = {}
                             \/ Known # {} /\ Known \subseteq reported
<1>1. Matches(order) = Known
  BY MatchesIsKnown DEF Inv
<1>2. \A n \in Known : rows[n].cur > 0 <=> n \in reported
  BY DEF Known, HwRows, Inv, CurIsReported
<1>. QED  BY <1>1, <1>2 DEF Passed, AllSet

(* Every step keeps the types.                                             *)
LEMMA TypeStep ==
    ASSUME NamesAssumption, BoundsAssumption, TypeOK, [Next]_vars
    PROVE  TypeOK'
<1>. USE DEF TypeOK
<1>1. CASE Configure
  <2>1. /\ DOMAIN manifest \subseteq Names
        /\ \A n \in DOMAIN manifest : manifest[n] \in BOOLEAN
    BY DEF Manifests
  <2>2. DOMAIN rows' = DOMAIN manifest
    BY <1>1 DEF Configure
  <2>3. \A n \in DOMAIN manifest :
            rows'[n] \in [hw : BOOLEAN, cur : {0, 1}]
    BY <1>1, <2>1 DEF Configure, InitialCurHw
  <2>. QED  BY <1>1, <2>1, <2>2, <2>3 DEF Configure
<1>2. ASSUME NEW d \in Names, Report(d)
      PROVE  TypeOK'
  <2>1. DOMAIN rows' = DOMAIN rows
    BY <1>2 DEF Report
  <2>2. \A n \in DOMAIN rows :
            rows'[n] = IF n = d THEN [rows[n] EXCEPT !.cur = 1] ELSE rows[n]
    BY <1>2 DEF Report
  <2>3. \A n \in DOMAIN rows : rows'[n] \in [hw : BOOLEAN, cur : {0, 1}]
    BY <2>2
  <2>. QED  BY <1>2, <2>1, <2>3 DEF Report
<1>3. CASE Check
  BY <1>3 DEF Check
<1>4. CASE Restart
  <2>1. restarts' \in 0..MaxRestarts
    BY <1>4 DEF Restart, BoundsAssumption
  <2>. QED  BY <1>4, <2>1 DEF Restart
<1>5. CASE Upgrade
  <2>1. upgrades' \in 0..MaxUpgrades
    BY <1>5 DEF Upgrade, BoundsAssumption
  <2>. QED  BY <1>5, <2>1 DEF Upgrade
<1>6. CASE UNCHANGED vars
  BY <1>6 DEF vars
<1>. QED  BY <1>1, <1>2, <1>3, <1>4, <1>5, <1>6 DEF Next

(* The variables of the check keep their types, and rows stay those of the *)
(* first configuration, whatever the daemons are called.                   *)
THEOREM TypeCorrect == Spec => []TypeOK
<1>1. Init => TypeOK
  <2>. SUFFICES ASSUME Init PROVE TypeOK
    OBVIOUS
  <2>1. DOMAIN rows = {}
    BY DEF Init
  <2>2. restarts \in 0..MaxRestarts /\ upgrades \in 0..MaxUpgrades
    BY BoundsAssumption DEF Init, BoundsAssumption
  <2>. QED  BY <2>1, <2>2 DEF Init, TypeOK
<1>2. TypeOK /\ [Next]_vars => TypeOK'
  BY TypeStep, NamesAssumption, BoundsAssumption
<1>. QED  BY <1>1, <1>2, PTL DEF Spec

(* With an exact lookup, sysd's own row is the only one that starts set.   *)
LEMMA CurStep ==
    ASSUME NamesAssumption, PrefixFree, Inv, [Next]_vars
    PROVE  CurIsReported'
<1>. USE DEF Inv
<1>1. CASE Configure
  <2>1. DOMAIN manifest \subseteq Names
    BY DEF TypeOK, Manifests
  <2>2. DOMAIN rows' = DOMAIN manifest
    BY <1>1 DEF Configure
  <2>3. \A n \in DOMAIN manifest : rows'[n].cur = InitialCurHw(n)
    BY <1>1 DEF Configure
  <2>4. \A n \in DOMAIN manifest : IsPrefix(SelfName, n) <=> n = SelfName
    BY <2>1 DEF NamesAssumption, PrefixFree, IsPrefix
  <2>. QED  BY <1>1, <2>2, <2>3, <2>4
            DEF Configure, CurIsReported, InitialCurHw
<1>2. ASSUME NEW d \in Names, Report(d)
      PROVE  CurIsReported'
  <2>1. DOMAIN rows' = DOMAIN rows
    BY <1>2 DEF Report
  <2>2. \A n \in DOMAIN rows :
            rows'[n] = IF n = d THEN [rows[n] EXCEPT !.cur = 1] ELSE rows[n]
    BY <1>2 DEF Report
  <2>3. \A n \in DOMAIN rows :
            rows'[n].cur = IF n = d THEN 1 ELSE rows[n].cur
    BY <2>2 DEF TypeOK
  <2>. QED  BY <1>2, <2>1, <2>3 DEF Report, CurIsReported
<1>3. CASE Check \/ Restart \/ Upgrade \/ UNCHANGED vars
  BY <1>3 DEF Check, Restart, Upgrade, vars, CurIsReported
<1>. QED  BY <1>1, <1>2, <1>3 DEF Next

(* cur_hw of a row tells whether the daemon has reported:                  *)
(* sysd_initial_daemon_add and the daemons are its only writers.           *)
THEOREM CheckInvariance ==
    ASSUME PrefixFree
    PROVE  Spec => []Inv
<1>1. Init => CurIsReported
  BY DEF Init, CurIsReported
<1>2. TypeOK /\ CurIsReported /\ [Next]_vars => CurIsReported'
  BY CurStep, NamesAssumption DEF Inv
<1>. QED  BY <1>1, <1>2, TypeCorrect, PTL DEF Spec, Inv

(* sysd_chk_if_hw_daemons_done passes just when every h/w daemon that sysd *)
(* and the database know has reported: what SysdRun calls HwReported.      *)
THEOREM CheckIsExact ==
    ASSUME PrefixFree
    PROVE  Spec => []CheckFindsAll
<1>1. Inv => CheckFindsAll
  BY PassedIsReported, NamesAssumption DEF CheckFindsAll
<1>. QED  BY <1>1, CheckInvariance, PTL

-----------------------------------------------------------------------------
(* The database holds the daemons of the manifest sysd has read.           *)
RowsAreManifest ==
    upgrades = 0 /\ configured => /\ DOMAIN rows = DOMAIN manifest
                  /\ \A n \in DOMAIN manifest : rows[n].hw = manifest[n]

ReadyInv ==
    /\ RowsAreManifest
    /\ curHw = 1 => configured
    /\ upgrades = 0 /\ curHw = 1 => AllReported

LEMMA ReadyStep ==
    ASSUME NamesAssumption, PrefixFree, Inv, ReadyInv, [Next]_vars
    PROVE  ReadyInv'
<1>1. CASE Configure
  <2>1. DOMAIN rows' = DOMAIN manifest'
    BY <1>1 DEF Configure
  <2>2. \A n \in DOMAIN manifest' : rows'[n].hw = manifest'[n]
    BY <1>1 DEF Configure
  <2>3. curHw' # 1
    BY <1>1 DEF Configure, ReadyInv, Inv, TypeOK
  <2>. QED  BY <2>1, <2>2, <2>3 DEF ReadyInv, RowsAreManifest
<1>2. ASSUME NEW d \in Names, Report(d) PROVE ReadyInv'
  <2>1. DOMAIN rows' = DOMAIN rows
    BY <1>2 DEF Report
  <2>2. \A n \in DOMAIN rows : rows'[n].hw = rows[n].hw
    BY <1>2 DEF Report, Inv, TypeOK
  <2>3. RowsAreManifest'
    BY <1>2, <2>1, <2>2 DEF Report, ReadyInv, RowsAreManifest
  <2>4. AllReported => AllReported'
    BY <1>2 DEF Report, AllReported, HwNames
  <2>. QED  BY <1>2, <2>3, <2>4 DEF Report, ReadyInv
<1>3. CASE Check
  <2>. SUFFICES ASSUME upgrades = 0 PROVE ReadyInv'
    BY <1>3 DEF Check, ReadyInv, RowsAreManifest
  <2>1. Known = HwNames(manifest)
    BY <1>3 DEF Check, ReadyInv, RowsAreManifest, Known, HwRows, HwNames
  <2>2. AllReported
    BY <1>3, <2>1, PassedIsReported DEF Check, AllReported
  <2>. QED  BY <1>3, <2>2
            DEF Check, ReadyInv, RowsAreManifest, AllReported, HwNames
<1>4. CASE Restart
  BY <1>4 DEF Restart, ReadyInv, RowsAreManifest, AllReported, HwNames
<1>5. CASE Upgrade
  BY <1>5 DEF Upgrade, Inv, TypeOK, ReadyInv, RowsAreManifest
<1>6. CASE UNCHANGED vars
  BY <1>6 DEF vars, ReadyInv, RowsAreManifest, AllReported, HwNames
<1>. QED  BY <1>1, <1>2, <1>3, <1>4, <1>5, <1>6 DEF Next

(* With the manifest the database was built from, System:cur_hw = 1 means  *)
(* that every h/w daemon of the manifest has reported.                     *)
THEOREM ReadyIsSound ==
    ASSUME PrefixFree
    PROVE  Spec => []OnlyWhenAllReported
<1>1. Init => ReadyInv
  BY DEF Init, ReadyInv, RowsAreManifest
<1>2. Inv /\ ReadyInv /\ [Next]_vars => ReadyInv'
  BY ReadyStep, NamesAssumption
<1>3. ReadyInv => OnlyWhenAllReported
  BY DEF ReadyInv, OnlyWhenAllReported
<1>. QED  BY <1>1, <1>2, <1>3, CheckInvariance, PTL DEF Spec
=============================================================================
