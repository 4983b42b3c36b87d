--------------------------- MODULE HwDaemonCheck ---------------------------
(***************************************************************************)
(* sysd_chk_if_hw_daemons_done(), which SysdRun takes to be "every h/w     *)
(* daemon has reported", in full: the daemons of image.manifest are looked *)
(* up in the Daemon table by the first strlen() characters of their names, *)
(* in whatever order the replica lists its rows, and the first row that    *)
(* matches answers for the daemon.                                         *)
(*                                                                         *)
(* There is one sysd here and its replica is exact (see SysdRun for what   *)
(* several of them, and old replicas, do to each other).                   *)
(***************************************************************************)
EXTENDS Naturals, FiniteSets, Functions

CONSTANTS
    Names,          \* The names of daemons.
    SelfName,       \* NAME_IN_DAEMON_TABLE.
    Prefixes,       \* <<m, n>>: the name m is a prefix of the name n.
    MaxRestarts,    \* Bound on restarts with the same manifest.
    MaxUpgrades     \* Bound on restarts with another manifest.

ASSUME NamesAssumption ==
    /\ IsFiniteSet(Names)
    /\ Prefixes \subseteq Names \X Names
    /\ \A n \in Names : <<n, n>> \in Prefixes
    /\ SelfName \in Names

ASSUME BoundsAssumption == MaxRestarts \in Nat /\ MaxUpgrades \in Nat

VARIABLES
    manifest,       \* daemons[]: is_hw_handler of each name in the manifest.
    configured,     \* Has the first configuration been committed?
    rows,           \* The Daemon table: a row for each of its names.
    curHw,          \* System:cur_hw (and next_hw).
    doneSet,        \* hw_init_done_set.
    reported,       \* The daemons that are through with the h/w files.
    restarts,
    upgrades

vars == <<manifest, configured, rows, curHw, doneSet, reported,
          restarts, upgrades>>

IsPrefix(m, n) == <<m, n>> \in Prefixes

Manifests == UNION {[S -> BOOLEAN] : S \in SUBSET Names}

(* The daemons m marks as h/w handlers.                                    *)
HwNames(m) == {n \in DOMAIN m : m[n]}

(* Mutant of InitialCurHw: sysd's own row starts like the others.          *)
StartsUnset(n) == 0

(* Whatever starts with "ops-sysd" has nothing to wait for.                *)
InitialCurHw(n) == IF IsPrefix(SelfName, n) THEN 1 ELSE 0

Init ==
    /\ manifest \in Manifests
    /\ configured = FALSE
    /\ rows = [n \in {} |-> [hw |-> FALSE, cur |-> 0]]
    /\ curHw = 0
    /\ doneSet = FALSE
    /\ reported = {}
    /\ restarts = 0
    /\ upgrades = 0

(* sysd_initial_configure: a row for each daemon of the manifest.          *)
Configure ==
    /\ ~configured
    /\ configured' = TRUE
    /\ rows' = [n \in DOMAIN manifest |->
                    [hw |-> manifest[n], cur |-> InitialCurHw(n)]]
    /\ reported' = {SelfName} \intersect DOMAIN manifest
    /\ UNCHANGED <<manifest, curHw, doneSet, restarts, upgrades>>

(* A daemon has read the h/w description files, and says so in its row.    *)
Report(n) ==
    /\ configured
    /\ n \in DOMAIN rows
    /\ rows' = [rows EXCEPT ![n].cur = 1]
    /\ reported' = reported \union {n}
    /\ UNCHANGED <<manifest, configured, curHw, doneSet, restarts, upgrades>>

(* The orders in which OVSREC_DAEMON_FOR_EACH may list the rows: the row   *)
(* of n is the order[n]-th.                                                *)
Orders == Injection(DOMAIN rows, 1..Cardinality(DOMAIN rows))

(* The rows n's name may be taken for.                                     *)
Candidates(n) == {m \in DOMAIN rows : rows[m].hw /\ IsPrefix(n, m)}

(* The row n is looked up in: none, or the first candidate.                *)
Match(n, order) ==
    {m \in Candidates(n) : \A k \in Candidates(n) : order[m] <= order[k]}

Matches(order) == UNION {Match(n, order) : n \in HwNames(manifest)}

(* Mutant of AllSet: one that is set is enough (no not_set).               *)
SomeSet(order) == \E m \in Matches(order) : rows[m].cur > 0

(* The loop over the manifest: not_set stays false and num_found > 0.      *)
AllSet(order) ==
    /\ \A m \in Matches(order) : rows[m].cur > 0
    /\ Matches(order) # {}

(* Mutant of Passed: a manifest without h/w daemons is no special case.    *)
PassedByLoop(order) == AllSet(order)

Passed(order) == HwNames(manifest) = {} \/ AllSet(order)

(* Mutant of Check: cur_hw counts the announcements.                       *)
CheckCounts ==
    /\ configured
    /\ ~doneSet
    /\ \E order \in Orders : Passed(order)
    /\ curHw' = curHw + 1
    /\ doneSet' = TRUE
    /\ UNCHANGED <<manifest, configured, rows, reported, restarts, upgrades>>

(* The check of one pass through sysd_run, and sysd_set_hw_done, whose     *)
(* commit succeeds (SysdRun has the ones that do not).                     *)
Check ==
    /\ configured
    /\ ~doneSet
    /\ \E order \in Orders : Passed(order)
    /\ curHw' = 1
    /\ doneSet' = TRUE
    /\ UNCHANGED <<manifest, configured, rows, reported, restarts, upgrades>>

(* sysd ends and is started again: it reads the manifest anew.             *)
Restart ==
    /\ restarts < MaxRestarts
    /\ restarts' = restarts + 1
    /\ doneSet' = FALSE
    /\ UNCHANGED <<manifest, configured, rows, curHw, reported, upgrades>>

(* ... and after an upgrade of the image, another one.                     *)
Upgrade ==
    /\ upgrades < MaxUpgrades
    /\ upgrades' = upgrades + 1
    /\ manifest' \in Manifests
    /\ doneSet' = FALSE
    /\ UNCHANGED <<configured, rows, curHw, reported, restarts>>

Next ==
    \/ Configure
    \/ \E n \in Names : Report(n)
    \/ Check
    \/ Restart
    \/ Upgrade

Spec == Init /\ [][Next]_vars

(* sysd runs; nothing makes a h/w daemon report.                           *)
FairSpec == Spec /\ WF_vars(Configure) /\ WF_vars(Check)

-----------------------------------------------------------------------------
HwRows == {n \in DOMAIN rows : rows[n].hw}

(* The h/w daemons that sysd knows and the database knows.                 *)
Known == HwNames(manifest) \intersect HwRows

AllReported == HwNames(manifest) \subseteq reported

(* The variables have their types, and rows is what was configured.        *)
TypeOK ==
    /\ manifest \in Manifests
    /\ configured \in BOOLEAN
    /\ DOMAIN rows \subseteq Names
    /\ \A n \in DOMAIN rows : rows[n] \in [hw : BOOLEAN, cur : {0, 1}]
    /\ configured \/ DOMAIN rows = {}
    /\ curHw \in {0, 1}
    /\ doneSet \in BOOLEAN
    /\ reported \subseteq DOMAIN rows
    /\ restarts \in 0..MaxRestarts
    /\ upgrades \in 0..MaxUpgrades

(* No daemon's name is a prefix of another's.                              *)
PrefixFree == \A m, n \in Names : IsPrefix(m, n) => m = n

(* The loop of sysd_chk_if_hw_daemons_done computes what SysdRun assumes,  *)
(* in whatever order the rows are listed: it passes just when every known  *)
(* h/w daemon has reported, sysd itself with its first configuration (and  *)
(* there is one, unless the manifest has none).                            *)
CheckFindsAll ==
    configured => \A order \in Orders :
        Passed(order) <=> \/ HwNames(manifest) = {}
                          \/ Known # {} /\ Known \subseteq reported

(* As long as the manifest is the one the Daemon table was made from,      *)
(* System:cur_hw = 1 means that every h/w daemon of the manifest has told  *)
(* that it is through with the h/w description files (the comment of       *)
(* sysd_chk_if_hw_daemons_done).                                           *)
OnlyWhenAllReported == upgrades = 0 /\ curHw = 1 => AllReported

(* Every h/w daemon of the manifest has reported in a row of its own.      *)
Due == configured /\ AllReported /\ HwNames(manifest) \subseteq HwRows

(* Once they all have, sysd announces it, restarted or not (unless an      *)
(* upgrade adds others).                                                   *)
ReadyFollows == Due ~> (curHw = 1 \/ ~Due)
=============================================================================
