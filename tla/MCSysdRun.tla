----------------------------- MODULE MCSysdRun -----------------------------
(***************************************************************************)
(* Instances of SysdRun for TLC.  The cfg files give the constants; the    *)
(* bounds (MaxCrashes, MaxDrops, MaxZoneSets, MaxUpgrades) decide which    *)
(* faults a run explores.                                                  *)
(***************************************************************************)
EXTENDS SysdRun, TLC

(* Instances are interchangeable.                                          *)
InstanceSymmetry == Permutations(Instances)
=============================================================================
