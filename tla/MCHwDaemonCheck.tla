-------------------------- MODULE MCHwDaemonCheck --------------------------
(* Four daemons for HwDaemonCheck, no name a prefix of another.            *)
EXTENDS HwDaemonCheck

FourNames == {"ops-sysd", "ops-pmd", "ops-fand", "ops-ledd"}
NoPrefixes == {<<n, n>> : n \in FourNames}
=============================================================================
