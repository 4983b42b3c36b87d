------------------------------ MODULE HwReady ------------------------------
(***************************************************************************)
(* What sysd promises the rest of the switch about the hardware, with no   *)
(* mention of processes, locks, replicas or transactions.                  *)
(*                                                                         *)
(* The System row is created once.  After that each h/w daemon reports,    *)
(* in its own Daemon row, that it has processed the hardware description   *)
(* files.  When all of them have, System:{cur_hw,next_hw} becomes 1, and   *)
(* it stays 1: the configuration daemon waits for it before it pushes any  *)
(* user configuration into the database.                                   *)
(***************************************************************************)
CONSTANT HwDaemons      \* The daemons the manifest marks as h/w handlers.

VARIABLES
    configured,         \* Does the System row exist?
    reported,           \* The h/w daemons whose Daemon row has cur_hw > 0.
    ready               \* Is System:cur_hw = 1?

vars == <<configured, reported, ready>>

Init ==
    /\ configured = FALSE
    /\ reported = {}
    /\ ready = FALSE

(* The System row and the Daemon rows are inserted, all at once.  The      *)
(* daemons in d are those that need not report (sysd's own rows).          *)
Configure ==
    /\ ~configured
    /\ configured' = TRUE
    /\ reported' \in SUBSET HwDaemons
    /\ UNCHANGED ready

(* H/w daemon d has finished with the hardware description files.          *)
Report(d) ==
    /\ configured
    /\ reported' = reported \union {d}
    /\ UNCHANGED <<configured, ready>>

(* The system is announced ready, once, and only when every h/w daemon     *)
(* has reported.                                                           *)
Announce ==
    /\ configured
    /\ ~ready
    /\ HwDaemons \subseteq reported
    /\ ready' = TRUE
    /\ UNCHANGED <<configured, reported>>

Next ==
    \/ Configure
    \/ \E d \in HwDaemons : Report(d)
    \/ Announce

Safety == Init /\ [][Next]_vars

(* The announcement does come once it is due.                              *)
Spec == Safety /\ WF_vars(Announce)
=============================================================================
