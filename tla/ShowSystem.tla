----------------------------- MODULE ShowSystem -----------------------------
(***************************************************************************)
(* cli_system_get_all(): what "show system" makes of the rows it finds in  *)
(* the replica of its vtysh process.  It looks for the switch's only       *)
(* Subsystem row, and says so in the log if there is none, or no System    *)
(* row; but it goes on.                                                    *)
(*                                                                         *)
(* A view of the database: hasSystem and hasSubsystem, and the rows of the *)
(* fans, LEDs, power supplies and temperature sensors, which are those the *)
(* replica's Subsystem row refers to.  A row is its name, a number here for the      *)
(* order strcmp() gives.  How the columns are worded is left out.          *)
(***************************************************************************)
EXTENDS Naturals, Sequences, Functions

CONSTANTS Died          \* The process ended at pSys->n_fans, pSys being NULL.

Nothing == <<>>
NothingShown == [committed |-> FALSE, output |-> Nothing]

(* qsort with compare_fan and compare_psu.                                 *)
ByName(rows) ==
    LET places == DOMAIN rows
        order == CHOOSE p \in Bijection(places, places) :
                     \A i, j \in places : i < j => rows[p[i]] <= rows[p[j]]
    IN  [i \in places |-> rows[order[i]]]

(* The sections of the output.                                             *)
Output(view) ==
    IF ~view.hasSubsystem THEN Died
    ELSE [overview |-> view.hasSystem,
          fans     |-> ByName(view.fans),
          leds     |-> view.leds,
          psus     |-> ByName(view.psus),
          temps    |-> view.temps]
=============================================================================
