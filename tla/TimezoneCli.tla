---------------------------- MODULE TimezoneCli ----------------------------
(***************************************************************************)
(* The time zone commands of the CLI, on the switch of SysdRun: "timezone  *)
(* set", its no form, and the line they have in the running configuration. *)
(* Every user has a vtysh process with an IDL replica of its own.  A       *)
(* command decides on that replica and then writes the System row blindly. *)
(*                                                                         *)
(* SysdRun's SetTimezone stands for whoever else writes the time zone (the *)
(* REST server, other tools), with any zone of the switch.  A command      *)
(* that is refused ("Invalid timezone specified", "Timezone configured     *)
(* is"), that finds no System row, or whose commit the server does not     *)
(* apply, changes nothing and is not a step.                               *)
(***************************************************************************)
EXTENDS SysdRun, Sequences

CONSTANTS
    Users,          \* vtysh processes.
    Words,          \* What can be typed or printed for a zone.
    Lower,          \* tolower(), from zones to words.
    DefaultWord,    \* DEFAULT_TIMEZONE.
    ZoneLists       \* What list_of_zones_caps may be.

ASSUME CliAssumption ==
    /\ Lower \in [Zones -> Words]
    /\ ZoneLists \subseteq Seq(Zones)
    /\ \A l \in ZoneLists : \A m, n \in 1..Len(l) :
          Lower[l[m]] = Lower[l[n]] => m = n

VARIABLES
    list,           \* list_of_zones_caps, the same in every process.
    seen,           \* seen[u]: the System row in u's replica.
    past            \* The values System:timezone has had.

cliVars == <<list, seen>>
allVars == <<vars, cliVars, past>>

Replica == [rows : Nat, tz : Zones \union {NoZone}]
EmptyReplica == [rows |-> 0, tz |-> NoZone]
Current == [rows |-> db.rows, tz |-> db.tz]

CliInit ==
    /\ Init
    /\ list \in ZoneLists
    /\ seen = [u \in Users |-> EmptyReplica]
    /\ past = {NoZone}

(* Mutant of Matches: the names are compared as they are.                  *)
MatchesAsIs(word) == {n \in 1..Len(list) : list[n] = word}

(* translate_cmd_to_filepath: the index of the first lower-case name that  *)
(* is equal to the word; the zone there is the one that is written.  (No   *)
(* two names of the time zone database differ only in case.)               *)
Matches(word) == {n \in 1..Len(list) : Lower[list[n]] = word}

Chosen(word) == list[CHOOSE n \in Matches(word) : \A m \in Matches(word) : n <= m]

(* vtysh_config_context_timezone_callback: "timezone set <word>".          *)
Printed(replica) == Lower[replica.tz]

-----------------------------------------------------------------------------
(* The server's updates reach u.                                           *)
Sync(u) ==
    /\ seen' = [seen EXCEPT ![u] = Current]
    /\ UNCHANGED <<vars, list>>

(* Mutant of Write: a row is inserted.                                     *)
WriteInserts(u, word) ==
    /\ Matches(word) # {}
    /\ used.zoneSets < MaxZoneSets
    /\ used' = [used EXCEPT !.zoneSets = @ + 1]
    /\ db' = [db EXCEPT !.rows = @ + 1, !.tz = Chosen(word)]
    /\ seen' = [seen EXCEPT ![u] = [rows |-> db'.rows, tz |-> Chosen(word)]]
    /\ UNCHANGED <<lock, fileVars, idlVars, localVars, pc, list>>

(* The server has the transaction applied: u's replica shows the zone now, *)
(* or, if the answer is lost, what it did before.  A zone that the replica *)
(* shows already is not sent.                                              *)
Write(u, word) ==
    /\ seen[u].rows > 0
    /\ Matches(word) # {}
    /\ Chosen(word) # seen[u].tz
    /\ \/ SetTimezone(Chosen(word))
       \/ Chosen(word) = db.tz /\ UNCHANGED vars
    /\ \/ seen' = [seen EXCEPT ![u] = [rows |-> db.rows, tz |-> Chosen(word)]]
       \/ UNCHANGED seen
    /\ UNCHANGED list

(* "timezone set word".  The parser only takes words of the list.          *)
SetZone(u, word) == Write(u, word)

(* Mutant of ResetZone: the word is not looked at.                         *)
ResetZoneUntested(u, word) == Write(u, DefaultWord)

(* "no timezone set word" goes back to the default, if the replica shows   *)
(* the word's zone.                                                        *)
ResetZone(u, word) ==
    /\ seen[u].tz # NoZone
    /\ Lower[seen[u].tz] = word
    /\ Write(u, DefaultWord)

Command(u) == \E n \in 1..Len(list) :
                  \/ SetZone(u, Lower[list[n]])
                  \/ ResetZone(u, Lower[list[n]])

UserStep(u) == Sync(u) \/ Command(u)

CliNext ==
    /\ \/ Next /\ UNCHANGED cliVars
       \/ \E u \in Users : UserStep(u)
    /\ past' = past \union {db.tz'}

CliSpec == CliInit /\ [][CliNext]_allVars

(* Nothing makes users type, or a user's replica follow.                   *)
CliFairSpec == CliSpec /\ Fairness

-----------------------------------------------------------------------------
(* Properties.                                                             *)

(* What a replica shows was there once, and rows are never deleted; this   *)
(* is what makes the blind write safe for everything but the zone.         *)
CliTypeOK ==
    /\ list \in ZoneLists
    /\ seen \in [Users -> Replica]
    /\ past \subseteq Zones \union {NoZone}
    /\ db.tz \in past
    /\ \A u \in Users : seen[u].rows <= db.rows /\ seen[u].tz \in past

(* Whatever users type at whatever moment, and however old the replica is  *)
(* they decide on, the switch only sees what SysdRun allows for: a zone of *)
(* the switch, written to a row that exists, and nothing else.             *)
ImplementsSysdRun == Spec

(* Replaying the line that show running-config prints, in a process with   *)
(* the same list, brings back the zone that was printed, although what is  *)
(* printed is not its name; unless the list does not have it.              *)
ReplayRestores ==
    \A u \in Users :
        seen[u].rows > 0 /\ (\E n \in 1..Len(list) : list[n] = seen[u].tz) =>
            LET word == Printed(seen[u])
            IN  Matches(word) # {} /\ Chosen(word) = seen[u].tz

(* A no form that takes effect names a zone other than the default, which  *)
(* the switch has really had; whether it still has it is not certain: the  *)
(* user's replica may be old, and the newer zone of another is then reset. *)
NoFormNamesAPastZone ==
    [][\A u \in Users, word \in Words :
           ResetZone(u, word) =>
               \E z \in past \ {NoZone, Chosen(DefaultWord)} : Lower[z] = word]_allVars
=============================================================================
