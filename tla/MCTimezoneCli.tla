--------------------------- MODULE MCTimezoneCli ---------------------------
(***************************************************************************)
(* TimezoneCli for TLC: a directory with a zone in a subdirectory, and one *)
(* that lacks the default zone.                                            *)
(***************************************************************************)
EXTENDS TimezoneCli, ZoneList, SequencesExt

Etc == Dir("Etc", <<File("."), File(".."), File("GMT")>>)
Directories == {<<File("."), Etc, File(".."), File("UTC")>>, <<Etc>>}

ListsOf == {ZonesOf(d) : d \in Directories}
AllZones == UNION {ToSet(l) : l \in ListsOf}
Utc == <<"UTC">>
UtcWord == <<"utc">>

LowerName == [UTC |-> "utc", Etc |-> "etc", GMT |-> "gmt"]
LowerPath == [z \in AllZones |-> [i \in DOMAIN z |-> LowerName[z[i]]]]
AllWords == {LowerPath[z] : z \in AllZones}

(* Whatever the REST server lets through the CLI knows, so that the line   *)
(* of the running configuration can be replayed; the reverse holds only    *)
(* without links to directories, which the CLI offers as zones.            *)
MoreEntries == {File("UTC"), File(".."), Link("US"), Etc, Dir("US", <<>>),
                Dir("Asia", <<Dir("X", <<Link("Y"), File("Z")>>), File("GMT")>>)}
MoreDirectories == UNION {[1..n -> MoreEntries] : n \in 0..3}

ASSUME SameZones ==
    \A d \in MoreDirectories :
        /\ Accepted(d) \subseteq ToSet(ZonesOf(d))
        /\ \/ Accepted(d) = ToSet(ZonesOf(d))
           \/ \E z \in ToSet(ZonesOf(d)) : z[Len(z)] \in {"US", "Y"}
=============================================================================
