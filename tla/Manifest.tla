------------------------------ MODULE Manifest ------------------------------
(***************************************************************************)
(* sysd_read_manifest_file(): the recursive walk over the JSON value of    *)
(* image.manifest, as a stack of the objects and arrays it is in.  The     *)
(* members of an object come in the order of a hash table, that is any;    *)
(* the elements of an array come in theirs.                                *)
(*                                                                         *)
(* A JSON value is a record: [type |-> "object", of |-> key -> value],     *)
(* [type |-> "array", of |-> <<value, ...>>], [type |-> "string", of |->   *)
(* text], or [type |-> t] with t "true", "false" or "other".  A file that  *)
(* is missing or not JSON is "other" at the top.                           *)
(***************************************************************************)
EXTENDS Integers, Sequences, FiniteSets

CONSTANTS           \* Keys by the prefix strncmp finds in them.
    DaemonsKeys,    \* DAEMONS_TAG
    HandlerKeys,    \* HW_HANDLER_TAG
    MgmtKeys,       \* MGMT_INTF_TAG
    IntfKeys,       \* MGMT_INTF_NAME_TAG
    SelfNames,      \* NAME_IN_DAEMON_TABLE
    NoIntf,         \* mgmt_intf == NULL.
    MaxDepth        \* Bound: no manifest nests deeper.

VARIABLES
    manifest,       \* The JSON value.
    zeroed,         \* The memory malloc leaves is all zero.
    stack,          \* What the walk is in: frames, the innermost first.
    reading,        \* "start", "walk", "done", "failed" or "abort".
    daemons,        \* daemons[], num_daemons long.
    mgmtIntf,       \* mgmt_intf; not NULL once is_mgmt_intf_present is true.
    numHwDaemons    \* num_hw_daemons

results == <<daemons, mgmtIntf, numHwDaemons>>

IsObject(v) == v.type = "object"
IsString(v) == v.type = "string"
IsTree(v) == v.type \in {"object", "array"}

(* A frame: what is left to visit, by key or index, and by which function. *)
Frame(by, rest) == [by |-> by, rest |-> rest]
Walk(v) == Frame(v.type, v.of)

In(function) ==
    /\ reading = "walk"
    /\ stack # <<>> /\ Head(stack).by = function

(* The members of what is on top, and the stack without one of them.       *)
Members == DOMAIN Head(stack).rest
Member(k) == Head(stack).rest[k]
After(k) ==
    <<Frame(Head(stack).by, [j \in Members \ {k} |-> Member(j)])>>
        \o Tail(stack)

-----------------------------------------------------------------------------
ReadFile ==
    /\ reading = "start"
    /\ IF IsTree(manifest)
       THEN reading' = "walk" /\ stack' = <<Walk(manifest)>>
       ELSE reading' = "failed" /\ UNCHANGED stack
    /\ UNCHANGED results

(* sysd_process_json, JSON_OBJECT: what a member's name makes of it.       *)
VisitMember ==
    /\ In("object")
    /\ \E k \in Members :
           stack' =
               CASE ~IsTree(Member(k)) -> After(k)
                 [] IsObject(Member(k)) /\ k \in DaemonsKeys ->
                        <<Frame("daemons", Member(k).of)>> \o After(k)
                 [] IsObject(Member(k)) /\ k \in MgmtKeys ->
                        <<Frame("mgmt_intf", Member(k).of)>> \o After(k)
                 [] OTHER -> <<Walk(Member(k))>> \o After(k)
    /\ UNCHANGED <<reading, results>>

(* JSON_ARRAY.                                                             *)
VisitElement ==
    /\ In("array")
    /\ \E k \in Members :
           /\ \A j \in Members : k <= j
           /\ stack' = IF IsTree(Member(k)) THEN <<Walk(Member(k))>> \o After(k)
                       ELSE After(k)
    /\ UNCHANGED <<reading, results>>

Return ==
    /\ \E f \in {"object", "array", "daemons"} : In(f)
    /\ Members = {}
    /\ stack' = Tail(stack)
    /\ UNCHANGED <<reading, results>>

(* Mutant of HandlerFlags: the tag is enough.                              *)
HandlerFlagsIfTagged(entry) ==
    {DOMAIN entry.of \intersect HandlerKeys # {}}

(* _sysd_get_hw_handler: the first member with the tag decides.            *)
HandlerFlags(entry) ==
    LET tagged == DOMAIN entry.of \intersect HandlerKeys
    IN  IF tagged = {} THEN {FALSE}
        ELSE {entry.of[k].type = "true" : k \in tagged}

CurHw(name) == IF name \in SelfNames THEN 1 ELSE 0

(* One entry of _sysd_process_daemons; json_object() asserts that its      *)
(* value is an object.                                                     *)
ReadDaemon ==
    /\ In("daemons")
    /\ \E name \in Members :
           IF IsObject(Member(name))
           THEN /\ \E flag \in HandlerFlags(Member(name)) :
                       daemons' = Append(daemons,
                           [name |-> name, isHwHandler |-> flag,
                            curHw |-> CurHw(name)])
                /\ stack' = After(name)
                /\ UNCHANGED reading
           ELSE reading' = "abort" /\ UNCHANGED <<daemons, stack>>
    /\ UNCHANGED <<mgmtIntf, numHwDaemons>>

Tagged == Members \intersect IntfKeys

(* _sysd_process_mgmt_intf: the first member with the tag has the name.    *)
(* xcalloc(.., 0) asks for no bytes and strncpy copies no '\0': whether    *)
(* the name ends is up to what malloc left there.                          *)
ReadMgmtIntf ==
    /\ In("mgmt_intf")
    /\ \E k \in Tagged :
           /\ IsString(Member(k))
           /\ mgmtIntf' \in [name : {Member(k).of}, ends : BOOLEAN]
           /\ zeroed => mgmtIntf'.ends
    /\ stack' = Tail(stack)
    /\ UNCHANGED <<reading, daemons, numHwDaemons>>

(* There is none, or it is not a string: an error, unless an earlier       *)
(* mgmt_intf had one (is_mgmt_intf_present is never reset).                *)
NoMgmtIntf ==
    /\ In("mgmt_intf")
    /\ Tagged = {} \/ \E k \in Tagged : ~IsString(Member(k))
    /\ IF mgmtIntf = NoIntf
       THEN reading' = "failed" /\ UNCHANGED stack
       ELSE stack' = Tail(stack) /\ UNCHANGED reading
    /\ UNCHANGED results

(* sysd_set_num_hw_daemons.                                                *)
CountHwDaemons ==
    /\ reading = "walk"
    /\ stack = <<>>
    /\ numHwDaemons' =
           Cardinality({i \in DOMAIN daemons : daemons[i].isHwHandler})
    /\ reading' = "done"
    /\ UNCHANGED <<stack, daemons, mgmtIntf>>

Next ==
    \/ ReadFile
    \/ VisitMember
    \/ VisitElement
    \/ Return
    \/ ReadDaemon
    \/ ReadMgmtIntf
    \/ NoMgmtIntf
    \/ CountHwDaemons

-----------------------------------------------------------------------------
(* What a manifest says, by its keys alone: every object and array outside *)
(* the sections, with its place: <<>>, or its parent's and a key.          *)
IsSection(v, k) == IsObject(v.of[k]) /\ k \in DaemonsKeys \union MgmtKeys

Inside(t) ==
    {<< <<t[1], k>>, t[2].of[k] >> :
         k \in {l \in DOMAIN t[2].of : IsTree(t[2].of[l])
                    /\ ~(IsObject(t[2]) /\ IsSection(t[2], l))}}

TreesOf(v) ==
    LET TreesTo[depth \in 0..MaxDepth] ==
            IF depth = 0 THEN {<< <<>>, v >>}
            ELSE LET outer == TreesTo[depth - 1]
                 IN  outer \union UNION {Inside(t) : t \in outer}
    IN  TreesTo[MaxDepth]

Trees == TreesOf(manifest)

(* The trees with an object under key k.                                   *)
With(k) == {t \in Trees : /\ IsObject(t[2])
                          /\ k \in DOMAIN t[2].of
                          /\ IsObject(t[2].of[k])}

Entries ==
    UNION {{[at |-> t[1], name |-> n, says |-> t[2].of["daemons"].of[n]] :
                n \in DOMAIN t[2].of["daemons"].of} : t \in With("daemons")}

MgmtIntfs == {t[2].of["mgmt_intf"].of : t \in With("mgmt_intf")}

(* The manifest has the form the build system gives it.                    *)
Documented ==
    /\ IsTree(manifest)
    /\ \A t \in Trees : IsObject(t[2]) =>
           DOMAIN t[2].of \intersect (DaemonsKeys \union MgmtKeys)
               \subseteq {"daemons", "mgmt_intf"}
    /\ \A e \in Entries :
           /\ IsObject(e.says)
           /\ DOMAIN e.says.of \intersect HandlerKeys
                  \subseteq {"is_hw_handler"}
    /\ Cardinality(With("mgmt_intf")) <= 1
    /\ \A m \in MgmtIntfs :
           /\ DOMAIN m \intersect IntfKeys = {"intf"}
           /\ IsString(m["intf"])

SaysHandler(e) ==
    "is_hw_handler" \in DOMAIN e.says.of
        /\ e.says.of["is_hw_handler"].type = "true"

(* A documented manifest is read, whatever the order its members come in:  *)
(* an element of daemons[] for every entry, marked as a h/w handler if the *)
(* entry says so, and the characters of the name of the management         *)
(* interface.  That the name also ends where they do is only certain if    *)
(* the memory it is copied to, which nobody clears, was zero before.       *)
ManifestIsRead ==
    Documented =>
        /\ reading \notin {"failed", "abort"}
        /\ reading = "done" =>
               /\ \A n \in {e.name : e \in Entries}, h \in BOOLEAN :
                      Cardinality({i \in DOMAIN daemons :
                                       /\ daemons[i].name = n
                                       /\ daemons[i].isHwHandler = h})
                    = Cardinality({e \in Entries : /\ e.name = n
                                                   /\ SaysHandler(e) = h})
               /\ Len(daemons) = Cardinality(Entries)
               /\ IF MgmtIntfs = {} THEN mgmtIntf = NoIntf
                  ELSE /\ \E m \in MgmtIntfs : mgmtIntf.name = m["intf"].of
                       /\ zeroed => mgmtIntf.ends
=============================================================================
