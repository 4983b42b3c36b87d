----------------------------- MODULE OsRelease -----------------------------
(***************************************************************************)
(* sysd_update_sw_info(): /etc/os-release is read line by line, and what   *)
(* it says is written to the System row, to a row that is being inserted   *)
(* by a transaction as well as to one a pass of the main loop finds, where *)
(* there is no transaction.                                                *)
(*                                                                         *)
(* A text is a sequence of characters, of which " " is white space; a line *)
(* is what stands before its first '=' (name) and behind it (value).       *)
(***************************************************************************)
EXTENDS Integers, Sequences

CONSTANTS
    NoFile,         \* /etc/os-release does not exist.
    NoEquals,       \* The name of a line without a '='.
    NStr,           \* NSTR.
    Between, Behind, \* " (Build: " and ")".
    Unset           \* A column that has no value.

VARIABLES
    file,           \* /etc/os-release.
    line,           \* The line that is read next; 0: not open.
    found,          \* names: what smap holds; versionId, buildId.
    row             \* osName: software_info:os_name; version: switch_version.

NothingFound == [names |-> {}, versionId |-> <<>>, buildId |-> <<>>]
UnsetRow == [osName |-> Unset, version |-> Unset]

(* strncpy and snprintf into an array of NSTR characters.                  *)
Truncated(text) == SubSeq(text, 1, IF Len(text) < NStr THEN Len(text)
                                   ELSE NStr - 1)

(* The text without the white space at its end.                            *)
Trimmed(text) ==
    SubSeq(text, 1, CHOOSE n \in 0..Len(text) :
                        /\ \A m \in (n + 1)..Len(text) : text[m] = " "
                        /\ n > 0 => text[n] # " ")

(* smap_add keeps all values of a name, and the column one of them: which  *)
(* is a matter of the library, and of the values alone.                    *)
Kept(names) == CHOOSE n \in names : TRUE

LinesOf(f) == IF f = NoFile THEN {} ELSE 1..Len(f)

(* getline has an answer, and without a '=' the loop continues.            *)
ReadLine ==
    /\ line + 1 \in LinesOf(file)
    /\ line' = line + 1
    /\ LET l == file[line + 1]
           value == Trimmed(l.value)
       IN  found' =
             CASE l.name = "NAME" /\ value # <<>> ->
                    [found EXCEPT !.names = @ \union {value}]
               [] l.name = "VERSION_ID" ->
                    [found EXCEPT !.versionId = Truncated(value)]
               [] l.name = "BUILD_ID" ->
                    [found EXCEPT !.buildId = Truncated(value)]
               [] OTHER -> found
    /\ UNCHANGED row

Read == line + 1 \notin LinesOf(file)

(* Mutant of SetSoftware: one of the two identifiers is enough.            *)
SetSoftwareOneEnough ==
    [osName  |-> IF found.names = {} THEN row.osName ELSE Kept(found.names),
     version |-> IF found.versionId = <<>> /\ found.buildId = <<>>
                 THEN row.version
                 ELSE Truncated(found.versionId \o Between
                                \o found.buildId \o Behind)]

(* Mutant of SetSoftware: software_info is set to an empty map, too.       *)
SetSoftwareUntested ==
    [osName  |-> IF found.names = {} THEN Unset ELSE Kept(found.names),
     version |-> IF found.versionId = <<>> \/ found.buildId = <<>>
                 THEN row.version
                 ELSE Truncated(found.versionId \o Between
                                \o found.buildId \o Behind)]

(* The row the function asks for: a column is left alone without a value.  *)
SetSoftware ==
    [osName  |-> IF found.names = {} THEN row.osName ELSE Kept(found.names),
     version |-> IF found.versionId = <<>> \/ found.buildId = <<>>
                 THEN row.version
                 ELSE Truncated(found.versionId \o Between
                                \o found.buildId \o Behind)]

-----------------------------------------------------------------------------
(* What a file says: the last line of a name, whatever is in front of it.  *)
Says(f, name) ==
    LET mine == {n \in LinesOf(f) : f[n].name = name}
    IN  IF mine = {} THEN <<>>
        ELSE Trimmed(f[CHOOSE n \in mine : \A m \in mine : m <= n].value)

(* "VERSION (Build: BUILD)", as much of it as the column's text may have.  *)
VersionOf(f) ==
    LET text == Says(f, "VERSION_ID") \o Between \o Says(f, "BUILD_ID") \o Behind
    IN  IF Says(f, "VERSION_ID") = <<>> \/ Says(f, "BUILD_ID") = <<>>
        THEN Unset
        ELSE SubSeq(text, 1, IF Len(text) < NStr THEN Len(text) ELSE NStr - 1)

NamesOf(f) ==
    {Trimmed(f[n].value) : n \in {m \in LinesOf(f) : f[m].name = "NAME"}}
        \ {<<>>}
=============================================================================
