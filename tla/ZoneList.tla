------------------------------ MODULE ZoneList ------------------------------
(***************************************************************************)
(* find_posix_timezones_and_add_to_list(): the time zones a CLI process    *)
(* knows are the files below /usr/share/zoneinfo/posix, in the order       *)
(* readdir() gives them.  A zone is its path, a sequence of names.  And    *)
(* the zones that the validator of the REST server takes, in Python.       *)
(***************************************************************************)
EXTENDS Naturals, Sequences

(* What opendir() and readdir() give for a directory; a link is a symbolic *)
(* link to a directory.                                                    *)
File(name) == [name |-> name, kind |-> "file"]
Link(name) == [name |-> name, kind |-> "link"]
Dir(name, entries) == [name |-> name, kind |-> "dir", entries |-> entries]

(* The zones below directory dir, at path, from its n-th entry on; "." and *)
(* ".." are skipped.                                                       *)
RECURSIVE Walk(_, _, _)
Walk(dir, path, n) ==
    IF n > Len(dir) THEN <<>>
    ELSE LET e == dir[n]
             below == CASE e.name \in {".", ".."} -> <<>>
                        [] e.kind = "dir" ->
                             Walk(e.entries, Append(path, e.name), 1)
                        [] OTHER -> <<Append(path, e.name)>>
         IN  below \o Walk(dir, path, n + 1)

(* list_of_zones_caps, without the base path.                              *)
ZonesOf(dir) == Walk(dir, <<>>, 1)

(* The time zones the REST server's validator takes: os.walk() does not go *)
(* into links, but it does not count one to a directory as a file either.  *)
RECURSIVE AcceptedBelow(_, _)
AcceptedBelow(dir, path) ==
    LET entries == {dir[n] : n \in 1..Len(dir)}
    IN  {Append(path, e.name) : e \in {f \in entries : f.kind = "file"}
                                        \ {File("."), File("..")}}
            \union UNION {AcceptedBelow(e.entries, Append(path, e.name)) :
                             e \in {f \in entries : f.kind = "dir"}}

Accepted(dir) == AcceptedBelow(dir, <<>>)
=============================================================================
