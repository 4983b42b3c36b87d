--------------------------- MODULE MCPackageInfo ---------------------------
(* Files for PackageInfo: well-formed records, and a few that are not.*)
EXTENDS PackageInfo

Optional == {<<>>, <<"PV", "SRC_URL">>, <<"SRC_URL", "SRCREV">>,
             <<"PV", "SRCREV">>, <<"SRCREV", "PV">>}

GoodShapes == {<<"PKG">> \o s \o <<"TYPE">> : s \in Optional}

(* TYPE is missing, comes early, comes twice, or the package's name does.  *)
BadShapes == {<<"PKG", "PV">>, <<"PKG", "TYPE", "SRCREV">>,
              <<"PKG", "TYPE", "TYPE">>, <<"SRC_URL", "TYPE">>}

AllShapes == GoodShapes \union BadShapes
=============================================================================
