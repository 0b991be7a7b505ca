------------------------------ MODULE MCRootfs ------------------------------
(***************************************************************************)
(* Instances of Rootfs: programs a, b and c and a library l.               *)
(***************************************************************************)
EXTENDS Rootfs, TLC

\* a runs c, and c is built with l but does not need it to run.
BuiltWith == ("l" :> <<>>) @@ ("a" :> <<"l">>) @@ ("c" :> <<"l">>)
RunWith == ("l" :> <<>>) @@ ("a" :> <<"l", "c">>) @@ ("c" :> <<>>)

NoParent == [p \in Pkg |-> p]

\* a is a subpackage of l, like ncurses of ncurses-base.
SubOfL == [NoParent EXCEPT !["a"] = "l"]

Alphabetical == <<"a", "c", "l">>

\* Edits of what rootfs itself compares.
Compared == ({"config"} \X Pkg) \cup ({"build"} \X {"c", "l"})
                                  \cup {<<"rev", "l">>, <<"install", "c">>}

\* a runs l, which alone is rewritten in place, and c is built with it.
RunL == ("l" :> <<>>) @@ ("a" :> <<"l">>) @@ ("c" :> <<>>)
Patched == ({"config"} \X Pkg) \cup {<<"patch", "l">>}

\* a and b run c, a subpackage of l that is built with it and runs without it,
\* like libpq of pgsql.
RunC == ("l" :> <<>>) @@ ("a" :> <<"c">>) @@ ("b" :> <<"c">>) @@ ("c" :> <<>>)
BuildC == ("l" :> <<>>) @@ ("a" :> <<>>) @@ ("b" :> <<>>) @@ ("c" :> <<"l">>)
CSubOfL == [NoParent EXCEPT !["c"] = "l"]
FourPackages == <<"a", "b", "c", "l">>
Revised == ({"config"} \X (Pkg \ {"l"})) \cup {<<"rev", "l">>}
=============================================================================
