----------------------------- MODULE MCSysroot -----------------------------
(***************************************************************************)
(* Instances of Sysroot.  The packages of a run are named for the place    *)
(* they have in its graph.                                                 *)
(***************************************************************************)
EXTENDS Sysroot, TLC

\* x needs a and b, which both need c.
Diamond == ("c" :> <<>>) @@ ("a" :> <<"c">>) @@ ("b" :> <<"c">>) @@ ("x" :> <<"a", "b">>)

\* x names a before b, which a needs too.
Shortcut == ("b" :> <<>>) @@ ("a" :> <<"b">>) @@ ("x" :> <<"a", "b">>)

\* x needs v and u, which needs a.
Chain == ("a" :> <<>>) @@ ("v" :> <<>>) @@ ("u" :> <<"a">>) @@ ("x" :> <<"v", "u">>)

\* x needs v, which is built with g and used without it, as GLib is built with
\* gettext.
BuildTool == ("g" :> <<>>) @@ ("v" :> <<"g">>) @@ ("x" :> <<"v">>)
UseAlone == ("g" :> <<>>) @@ ("v" :> <<>>) @@ ("x" :> <<"v">>)

NoConflicts == [p \in Pkg |-> {}]

\* a and k provide the same headers and are both built with c, like json and
\* jsoncpp with the toolchain; x needs a, and c by itself and through a.
Rivals == ("c" :> <<>>) @@ ("a" :> <<"c">>) @@ ("k" :> <<"c">>) @@ ("x" :> <<"a", "c">>)
RivalConflicts == [NoConflicts EXCEPT !["a"] = {"k"}, !["k"] = {"a"}]

\* The same, but c is built with k: the dependencies of a bring its rival back.
RivalBelow == [Rivals EXCEPT !["c"] = <<"k">>, !["k"] = <<>>]

\* No name is the beginning of another; the name of x is that of a package it
\* depends on, like GLib and GLib-host.
OwnName == [p \in Pkg |-> {p}]
HostTool == [OwnName EXCEPT !["x"] = {"a", "x"}]
=============================================================================
