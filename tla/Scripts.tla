------------------------------ MODULE Scripts ------------------------------
(***************************************************************************)
(* What the models of several packages share: the scripts that are running *)
(* and the packages that opkg has installed.                               *)
(*                                                                         *)
(* A script runs another one and waits for it, so the running scripts are  *)
(* a call stack, its head the script that moves.  A frame says which       *)
(* script it is, which package it works on, at which line it is and what   *)
(* is left of the loop it is in.                                           *)
(***************************************************************************)
EXTENDS Naturals, Sequences

CONSTANTS
    Pkg          \* the packages

VARIABLES
    stack,       \* the scripts that are running, the innermost first
    installed    \* the packages with a control file, in the toolchain or in
                 \* the rootfs

Elems(s) == {s[i] : i \in DOMAIN s}

----------------------------------------------------------------------------
\* The running scripts

Ops == {"build", "package", "packagedev", "install", "installdev"}

Labels == {"start", "wipe", "packagedev", "installdev", "check", "rule",
           "conflicts", "depends", "opkg"}

Frames == [op : Ops, pkg : Pkg, at : Labels, todo : Seq(Pkg)]

Frame(op, p) == [op |-> op, pkg |-> p, at |-> "start", todo |-> <<>>]

\* Script op is running, is at line l and works on package p.
At(op, l, p) == /\ stack # <<>>
                /\ Head(stack).op = op
                /\ Head(stack).at = l
                /\ Head(stack).pkg = p

Todo == Head(stack).todo

Moved(l, todo) == [Head(stack) EXCEPT !.at = l, !.todo = todo]

Goto(l, todo) == stack' = <<Moved(l, todo)>> \o Tail(stack)

Call(op, p, l, todo) == stack' = <<Frame(op, p), Moved(l, todo)>> \o Tail(stack)

Return == stack' = Tail(stack)

\* The loop `for q in ...; do op q; done', then line l.
ForEach(op, l) ==
    IF Todo = <<>> THEN Goto(l, <<>>)
                   ELSE Call(op, Head(Todo), Head(stack).at, Tail(Todo))

----------------------------------------------------------------------------
\* opkg

\* Mutant: opkg removes the package alone.
OnlyItself(q, depends) == {q}

\* The packages that need q by `depends', itself included.
Users(q, depends) ==
    {p \in Pkg : \A S \in SUBSET Pkg :
        (q \in S /\ \A r \in Pkg : Elems(depends[r]) \cap S # {} => r \in S)
            => p \in S}

\* What opkg remove --force-removal-of-dependent-packages leaves of the
\* installed packages when it removes those in S.
Remaining(S, depends) ==
    {p \in installed : \A q \in S \cap installed : p \notin Users(q, depends)}
=============================================================================
