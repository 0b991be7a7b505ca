--------------------------- MODULE Sysroot_proofs ---------------------------
(***************************************************************************)
(* Proofs about Sysroot, for every set of packages and every dependency    *)
(* graph without cycles.                                                   *)
(*                                                                         *)
(* Its type invariant, and that the toolchain always contains what the     *)
(* packages in it need, hold in every mode.  So does the order of the call *)
(* stack: a script works on something that all that wait for it need.      *)
(* From it and from what a frame can count on while it waits follow that   *)
(* packages in conflict are never together, that what a package is built   *)
(* or installed with is in the toolchain, and that with a dynamic sysroot  *)
(* a rule finds nothing else there.  These need hypotheses, which are      *)
(* definitions named in the theorems; Sysroot is run without some of them, *)
(* to show what happens then.                                              *)
(***************************************************************************)
EXTENDS Sysroot, Scripts_proofs

----------------------------------------------------------------------------
\* Types

\* Everything but the call stack, which has steps of its own below.
FilesOK ==
    /\ unpacked \subseteq HasSources
    /\ built \subseteq Pkg
    /\ archived \subseteq Pkg
    /\ installed \subseteq Pkg
    /\ newer \subseteq {"build", "archive", "control", "control-archive"} \X Pkg

\* Removing packages installs none.
LEMMA WithoutType == \A S : Without(S) \subseteq installed
BY DEF Without, Remaining

\* Every action of a script keeps the types.
LEMMA StepType ==
    ASSUME TypeOK, NEW p \in Pkg, Step(p)
    PROVE  TypeOK'
<1> USE DEF TypeOK
<1>d. /\ BuildDepends[p] \in Seq(Pkg)
      /\ DevDepends[p] \in Seq(Pkg)
      /\ HasSources \subseteq Pkg
  BY DependsAssumption
<1>l. /\ {"start", "wipe", "packagedev", "installdev", "rule", "conflicts",
          "depends", "opkg"} \subseteq Labels
      /\ {"build", "packagedev", "installdev"} \subseteq Ops
      /\ <<>> \in Seq(Pkg)
  BY DEF Labels, Ops
<1>1. CASE BuildStart(p)
  <2>1. stack # <<>>
    BY <1>1 DEF BuildStart, At
  <2>2. \/ Return
        \/ \E l \in Labels : Goto(l, BuildDepends[p])
    BY <1>1, <1>l DEF BuildStart
  <2>3. stack' \in Seq(Frames)
    BY <2>1, <2>2, <1>d, GotoType, ReturnType
  <2>4. installed' \subseteq installed
    BY <1>1, WithoutType DEF BuildStart, Unpackagedev
  <2>5. QED  BY <1>1, <2>3, <2>4 DEF BuildStart
<1>2. CASE BuildWipe(p)
  <2>1. stack # <<>>
    BY <1>2 DEF BuildWipe, At
  <2>2. stack' \in Seq(Frames)
    BY <1>2, <2>1, <1>l, TopType, GotoType DEF BuildWipe
  <2>3. installed' \subseteq installed
    BY <1>2, WithoutType DEF BuildWipe
  <2>4. QED  BY <1>2, <2>2, <2>3 DEF BuildWipe
<1>3. CASE BuildPackagedev(p)
  <2>1. stack # <<>>
    BY <1>3 DEF BuildPackagedev, At
  <2>2. CASE Todo = <<>>
    BY <1>3, <2>1, <2>2, <1>d, <1>l, GotoType DEF BuildPackagedev, files
  <2>3. CASE Todo # <<>>
    <3>1. Head(Todo) \in Pkg /\ Tail(Todo) \in Seq(Pkg)
      BY <2>1, <2>3, TopType, HeadTailProperties
    <3>2. Call("packagedev", Head(Todo), "packagedev", Tail(Todo))
      BY <1>3, <2>3 DEF BuildPackagedev
    <3>3. stack' \in Seq(Frames)
      BY <2>1, <3>1, <3>2, <1>l, CallType
    <3>4. QED  BY <1>3, <3>3 DEF BuildPackagedev, files
  <2>4. QED  BY <2>2, <2>3
<1>4. CASE BuildInstalldev(p)
  <2>1. stack' \in Seq(Frames)
    BY <1>4, <1>l, ForEachType DEF BuildInstalldev, At
  <2>2. QED  BY <1>4, <2>1 DEF BuildInstalldev, files
<1>5. CASE BuildRule(p)
  BY <1>5, ReturnType DEF BuildRule, At
<1>6. CASE PackagedevStart(p)
  <2>1. \/ Return
        \/ Call("build", p, "rule", <<>>)
    BY <1>6 DEF PackagedevStart
  <2>2. stack' \in Seq(Frames)
    BY <1>6, <2>1, <1>l, ReturnType, CallType DEF PackagedevStart, At
  <2>3. installed' \subseteq installed
    BY <1>6, WithoutType DEF PackagedevStart
  <2>4. QED  BY <1>6, <2>2, <2>3 DEF PackagedevStart
<1>7. CASE PackagedevRule(p)
  BY <1>7, ReturnType DEF PackagedevRule, At
<1>8. CASE InstalldevStart(p)
  <2>1. \/ Return
        \/ Call("packagedev", p, "conflicts", <<>>)
    BY <1>8 DEF InstalldevStart
  <2>2. stack' \in Seq(Frames)
    BY <1>8, <2>1, <1>l, ReturnType, CallType DEF InstalldevStart, At
  <2>3. installed' \subseteq installed
    BY <1>8, WithoutType DEF InstalldevStart, Unpackagedev
  <2>4. QED  BY <1>8, <2>2, <2>3 DEF InstalldevStart
<1>9. CASE InstalldevConflicts(p)
  <2>1. stack' \in Seq(Frames)
    BY <1>9, <1>d, <1>l, GotoType DEF InstalldevConflicts, At
  <2>2. installed' \subseteq installed
    BY <1>9, WithoutType DEF InstalldevConflicts
  <2>3. QED  BY <1>9, <2>1, <2>2 DEF InstalldevConflicts
<1>10. CASE InstalldevDepends(p)
  <2>1. stack' \in Seq(Frames)
    BY <1>10, <1>l, ForEachType DEF InstalldevDepends, At
  <2>2. QED  BY <1>10, <2>1 DEF InstalldevDepends, files
<1>11. CASE InstalldevOpkg(p)
  BY <1>11, ReturnType DEF InstalldevOpkg, At
<1>12. CASE InstalldevRefused(p)
  BY <1>12 DEF InstalldevRefused, files
<1>13. QED
  BY <1>1, <1>2, <1>3, <1>4, <1>5, <1>6, <1>7, <1>8, <1>9, <1>10, <1>11,
     <1>12 DEF Step

\* Every variable has its type in every reachable state.
THEOREM TypeCorrect == Spec => []TypeOK
<1>1. Init => TypeOK
  BY DEF Init, TypeOK
<1>2. TypeOK /\ [Next]_vars => TypeOK'
  <2> SUFFICES ASSUME TypeOK, [Next]_vars PROVE TypeOK'
    OBVIOUS
  <2>1. CASE \E p \in Pkg : Step(p)
    BY <2>1, StepType
  <2>2. ASSUME NEW p \in Pkg, NEW op \in Commands, Start(op, p) PROVE TypeOK'
    <3>1. Frame(op, p) \in Frames
      BY DEF Frame, Frames, Labels, Ops, Commands
    <3>2. stack' \in Seq(Frames)
      BY <2>2, <3>1 DEF Start
    <3>3. QED  BY <2>2, <3>2 DEF Start, files, TypeOK
  <2>3. ASSUME NEW p \in Pkg, Edit(p) PROVE TypeOK'
    BY <2>3, WithoutType
       DEF Edit, Clean, Bump, EditBuild, EditInstalldev, TypeOK
  <2>4. CASE Abort
    BY <2>4 DEF Abort, files, TypeOK
  <2>5. CASE UNCHANGED vars
    BY <2>5 DEF vars, TypeOK
  <2>6. QED  BY <2>1, <2>2, <2>3, <2>4, <2>5 DEF Next
<1>3. QED  BY <1>1, <1>2, PTL DEF Spec

----------------------------------------------------------------------------
\* The toolchain contains what its packages need

\* Uninstalling keeps the toolchain closed.
LEMMA WithoutClosed ==
    ASSUME installed \subseteq Pkg, SysrootClosed, NEW S
    PROVE  \A p \in Without(S) : Elems(DevDepends[p]) \subseteq Without(S)
BY RemainingClosed DEF Without, SysrootClosed

\* No package is ever in the toolchain without the packages that it needs to
\* be used: not while a dynamic sysroot is emptied, a package rebuilt, cleaned
\* or removed for a conflict, nor when a run stops half-way.
THEOREM Closed == Spec => []SysrootClosed
<1>1. Init => SysrootClosed
  BY DEF Init, SysrootClosed
<1>2. TypeOK /\ SysrootClosed /\ [Next]_vars => SysrootClosed'
  <2> SUFFICES ASSUME TypeOK, SysrootClosed, [Next]_vars PROVE SysrootClosed'
    OBVIOUS
  <2>t. installed \subseteq Pkg
    BY DEF TypeOK
  <2>1. ASSUME NEW S, installed' = Without(S) PROVE SysrootClosed'
    BY <2>1, <2>t, WithoutClosed DEF SysrootClosed
  <2>2. ASSUME UNCHANGED installed PROVE SysrootClosed'
    BY <2>2 DEF SysrootClosed
  <2>3. ASSUME NEW p \in Pkg, Step(p) PROVE SysrootClosed'
    <3>1. CASE BuildStart(p)
      BY <3>1, <2>1, <2>2 DEF BuildStart, Unpackagedev
    <3>2. CASE BuildWipe(p)
      BY <3>2, <2>1, <2>2 DEF BuildWipe
    <3>3. CASE BuildPackagedev(p) \/ BuildInstalldev(p) \/ InstalldevDepends(p)
                   \/ InstalldevRefused(p)
      BY <3>3, <2>2
         DEF BuildPackagedev, BuildInstalldev, InstalldevDepends,
             InstalldevRefused, files
    <3>4. CASE BuildRule(p) \/ PackagedevRule(p)
      BY <3>4, <2>2 DEF BuildRule, PackagedevRule
    <3>5. CASE PackagedevStart(p)
      BY <3>5, <2>1, <2>2 DEF PackagedevStart
    <3>6. CASE InstalldevStart(p)
      BY <3>6, <2>1, <2>2 DEF InstalldevStart, Unpackagedev
    <3>7. CASE InstalldevConflicts(p)
      BY <3>7, <2>1 DEF InstalldevConflicts
    <3>8. CASE InstalldevOpkg(p)
      BY <3>8, <2>2 DEF InstalldevOpkg, Usable, SysrootClosed
    <3>9. QED
      BY <2>3, <3>1, <3>2, <3>3, <3>4, <3>5, <3>6, <3>7, <3>8 DEF Step
  <2>4. ASSUME NEW p \in Pkg, Edit(p) PROVE SysrootClosed'
    BY <2>4, <2>1, <2>2 DEF Edit, Clean, Bump, EditBuild, EditInstalldev
  <2>5. CASE \E p \in Pkg, op \in Commands : Start(op, p)
    BY <2>5, <2>2 DEF Start, files
  <2>6. CASE Abort
    BY <2>6, <2>2 DEF Abort, files
  <2>7. CASE UNCHANGED vars
    BY <2>7, <2>2 DEF vars
  <2>8. QED  BY <2>3, <2>4, <2>5, <2>6, <2>7 DEF Next
<1>3. QED  BY <1>1, <1>2, TypeCorrect, PTL DEF Spec

----------------------------------------------------------------------------
\* What a package needs

\* What a package names as a dependency, of either kind.
Depends(p) == Elems(BuildDepends[p]) \cup Elems(DevDepends[p])

\* What must be there for p, directly and through others, itself included.
Needs(p) ==
    {q \in Pkg : \A S \in SUBSET Pkg :
        (p \in S /\ \A r \in S : Depends(r) \subseteq S) => q \in S}

\* What must be there before p.
Below(p) == {q \in Pkg : \E d \in Depends(p) : q \in Needs(d)}

\* What a package depends on is a package, and so is what it needs.
LEMMA DependsType ==
    \A p \in Pkg : /\ Depends(p) \subseteq Pkg
                   /\ Elems(BuildDepends[p]) \subseteq Depends(p)
                   /\ Elems(DevDepends[p]) \subseteq Depends(p)
<1> SUFFICES ASSUME NEW p \in Pkg
             PROVE  /\ Depends(p) \subseteq Pkg
                    /\ Elems(BuildDepends[p]) \subseteq Depends(p)
                    /\ Elems(DevDepends[p]) \subseteq Depends(p)
  OBVIOUS
<1>1. BuildDepends[p] \in Seq(Pkg) /\ DevDepends[p] \in Seq(Pkg)
  BY DependsAssumption
<1>2. \A s \in Seq(Pkg) : Elems(s) \subseteq Pkg
  BY DEF Elems
<1>3. QED  BY <1>1, <1>2 DEF Depends

\* A package needs itself.
LEMMA NeedsSelf == \A p \in Pkg : p \in Needs(p)
BY DEF Needs

\* What a needed package depends on is needed.
LEMMA NeedsDown ==
    ASSUME NEW p, NEW q \in Needs(p), NEW d \in Depends(q)
    PROVE  d \in Needs(p)
<1>1. d \in Pkg
  BY DependsType DEF Needs
<1>2. ASSUME NEW S \in SUBSET Pkg, p \in S, \A r \in S : Depends(r) \subseteq S
      PROVE  d \in S
  <2>1. q \in S
    BY <1>2 DEF Needs
  <2>2. QED  BY <1>2, <2>1
<1>3. QED  BY <1>1, <1>2 DEF Needs

\* What a needed package needs is needed.
LEMMA NeedsTrans ==
    ASSUME NEW p, NEW q \in Needs(p), NEW r \in Needs(q)
    PROVE  r \in Needs(p)
<1>1. Needs(p) \in SUBSET Pkg
  BY DEF Needs
<1>2. \A t \in Needs(p) : Depends(t) \subseteq Needs(p)
  BY NeedsDown
<1>3. QED  BY <1>1, <1>2 DEF Needs

\* What is needed before a package is needed, and is all that it needs
\* besides itself.
LEMMA NeedsSplit ==
    ASSUME NEW p \in Pkg
    PROVE  /\ Below(p) \subseteq Needs(p)
           /\ Needs(p) \subseteq {p} \cup Below(p)
<1>1. Below(p) \subseteq Needs(p)
  BY NeedsSelf, NeedsDown, NeedsTrans DEF Below
<1>2. {p} \cup Below(p) \in SUBSET Pkg
  BY DEF Below
<1>3. ASSUME NEW r \in {p} \cup Below(p), NEW d \in Depends(r)
      PROVE  d \in Below(p)
  <2>1. CASE r = p
    BY <2>1, <1>3, DependsType, NeedsSelf DEF Below
  <2>2. CASE r \in Below(p)
    <3>1. PICK e \in Depends(p) : r \in Needs(e)
      BY <2>2 DEF Below
    <3>2. d \in Needs(e) /\ d \in Pkg
      BY <3>1, <1>3, NeedsDown DEF Needs
    <3>3. QED  BY <3>1, <3>2 DEF Below
  <2>3. QED  BY <1>3, <2>1, <2>2
<1>4. Needs(p) \subseteq {p} \cup Below(p)
  BY <1>2, <1>3 DEF Needs
<1>5. QED  BY <1>1, <1>4

\* What a needed package depends on is needed before.
LEMMA BelowDown ==
    ASSUME NEW p \in Pkg, NEW q \in Needs(p), NEW d \in Depends(q)
    PROVE  d \in Below(p)
<1>1. d \in Pkg
  BY DependsType DEF Needs
<1>2. CASE q = p
  BY <1>1, <1>2, NeedsSelf DEF Below
<1>3. CASE q \in Below(p)
  <2>1. PICK e \in Depends(p) : q \in Needs(e)
    BY <1>3 DEF Below
  <2>2. d \in Needs(e)
    BY <2>1, NeedsDown
  <2>3. QED  BY <1>1, <2>1, <2>2 DEF Below
<1>4. QED  BY <1>2, <1>3, NeedsSplit

\* No package is needed before itself.
LEMMA NotBelow ==
    ASSUME NEW p \in Pkg
    PROVE  p \notin Below(p)
<1> SUFFICES ASSUME p \in Below(p) PROVE FALSE
  OBVIOUS
<1> DEFINE S == {r \in Needs(p) : p \in Needs(r)}
<1>1. S \in SUBSET Pkg /\ p \in S
  BY NeedsSelf DEF Needs
<1>2. ASSUME NEW r \in S PROVE Depends(r) \cap S # {}
  <2>1. r \in Pkg /\ r \in Needs(p) /\ p \in Needs(r)
    BY <1>1
  <2>2. p \in Below(r)
    BY <2>1, NeedsSplit
  <2>3. PICK d \in Depends(r) : p \in Needs(d)
    BY <2>2 DEF Below
  <2>4. d \in Needs(p)
    BY <2>1, NeedsDown
  <2>5. d \in S
    BY <2>3, <2>4
  <2>6. QED  BY <2>5
<1> HIDE DEF S
<1>3. QED  BY <1>1, <1>2, AcyclicAssumption DEF Depends

\* Who uses a package needs it.
LEMMA UsersNeed ==
    ASSUME NEW q \in Pkg, NEW p \in Users(q, DevDepends)
    PROVE  q \in Needs(p)
<1> DEFINE S == {r \in Pkg : q \in Needs(r)}
<1>1. S \in SUBSET Pkg /\ q \in S
  BY NeedsSelf
<1>2. ASSUME NEW r \in Pkg, Elems(DevDepends[r]) \cap S # {} PROVE r \in S
  <2>1. PICK d \in Elems(DevDepends[r]) : d \in S
    BY <1>2
  <2>2. d \in Depends(r) /\ q \in Needs(d)
    BY <2>1, DependsType
  <2>3. d \in Needs(r)
    BY <2>2, NeedsSelf, NeedsDown
  <2>4. q \in Needs(r)
    BY <2>2, <2>3, NeedsTrans
  <2>5. QED  BY <2>4
<1> HIDE DEF S
<1>3. p \in S
  BY <1>1, <1>2 DEF Users
<1>4. QED  BY <1>3 DEF S

----------------------------------------------------------------------------
\* The order of the scripts that wait for one another

\* A script works on something that is needed by those that wait for it, and
\* an installdev on something that is needed before their packages.
Ordered ==
    \A i, j \in DOMAIN stack : i < j =>
        /\ stack[i].pkg \in Needs(stack[j].pkg)
        /\ stack[i].op = "installdev" => stack[i].pkg \in Below(stack[j].pkg)

\* A loop is over dependencies of the package.
Loops == \A i \in DOMAIN stack : Elems(stack[i].todo) \subseteq Depends(stack[i].pkg)

\* The scripts that run stay in order when the one on top goes on,
LEMMA OrderGoto ==
    ASSUME stack \in Seq(Frames), stack # <<>>, Ordered, Loops,
           NEW l \in Labels, NEW todo \in Seq(Pkg),
           Elems(todo) \subseteq Depends(stack[1].pkg), Goto(l, todo)
    PROVE  Ordered' /\ Loops'
<1>1. /\ DOMAIN stack' = DOMAIN stack
      /\ \A j \in DOMAIN stack : /\ stack'[j].op = stack[j].op
                                 /\ stack'[j].pkg = stack[j].pkg
      /\ stack'[1].todo = todo
      /\ \A j \in DOMAIN stack : j # 1 => stack'[j] = stack[j]
  BY GotoShape
<1>2. Ordered'
  BY <1>1 DEF Ordered
<1>3. Loops'
  BY <1>1 DEF Loops
<1>4. QED  BY <1>2, <1>3

\* when it calls another,
LEMMA OrderCall ==
    ASSUME stack \in Seq(Frames), stack # <<>>, Ordered, Loops,
           NEW op \in Ops, NEW q \in Pkg,
           NEW l \in Labels, NEW todo \in Seq(Pkg),
           Elems(todo) \subseteq Depends(stack[1].pkg),
           \/ q \in Depends(stack[1].pkg)
           \/ q = stack[1].pkg /\ op # "installdev",
           Call(op, q, l, todo)
    PROVE  Ordered' /\ Loops'
<1>t. /\ Len(stack) \in Nat \ {0}
      /\ DOMAIN stack = 1 .. Len(stack)
      /\ \A j \in DOMAIN stack : stack[j] \in Frames /\ stack[j].pkg \in Pkg
  BY TopShape DEF Frames
<1>1. /\ DOMAIN stack' = 1 .. (Len(stack) + 1)
      /\ stack'[1] = Frame(op, q)
      /\ stack'[2].op = stack[1].op /\ stack'[2].pkg = stack[1].pkg
      /\ stack'[2].todo = todo
      /\ \A j \in DOMAIN stack' : j \notin {1, 2} =>
           /\ j - 1 \in DOMAIN stack /\ j - 1 # 1
           /\ stack'[j] = stack[j - 1]
  BY CallShape
<1>f. /\ stack'[1].op = op /\ stack'[1].pkg = q /\ stack'[1].todo = <<>>
      /\ Elems(stack'[1].todo) = {}
  BY <1>1 DEF Frame, Elems
<1>2. \A j \in DOMAIN stack' : j # 1 =>
          /\ j - 1 \in DOMAIN stack
          /\ stack'[j].op = stack[j - 1].op
          /\ stack'[j].pkg = stack[j - 1].pkg
  BY <1>1, <1>t
<1>3. \A j \in DOMAIN stack : stack[1].pkg \in Needs(stack[j].pkg)
  BY <1>t, NeedsSelf DEF Ordered
<1>4. ASSUME NEW j \in DOMAIN stack
      PROVE  /\ q \in Needs(stack[j].pkg)
             /\ op = "installdev" => q \in Below(stack[j].pkg)
  <2>1. stack[j].pkg \in Pkg /\ stack[1].pkg \in Needs(stack[j].pkg)
    BY <1>3, <1>t
  <2>2. CASE q \in Depends(stack[1].pkg)
    BY <2>1, <2>2, NeedsDown, BelowDown
  <2>3. CASE q = stack[1].pkg /\ op # "installdev"
    BY <2>1, <2>3
  <2>4. QED  BY <2>2, <2>3
<1>5. Ordered'
  <2> SUFFICES ASSUME NEW i \in DOMAIN stack', NEW j \in DOMAIN stack', i < j
               PROVE  /\ stack'[i].pkg \in Needs(stack'[j].pkg)
                      /\ stack'[i].op = "installdev"
                            => stack'[i].pkg \in Below(stack'[j].pkg)
    BY DEF Ordered
  <2>0. i \in Nat \ {0} /\ j \in Nat /\ j # 1
    BY <1>1, <1>t
  <2>1. /\ j - 1 \in DOMAIN stack /\ stack'[j].pkg = stack[j - 1].pkg
    BY <1>2, <2>0
  <2>2. CASE i = 1
    BY <2>1, <2>2, <1>4, <1>f
  <2>3. CASE i # 1
    <3>1. /\ i - 1 \in DOMAIN stack /\ i - 1 < j - 1
          /\ stack'[i].pkg = stack[i - 1].pkg /\ stack'[i].op = stack[i - 1].op
      BY <1>2, <2>0, <2>3
    <3>2. QED  BY <2>1, <3>1 DEF Ordered
  <2>4. QED  BY <2>2, <2>3
<1>6. Loops'
  <2> SUFFICES ASSUME NEW j \in DOMAIN stack'
               PROVE  Elems(stack'[j].todo) \subseteq Depends(stack'[j].pkg)
    BY DEF Loops
  <2>1. CASE j = 1
    BY <2>1, <1>f
  <2>2. CASE j = 2
    BY <2>2, <1>1
  <2>3. CASE j \notin {1, 2}
    BY <2>3, <1>1 DEF Loops
  <2>4. QED  BY <2>1, <2>2, <2>3
<1>7. QED  BY <1>5, <1>6

\* and when it ends.
LEMMA OrderReturn ==
    ASSUME stack \in Seq(Frames), stack # <<>>, Ordered, Loops, Return
    PROVE  Ordered' /\ Loops'
<1>1. \A j \in DOMAIN stack' :
          j \in Nat /\ j + 1 \in DOMAIN stack /\ stack'[j] = stack[j + 1]
  BY ReturnShape
<1>2. Ordered'
  <2> SUFFICES ASSUME NEW i \in DOMAIN stack', NEW j \in DOMAIN stack', i < j
               PROVE  /\ stack'[i].pkg \in Needs(stack'[j].pkg)
                      /\ stack'[i].op = "installdev"
                            => stack'[i].pkg \in Below(stack'[j].pkg)
    BY DEF Ordered
  <2>1. /\ i + 1 \in DOMAIN stack /\ j + 1 \in DOMAIN stack /\ i + 1 < j + 1
        /\ stack'[i] = stack[i + 1] /\ stack'[j] = stack[j + 1]
    BY <1>1
  <2>2. QED  BY <2>1 DEF Ordered
<1>3. Loops'
  BY <1>1 DEF Loops
<1>4. QED  BY <1>2, <1>3

\* A loop over dependencies keeps the order.
LEMMA OrderForEach ==
    ASSUME stack \in Seq(Frames), stack # <<>>, Ordered, Loops,
           NEW op \in Ops, NEW l \in Labels, ForEach(op, l)
    PROVE  Ordered' /\ Loops'
<1>t. /\ 1 \in DOMAIN stack /\ stack[1] = Head(stack)
      /\ Elems(Todo) \subseteq Depends(stack[1].pkg)
  BY TopShape DEF Loops, Todo
<1>1. CASE Todo = <<>>
  <2>1. Goto(l, <<>>) /\ <<>> \in Seq(Pkg) /\ Elems(<<>>) = {}
    BY <1>1 DEF ForEach, Elems
  <2>2. QED  BY <2>1, OrderGoto
<1>2. CASE Todo # <<>>
  <2>1. /\ Head(Todo) \in Pkg /\ Tail(Todo) \in Seq(Pkg)
        /\ Head(Todo) \in Elems(Todo) /\ Elems(Tail(Todo)) \subseteq Elems(Todo)
    BY <1>2, TopType, ListElems
  <2>2. Head(stack).at \in Labels
    BY TopType DEF Frames
  <2>3. Call(op, Head(Todo), Head(stack).at, Tail(Todo))
    BY <1>2 DEF ForEach
  <2>4. QED  BY <1>t, <2>1, <2>2, <2>3, OrderCall
<1>3. QED  BY <1>1, <1>2

\* Every step of a script keeps the order.
LEMMA OrderStep ==
    ASSUME TypeOK, Ordered, Loops, NEW p \in Pkg, Step(p)
    PROVE  Ordered' /\ Loops'
<1>d. /\ stack \in Seq(Frames)
      /\ BuildDepends[p] \in Seq(Pkg) /\ DevDepends[p] \in Seq(Pkg)
      /\ Elems(BuildDepends[p]) \subseteq Depends(p)
      /\ Elems(DevDepends[p]) \subseteq Depends(p)
  BY DependsAssumption, DependsType DEF TypeOK
<1>l. /\ {"start", "wipe", "packagedev", "installdev", "rule", "conflicts",
          "depends", "opkg"} \subseteq Labels
      /\ {"build", "packagedev", "installdev"} \subseteq Ops
      /\ <<>> \in Seq(Pkg) /\ Elems(<<>>) = {}
  BY DEF Labels, Ops, Elems
<1>a. ASSUME stack = <<>> PROVE Ordered /\ Loops
  BY <1>a DEF Ordered, Loops
<1>h. ASSUME stack # <<>>, Head(stack).pkg = p
      PROVE  /\ stack[1].pkg = p /\ Elems(Todo) \subseteq Depends(p)
             /\ Todo \in Seq(Pkg)
  <2>1. 1 \in DOMAIN stack /\ stack[1] = Head(stack) /\ Todo \in Seq(Pkg)
    BY <1>h, <1>d, TopShape, TopType
  <2>2. Elems(stack[1].todo) \subseteq Depends(stack[1].pkg)
    BY <2>1 DEF Loops
  <2>3. QED  BY <1>h, <2>1, <2>2 DEF Todo
<1>1. CASE BuildStart(p)
  <2>1. stack # <<>> /\ Head(stack).pkg = p
    BY <1>1 DEF BuildStart, At
  <2>2. \/ Return
        \/ \E l \in Labels : Goto(l, BuildDepends[p])
    BY <1>1, <1>l DEF BuildStart
  <2>3. QED  BY <2>1, <2>2, <1>d, <1>h, OrderGoto, OrderReturn
<1>2. CASE BuildWipe(p)
  <2>1. stack # <<>> /\ Head(stack).pkg = p
    BY <1>2 DEF BuildWipe, At
  <2>2. CASE installed = {}
    <3>1. Goto("packagedev", Todo)
      BY <1>2, <2>2 DEF BuildWipe
    <3>2. QED  BY <2>1, <3>1, <1>d, <1>h, <1>l, OrderGoto
  <2>3. CASE installed # {}
    BY <1>2, <2>3 DEF BuildWipe, Ordered, Loops
  <2>4. QED  BY <2>2, <2>3
<1>3. CASE BuildPackagedev(p)
  <2>1. stack # <<>> /\ Head(stack).pkg = p
    BY <1>3 DEF BuildPackagedev, At
  <2>2. CASE Todo = <<>>
    <3>1. Goto("installdev", BuildDepends[p])
      BY <1>3, <2>2 DEF BuildPackagedev
    <3>2. QED  BY <2>1, <3>1, <1>d, <1>h, <1>l, OrderGoto
  <2>3. CASE Todo # <<>>
    <3>1. /\ Head(Todo) \in Pkg /\ Tail(Todo) \in Seq(Pkg)
          /\ Head(Todo) \in Elems(Todo) /\ Elems(Tail(Todo)) \subseteq Elems(Todo)
      BY <2>3, <2>1, <1>h, ListElems
    <3>2. Call("packagedev", Head(Todo), "packagedev", Tail(Todo))
      BY <1>3, <2>3 DEF BuildPackagedev
    <3>3. QED  BY <2>1, <3>1, <3>2, <1>d, <1>h, <1>l, OrderCall
  <2>4. QED  BY <2>2, <2>3
<1>4. CASE BuildInstalldev(p)
  BY <1>4, <1>d, <1>l, OrderForEach DEF BuildInstalldev, At
<1>5. CASE BuildRule(p) \/ PackagedevRule(p) \/ InstalldevOpkg(p)
  BY <1>5, <1>d, OrderReturn DEF BuildRule, PackagedevRule, InstalldevOpkg, At
<1>6. CASE PackagedevStart(p)
  <2>1. stack # <<>> /\ Head(stack).pkg = p
    BY <1>6 DEF PackagedevStart, At
  <2>2. \/ Return
        \/ Call("build", p, "rule", <<>>)
    BY <1>6 DEF PackagedevStart
  <2>3. QED  BY <2>1, <2>2, <1>d, <1>h, <1>l, OrderCall, OrderReturn
<1>7. CASE InstalldevStart(p)
  <2>1. stack # <<>> /\ Head(stack).pkg = p
    BY <1>7 DEF InstalldevStart, At
  <2>2. \/ Return
        \/ Call("packagedev", p, "conflicts", <<>>)
    BY <1>7 DEF InstalldevStart
  <2>3. QED  BY <2>1, <2>2, <1>d, <1>h, <1>l, OrderCall, OrderReturn
<1>8. CASE InstalldevConflicts(p)
  <2>1. stack # <<>> /\ Head(stack).pkg = p /\ Goto("depends", DevDepends[p])
    BY <1>8 DEF InstalldevConflicts, At
  <2>2. QED  BY <2>1, <1>d, <1>h, <1>l, OrderGoto
<1>9. CASE InstalldevDepends(p)
  BY <1>9, <1>d, <1>l, OrderForEach DEF InstalldevDepends, At
<1>10. CASE InstalldevRefused(p)
  BY <1>10 DEF InstalldevRefused, Ordered, Loops
<1>11. QED
  BY <1>1, <1>2, <1>3, <1>4, <1>5, <1>6, <1>7, <1>8, <1>9, <1>10 DEF Step

\* The scripts that wait for one another are always in order: whatever runs
\* works on something that all that wait for it need.
THEOREM AlwaysInOrder == Spec => [](Ordered /\ Loops)
<1>1. Init => Ordered /\ Loops
  BY DEF Init, Ordered, Loops
<1>2. TypeOK /\ (Ordered /\ Loops) /\ [Next]_vars => (Ordered /\ Loops)'
  <2> SUFFICES ASSUME TypeOK, Ordered, Loops, [Next]_vars
               PROVE  Ordered' /\ Loops'
    OBVIOUS
  <2>1. ASSUME NEW p \in Pkg, Step(p) PROVE Ordered' /\ Loops'
    BY <2>1, OrderStep
  <2>2. ASSUME NEW p \in Pkg, NEW op \in Commands, Start(op, p)
        PROVE  Ordered' /\ Loops'
    <3>1. stack' = <<Frame(op, p)>> /\ Frame(op, p).todo = <<>>
      BY <2>2 DEF Start, Frame
    <3>2. DOMAIN stack' = {1} /\ stack'[1].todo = <<>>
      BY <3>1
    <3>3. QED  BY <3>2 DEF Ordered, Loops, Elems
  <2>3. ASSUME UNCHANGED stack PROVE Ordered' /\ Loops'
    BY <2>3 DEF Ordered, Loops
  <2>4. CASE \E p \in Pkg : Edit(p)
    BY <2>3, <2>4 DEF Edit, Clean, Bump, EditBuild, EditInstalldev
  <2>5. CASE Abort
    BY <2>5 DEF Abort, Ordered, Loops
  <2>6. CASE UNCHANGED vars
    BY <2>3, <2>6 DEF vars
  <2>7. QED  BY <2>1, <2>2, <2>4, <2>5, <2>6 DEF Next
<1>3. QED  BY <1>1, <1>2, TypeCorrect, PTL DEF Spec

----------------------------------------------------------------------------
\* Conflicts

\* Hypothesis: no package needs two packages that are in conflict.
Compatible == \A r \in Pkg : \A p, q \in Needs(r) : q \notin Conflicts[p]

\* Hypothesis: if a package conflicts with another, so does the other with it.
Mutual == \A p, q \in Pkg : q \in Conflicts[p] => p \in Conflicts[q]

\* The packages an installdev has removed for a conflict stay away while it
\* installs what its own package needs.
Cleared ==
    \A j \in DOMAIN stack :
        stack[j].op = "installdev" /\ stack[j].at \in {"depends", "opkg"}
            => Conflicts[stack[j].pkg] \cap installed = {}

\* No conflicting package comes back while nothing is installed: when the
\* script on top goes on,
LEMMA ClearedGoto ==
    ASSUME stack \in Seq(Frames), stack # <<>>, Cleared,
           installed' \subseteq installed,
           NEW l \in Labels, NEW todo \in Seq(Pkg), Goto(l, todo),
           \/ stack[1].op # "installdev"
           \/ l \notin {"depends", "opkg"}
           \/ stack[1].at \in {"depends", "opkg"}
           \/ Conflicts[stack[1].pkg] \cap installed' = {}
    PROVE  Cleared'
<1> SUFFICES ASSUME NEW j \in DOMAIN stack', stack'[j].op = "installdev",
                    stack'[j].at \in {"depends", "opkg"}
             PROVE  Conflicts[stack'[j].pkg] \cap installed' = {}
  BY DEF Cleared
<1>1. CASE j = 1
  <2>1. /\ 1 \in DOMAIN stack
        /\ stack'[1].op = stack[1].op /\ stack'[1].pkg = stack[1].pkg
        /\ stack'[1].at = l
    BY <1>1, GotoShape, TopShape
  <2>2. QED  BY <1>1, <2>1 DEF Cleared
<1>2. CASE j # 1
  <2>1. j \in DOMAIN stack /\ stack'[j] = stack[j]
    BY <1>2, GotoShape
  <2>2. QED  BY <2>1 DEF Cleared
<1>3. QED  BY <1>1, <1>2

\* when it calls another,
LEMMA ClearedCall ==
    ASSUME stack \in Seq(Frames), stack # <<>>, Cleared,
           installed' \subseteq installed,
           NEW op \in Ops, NEW q \in Pkg,
           NEW l \in Labels, NEW todo \in Seq(Pkg), Call(op, q, l, todo),
           \/ stack[1].op # "installdev"
           \/ l \notin {"depends", "opkg"}
           \/ stack[1].at \in {"depends", "opkg"}
    PROVE  Cleared'
<1> SUFFICES ASSUME NEW j \in DOMAIN stack', stack'[j].op = "installdev",
                    stack'[j].at \in {"depends", "opkg"}
             PROVE  Conflicts[stack'[j].pkg] \cap installed' = {}
  BY DEF Cleared
<1>f. stack'[1] = Frame(op, q)
  BY CallShape
<1>0. stack'[1].at = "start"
  BY <1>f DEF Frame
<1>1. CASE j = 1
  BY <1>0, <1>1
<1>2. CASE j = 2
  <2>1. /\ 1 \in DOMAIN stack
        /\ stack'[2].op = stack[1].op /\ stack'[2].pkg = stack[1].pkg
        /\ stack'[2].at = l
    BY CallShape, TopShape
  <2>2. QED  BY <1>2, <2>1 DEF Cleared
<1>3. CASE j \notin {1, 2}
  <2>1. j - 1 \in DOMAIN stack /\ stack'[j] = stack[j - 1]
    BY <1>3, CallShape
  <2>2. QED  BY <2>1 DEF Cleared
<1>4. QED  BY <1>1, <1>2, <1>3

\* and when it ends.
LEMMA ClearedReturn ==
    ASSUME stack \in Seq(Frames), stack # <<>>, Cleared, Return,
           installed' \subseteq installed
    PROVE  Cleared'
BY ReturnShape DEF Cleared

\* A loop over dependencies does not change the line of a script before its end.
LEMMA ClearedForEach ==
    ASSUME stack \in Seq(Frames), stack # <<>>, Cleared,
           installed' \subseteq installed,
           NEW op \in Ops, NEW l \in Labels, ForEach(op, l),
           \/ stack[1].op # "installdev"
           \/ stack[1].at \in {"depends", "opkg"}
    PROVE  Cleared'
<1>1. CASE Todo = <<>>
  <2>1. Goto(l, <<>>) /\ <<>> \in Seq(Pkg)
    BY <1>1 DEF ForEach
  <2>2. QED  BY <2>1, ClearedGoto
<1>2. CASE Todo # <<>>
  <2>1. Head(Todo) \in Pkg /\ Tail(Todo) \in Seq(Pkg)
    BY <1>2, TopType, ListElems
  <2>2. Head(stack).at \in Labels
    BY TopType DEF Frames
  <2>3. Call(op, Head(Todo), Head(stack).at, Tail(Todo))
    BY <1>2 DEF ForEach
  <2>4. QED  BY <2>1, <2>2, <2>3, ClearedCall
<1>3. QED  BY <1>1, <1>2

\* Without conflicts inside a toolchain there are none inside a part of it.
LEMMA FewerConflicts ==
    ASSUME NoConflict, installed' \subseteq installed
    PROVE  NoConflict'
BY DEF NoConflict

\* opkg has removed all it was told to.
LEMMA WithoutThem ==
    ASSUME installed \subseteq Pkg, NEW S
    PROVE  S \cap Without(S) = {}
<1> SUFFICES ASSUME NEW q \in S, q \in Without(S) PROVE FALSE
  OBVIOUS
<1>1. q \in installed /\ q \in Pkg /\ q \notin Users(q, DevDepends)
  BY DEF Without, Remaining
<1>2. QED  BY <1>1, UsersSelf

\* Every step of a script keeps conflicting packages apart.
LEMMA ApartStep ==
    ASSUME Compatible, Mutual, TypeOK, Ordered, Loops, Cleared, NoConflict,
           NEW p \in Pkg, Step(p)
    PROVE  Cleared' /\ NoConflict'
<1>d. /\ stack \in Seq(Frames) /\ installed \subseteq Pkg
      /\ BuildDepends[p] \in Seq(Pkg) /\ DevDepends[p] \in Seq(Pkg)
  BY DependsAssumption DEF TypeOK
<1>l. /\ {"start", "wipe", "packagedev", "installdev", "rule", "conflicts",
          "depends", "opkg"} \subseteq Labels
      /\ {"build", "packagedev", "installdev"} \subseteq Ops
      /\ <<>> \in Seq(Pkg)
  BY DEF Labels, Ops
<1>h. ASSUME stack # <<>>
      PROVE  /\ stack[1] = Head(stack) /\ 1 \in DOMAIN stack
             /\ Todo \in Seq(Pkg)
             /\ \A j \in DOMAIN stack : j \in Nat \ {0} /\ stack[j].pkg \in Pkg
  BY <1>h, <1>d, TopShape, TopType DEF Frames
<1>1. CASE BuildStart(p)
  <2>1. stack # <<>> /\ stack[1].op = "build"
    BY <1>1, <1>h DEF BuildStart, At
  <2>2. installed' \subseteq installed
    BY <1>1, WithoutType DEF BuildStart, Unpackagedev
  <2>3. \/ Return
        \/ \E l \in Labels : Goto(l, BuildDepends[p])
    BY <1>1, <1>l DEF BuildStart
  <2>4. Cleared'
    BY <2>1, <2>2, <2>3, <1>d, ClearedGoto, ClearedReturn
  <2>5. QED  BY <2>2, <2>4, FewerConflicts
<1>2. CASE BuildWipe(p)
  <2>1. stack # <<>> /\ stack[1].op = "build"
    BY <1>2, <1>h DEF BuildWipe, At
  <2>2. installed' \subseteq installed
    BY <1>2, WithoutType DEF BuildWipe
  <2>3. CASE installed = {}
    <3>1. Goto("packagedev", Todo)
      BY <1>2, <2>3 DEF BuildWipe
    <3>2. Cleared'
      BY <2>1, <2>2, <3>1, <1>d, <1>h, <1>l, ClearedGoto
    <3>3. QED  BY <2>2, <3>2, FewerConflicts
  <2>4. CASE installed # {}
    <3>1. stack' = stack
      BY <1>2, <2>4 DEF BuildWipe
    <3>2. QED  BY <2>2, <3>1, FewerConflicts DEF Cleared
  <2>5. QED  BY <2>3, <2>4
<1>3. CASE BuildPackagedev(p)
  <2>1. stack # <<>> /\ stack[1].op = "build" /\ installed' \subseteq installed
    BY <1>3, <1>h DEF BuildPackagedev, At, files
  <2>2. CASE Todo = <<>>
    <3>1. Goto("installdev", BuildDepends[p])
      BY <1>3, <2>2 DEF BuildPackagedev
    <3>2. QED  BY <2>1, <3>1, <1>d, <1>l, ClearedGoto, FewerConflicts
  <2>3. CASE Todo # <<>>
    <3>1. Head(Todo) \in Pkg /\ Tail(Todo) \in Seq(Pkg)
      BY <2>1, <2>3, <1>h, ListElems
    <3>2. Call("packagedev", Head(Todo), "packagedev", Tail(Todo))
      BY <1>3, <2>3 DEF BuildPackagedev
    <3>3. QED  BY <2>1, <3>1, <3>2, <1>d, <1>l, ClearedCall, FewerConflicts
  <2>4. QED  BY <2>2, <2>3
<1>4. CASE BuildInstalldev(p)
  <2>1. /\ stack # <<>> /\ stack[1].op = "build" /\ installed' \subseteq installed
        /\ ForEach("installdev", "rule")
    BY <1>4, <1>h DEF BuildInstalldev, At, files
  <2>2. QED  BY <2>1, <1>d, <1>l, ClearedForEach, FewerConflicts
<1>5. CASE BuildRule(p) \/ PackagedevRule(p)
  <2>1. stack # <<>> /\ Return /\ installed' \subseteq installed
    BY <1>5 DEF BuildRule, PackagedevRule, At
  <2>2. QED  BY <2>1, <1>d, ClearedReturn, FewerConflicts
<1>6. CASE PackagedevStart(p)
  <2>1. /\ stack # <<>> /\ stack[1].op = "packagedev"
        /\ installed' \subseteq installed
    BY <1>6, <1>h, WithoutType DEF PackagedevStart, At
  <2>2. \/ Return
        \/ Call("build", p, "rule", <<>>)
    BY <1>6 DEF PackagedevStart
  <2>3. Cleared'
    BY <2>1, <2>2, <1>d, <1>l, ClearedCall, ClearedReturn
  <2>4. QED  BY <2>1, <2>3, FewerConflicts
<1>7. CASE InstalldevStart(p)
  <2>1. stack # <<>> /\ installed' \subseteq installed
    BY <1>7, WithoutType DEF InstalldevStart, At, Unpackagedev
  <2>2. \/ Return
        \/ Call("packagedev", p, "conflicts", <<>>)
    BY <1>7 DEF InstalldevStart
  <2>3. Cleared'
    BY <2>1, <2>2, <1>d, <1>l, ClearedCall, ClearedReturn
  <2>4. QED  BY <2>1, <2>3, FewerConflicts
<1>8. CASE InstalldevConflicts(p)
  <2>1. /\ stack # <<>> /\ stack[1].pkg = p /\ Goto("depends", DevDepends[p])
        /\ installed' = Without(Conflicts[p])
    BY <1>8, <1>h DEF InstalldevConflicts, At
  <2>2. installed' \subseteq installed /\ Conflicts[p] \cap installed' = {}
    BY <2>1, <1>d, WithoutType, WithoutThem
  <2>3. QED  BY <2>1, <2>2, <1>d, <1>l, ClearedGoto, FewerConflicts
<1>9. CASE InstalldevDepends(p)
  <2>1. /\ stack # <<>> /\ stack[1].at = "depends" /\ installed' \subseteq installed
        /\ ForEach("installdev", "opkg")
    BY <1>9, <1>h DEF InstalldevDepends, At, files
  <2>2. QED  BY <2>1, <1>d, <1>l, ClearedForEach, FewerConflicts
<1>10. CASE InstalldevOpkg(p)
  <2>1. /\ stack # <<>> /\ Return /\ installed' \subseteq installed \cup {p}
        /\ stack[1].op = "installdev" /\ stack[1].at = "opkg" /\ stack[1].pkg = p
    BY <1>10, <1>h DEF InstalldevOpkg, At
  <2>2. Conflicts[p] \cap installed = {}
    BY <2>1, <1>h DEF Cleared
  <2>3. p \notin Conflicts[p]
    BY NeedsSelf DEF Compatible
  <2>4. NoConflict'
    BY <2>1, <2>2, <2>3, <1>d DEF NoConflict, Mutual
  <2>5. ASSUME NEW j \in DOMAIN stack', stack'[j].op = "installdev",
               stack'[j].at \in {"depends", "opkg"}
        PROVE  Conflicts[stack'[j].pkg] \cap installed' = {}
    <3>1. /\ j + 1 \in DOMAIN stack /\ 1 < j + 1
          /\ stack'[j] = stack[j + 1]
      BY <2>1, <1>d, ReturnShape
    <3>2. PICK c \in Pkg : c = stack'[j].pkg
      BY <2>1, <3>1, <1>h
    <3>3. p \in Needs(c)
      BY <2>1, <3>1, <3>2, <1>h DEF Ordered
    <3>4. p \notin Conflicts[c]
      BY <3>2, <3>3, NeedsSelf DEF Compatible
    <3>5. Conflicts[c] \cap installed = {}
      BY <2>5, <3>1, <3>2 DEF Cleared
    <3>6. QED  BY <2>1, <3>2, <3>4, <3>5
  <2>6. QED  BY <2>4, <2>5 DEF Cleared
<1>11. CASE InstalldevRefused(p)
  BY <1>11 DEF InstalldevRefused, Cleared, NoConflict, files
<1>12. QED
  BY <1>1, <1>2, <1>3, <1>4, <1>5, <1>6, <1>7, <1>8, <1>9, <1>10, <1>11 DEF Step

\* Packages that declare a conflict are never in the toolchain together, if
\* they declare it of each other and no package needs two that conflict.
THEOREM NeverTogether ==
    ASSUME Compatible, Mutual
    PROVE  Spec => []NoConflict
<1>1. Init => Cleared /\ NoConflict
  BY DEF Init, Cleared, NoConflict
<1>2. TypeOK /\ (Ordered /\ Loops) /\ (Cleared /\ NoConflict) /\ [Next]_vars
        => (Cleared /\ NoConflict)'
  <2> SUFFICES ASSUME TypeOK, Ordered, Loops, Cleared, NoConflict, [Next]_vars
               PROVE  Cleared' /\ NoConflict'
    OBVIOUS
  <2>1. ASSUME NEW p \in Pkg, Step(p) PROVE Cleared' /\ NoConflict'
    BY <2>1, ApartStep
  <2>2. ASSUME NEW p \in Pkg, NEW op \in Commands, Start(op, p)
        PROVE  Cleared' /\ NoConflict'
    <3>1. stack' = <<Frame(op, p)>> /\ Frame(op, p).at = "start"
      BY <2>2 DEF Start, Frame
    <3>2. DOMAIN stack' = {1} /\ stack'[1].at = "start"
      BY <3>1
    <3>3. QED  BY <2>2, <3>2 DEF Start, files, Cleared, NoConflict
  <2>3. ASSUME UNCHANGED stack, installed' \subseteq installed
        PROVE  Cleared' /\ NoConflict'
    BY <2>3 DEF Cleared, NoConflict
  <2>4. CASE \E p \in Pkg : Edit(p)
    BY <2>3, <2>4, WithoutType DEF Edit, Clean, Bump, EditBuild, EditInstalldev
  <2>5. CASE Abort
    BY <2>5 DEF Abort, Cleared, NoConflict, files
  <2>6. CASE UNCHANGED vars
    BY <2>3, <2>6 DEF vars
  <2>7. QED  BY <2>1, <2>2, <2>4, <2>5, <2>6 DEF Next
<1>3. QED  BY <1>1, <1>2, TypeCorrect, AlwaysInOrder, PTL DEF Spec

----------------------------------------------------------------------------
\* With a static sysroot dependencies are there

\* Frame c waits for the script of frame f, as it does with a static sysroot.
Calls(c, f) ==
    \/ c.op = "build" /\ c.at = "installdev" /\ f.op = "installdev"
    \/ c.op = "packagedev" /\ c.at = "rule" /\ f.op = "build" /\ f.pkg = c.pkg
    \/ c.op = "installdev" /\ c.at = "conflicts" /\ f.op = "packagedev" /\ f.pkg = c.pkg
    \/ c.op = "installdev" /\ c.at = "depends" /\ f.op = "installdev"

\* Every frame waits for the one above it.
Called == \A j \in DOMAIN stack : j # 1 => Calls(stack[j], stack[j - 1])

\* No build empties the toolchain.
NoWipe == \A j \in DOMAIN stack :
    stack[j].op = "build" => stack[j].at \notin {"wipe", "packagedev"}

\* The package that the installdev above frame j installs.
Above(j) ==
    IF j # 1 /\ stack[j - 1].op = "installdev" THEN {stack[j - 1].pkg} ELSE {}

\* The packages in D are installed, are about to be, or are being installed.
Fetched(D, j) == D \subseteq installed \cup Elems(stack[j].todo) \cup Above(j)

\* What frame j can count on where it is: what its loop has gone through is
\* installed; a package that is packaged has no archive, and the one that is
\* installed anew has one.
Fits(j) ==
    LET c == stack[j] IN
    /\ c.op = "build" /\ c.at = "installdev" => Fetched(Elems(BuildDepends[c.pkg]), j)
    /\ c.op = "build" /\ c.at = "rule" => Elems(BuildDepends[c.pkg]) \subseteq installed
    /\ c.op = "packagedev" /\ c.at = "rule" =>
         /\ c.pkg \notin archived
         /\ \/ c.pkg \notin installed
            \/ j = 2 /\ stack[1].op = "build" /\ stack[1].at = "start"
    /\ c.op = "installdev" /\ c.at = "conflicts" =>
         c.pkg \notin installed /\ (j = 1 => c.pkg \in archived)
    /\ c.op = "installdev" /\ c.at = "depends" =>
         c.pkg \in archived /\ Fetched(Elems(DevDepends[c.pkg]), j)
    /\ c.op = "installdev" /\ c.at = "opkg" =>
         c.pkg \in archived /\ Elems(DevDepends[c.pkg]) \subseteq installed

\* Every frame can count on it.
Fit == \A j \in DOMAIN stack : Fits(j)

\* What is installed has an archive, or is cleaned before it is built again.
Rebuildable == installed \subseteq archived \cup (HasSources \ unpacked)

\* No installdev rule is newer than an archive or a control file.
Untouched ==
    \A p \in Pkg, f \in {"archive", "control", "control-archive"} :
        <<f, p>> \notin newer

\* Hypothesis on what a developer does between runs: no installdev rule is
\* edited, and a revision changes only where there are sources to clean
\* the package for.
Undisturbed == /\ "installdev" \notin EditKinds
               /\ "rev" \in EditKinds => HasSources = Pkg

\* What a step must leave as it is for a script that waits.
Kept(j) ==
    LET c == stack[j] IN
    /\ c.op = "build" => Elems(BuildDepends[c.pkg]) \cap installed \subseteq installed'
    /\ c.op = "packagedev" => c.pkg \notin archived' /\ c.pkg \notin installed'
    /\ c.op = "installdev" /\ c.at = "conflicts" => c.pkg \notin installed'
    /\ c.op = "installdev" /\ c.at = "depends" =>
         /\ c.pkg \in archived'
         /\ Elems(DevDepends[c.pkg]) \cap installed \subseteq installed'

\* A script that waits and is left alone has what it had.
LEMMA FitsKept ==
    ASSUME Called, NEW j \in DOMAIN stack, j # 1, Fits(j), Kept(j),
           NEW k \in DOMAIN stack', k # 1,
           stack'[k] = stack[j], Above(k)' = Above(j)
    PROVE  Fits(k)'
<1>1. Calls(stack[j], stack[j - 1])
  BY DEF Called
<1>2. CASE stack[j].op = "build"
  BY <1>1, <1>2 DEF Calls, Fits, Kept, Fetched
<1>3. CASE stack[j].op = "packagedev"
  BY <1>1, <1>3 DEF Calls, Fits, Kept
<1>4. CASE stack[j].op = "installdev"
  BY <1>1, <1>4 DEF Calls, Fits, Kept, Fetched
<1>5. QED  BY <1>1, <1>2, <1>3, <1>4 DEF Calls

\* A step that installs, removes and archives nothing disturbs nobody.
LEMMA KeptSame ==
    ASSUME Called, Fit, NEW j \in DOMAIN stack, j # 1,
           archived' = archived, installed' = installed,
           j # 2 \/ stack[1].op # "build" \/ stack[1].at # "start"
    PROVE  Kept(j)
<1>1. Calls(stack[j], stack[j - 1])
  BY DEF Called
<1>2. Fits(j)
  BY DEF Fit
<1>3. QED  BY <1>1, <1>2 DEF Calls, Fits, Kept

\* Called and Fit when the script on top goes on,
LEMMA FitGoto ==
    ASSUME stack \in Seq(Frames), stack # <<>>, Called, Fit,
           NEW l \in Labels, NEW todo \in Seq(Pkg), Goto(l, todo),
           \A j \in DOMAIN stack : j # 1 => Kept(j),
           Fits(1)'
    PROVE  Called' /\ Fit'
<1>1. /\ DOMAIN stack' = DOMAIN stack
      /\ stack'[1].op = stack[1].op /\ stack'[1].pkg = stack[1].pkg
      /\ \A j \in DOMAIN stack : j # 1 => stack'[j] = stack[j]
  BY GotoShape
<1>t. \A j \in DOMAIN stack : j # 1 => j - 1 \in DOMAIN stack
  BY TopShape
<1>2. \A j \in DOMAIN stack : /\ stack'[j].op = stack[j].op
                              /\ stack'[j].pkg = stack[j].pkg
  BY <1>1
<1>3. Called'
  <2> SUFFICES ASSUME NEW j \in DOMAIN stack', j # 1
               PROVE  Calls(stack'[j], stack'[j - 1])
    BY DEF Called, Calls
  <2>1. /\ j \in DOMAIN stack /\ stack'[j] = stack[j]
        /\ stack'[j - 1].op = stack[j - 1].op
        /\ stack'[j - 1].pkg = stack[j - 1].pkg
        /\ Calls(stack[j], stack[j - 1])
    BY <1>1, <1>2, <1>t DEF Called
  <2>2. QED  BY <2>1 DEF Calls
<1>4. ASSUME NEW j \in DOMAIN stack' PROVE Fits(j)'
  <2>1. CASE j = 1
    BY <2>1
  <2>2. CASE j # 1
    <3>1. j \in DOMAIN stack /\ stack'[j] = stack[j] /\ Fits(j) /\ Kept(j)
      BY <1>1, <2>2 DEF Fit
    <3>2. /\ stack'[j - 1].op = stack[j - 1].op
          /\ stack'[j - 1].pkg = stack[j - 1].pkg
      BY <1>2, <1>t, <2>2, <3>1
    <3>3. Above(j)' = Above(j)
      BY <3>2 DEF Above
    <3>4. QED  BY <2>2, <3>1, <3>3, FitsKept
  <2>3. QED  BY <2>1, <2>2
<1>5. QED  BY <1>3, <1>4 DEF Fit

\* when it calls another,
LEMMA FitCall ==
    ASSUME stack \in Seq(Frames), stack # <<>>, Called, Fit,
           NEW op \in Ops, NEW q \in Pkg,
           NEW l \in Labels, NEW todo \in Seq(Pkg), Call(op, q, l, todo),
           \A j \in DOMAIN stack : j # 1 => Kept(j),
           Calls(stack'[2], stack'[1]), Fits(2)'
    PROVE  Called' /\ Fit'
<1>t. Len(stack) \in Nat \ {0} /\ DOMAIN stack = 1 .. Len(stack)
  BY TopShape
<1>1. /\ DOMAIN stack' = 1 .. (Len(stack) + 1)
      /\ stack'[1] = Frame(op, q)
      /\ stack'[2].op = stack[1].op /\ stack'[2].pkg = stack[1].pkg
      /\ \A j \in DOMAIN stack' : j \notin {1, 2} =>
           /\ j - 1 \in DOMAIN stack /\ j - 1 # 1
           /\ stack'[j] = stack[j - 1]
  BY CallShape
<1>2. ASSUME NEW j \in DOMAIN stack', j \notin {1, 2}
      PROVE  /\ j - 1 \in DOMAIN stack /\ j - 1 # 1
             /\ stack'[j] = stack[j - 1]
             /\ stack'[j - 1].op = stack[j - 2].op
             /\ stack'[j - 1].pkg = stack[j - 2].pkg
  <2>1. j - 1 \in DOMAIN stack /\ j - 1 # 1 /\ stack'[j] = stack[j - 1]
    BY <1>1, <1>2
  <2>2. CASE j - 1 = 2
    <3>1. j - 2 = 1
      BY <2>2, <1>1, <1>t
    <3>2. QED  BY <2>1, <2>2, <3>1, <1>1
  <2>3. CASE j - 1 # 2
    <3>1. j - 1 \in DOMAIN stack' /\ j - 1 \notin {1, 2} /\ (j - 1) - 1 = j - 2
      BY <2>1, <2>3, <1>1, <1>t
    <3>2. stack'[j - 1] = stack[j - 2]
      BY <3>1, <1>1
    <3>3. QED  BY <2>1, <3>2
  <2>4. QED  BY <2>2, <2>3
<1>3. \A j \in DOMAIN stack' : j \in Nat \ {0} /\ (j - 1) - 1 = j - 2
  BY <1>1, <1>t
<1>4. Called'
  <2> SUFFICES ASSUME NEW j \in DOMAIN stack', j # 1
               PROVE  Calls(stack'[j], stack'[j - 1])
    BY DEF Called, Calls
  <2>1. CASE j = 2
    BY <2>1
  <2>2. CASE j # 2
    <3>1. Calls(stack[j - 1], stack[j - 2])
      BY <1>2, <1>3, <2>2 DEF Called
    <3>2. QED  BY <1>2, <2>2, <3>1 DEF Calls
  <2>3. QED  BY <2>1, <2>2
<1>5. ASSUME NEW j \in DOMAIN stack' PROVE Fits(j)'
  <2>1. CASE j = 1
    <3>1. stack'[1].at = "start"
      BY <1>1 DEF Frame
    <3>2. QED  BY <2>1, <3>1 DEF Fits
  <2>2. CASE j = 2
    BY <2>2
  <2>3. CASE j \notin {1, 2}
    <3>1. PICK i \in DOMAIN stack : i = j - 1
      BY <1>2, <2>3
    <3>2. i # 1 /\ stack'[j] = stack[i] /\ Fits(i) /\ Kept(i)
      BY <1>2, <2>3, <3>1 DEF Fit
    <3>3. /\ stack'[j - 1].op = stack[i - 1].op
          /\ stack'[j - 1].pkg = stack[i - 1].pkg
      BY <1>2, <1>3, <2>3, <3>1
    <3>4. Above(j)' = Above(i)
      BY <2>3, <3>2, <3>3 DEF Above
    <3>5. QED  BY <2>3, <3>2, <3>4, FitsKept
  <2>4. QED  BY <2>1, <2>2, <2>3
<1>6. QED  BY <1>4, <1>5 DEF Fit

\* and when it ends.
LEMMA FitReturn ==
    ASSUME stack \in Seq(Frames), stack # <<>>, Called, Fit, Return,
           \A j \in DOMAIN stack : j \notin {1, 2} => Kept(j),
           1 \in DOMAIN stack' => Fits(1)'
    PROVE  Called' /\ Fit'
<1>1. \A j \in DOMAIN stack' :
          /\ j \in Nat \ {0} /\ j + 1 \in DOMAIN stack
          /\ stack'[j] = stack[j + 1]
  BY ReturnShape
<1>2. DOMAIN stack' = 1 .. Len(stack')
  BY TopType, LenProperties DEF Return
<1>l. Len(stack') \in Nat
  BY TopType, LenProperties DEF Return
<1>3. ASSUME NEW j \in DOMAIN stack', j # 1
      PROVE  /\ j + 1 \in DOMAIN stack /\ j + 1 \notin {1, 2}
             /\ (j + 1) - 1 = j
             /\ stack'[j] = stack[j + 1] /\ stack'[j - 1] = stack[j]
  <2>1. j - 1 \in DOMAIN stack' /\ (j - 1) + 1 = j
    BY <1>1, <1>2, <1>3, <1>l
  <2>2. stack'[j - 1] = stack[j]
    BY <1>1, <2>1
  <2>3. QED  BY <1>1, <1>3, <2>2
<1>4. Called'
  <2> SUFFICES ASSUME NEW j \in DOMAIN stack', j # 1
               PROVE  Calls(stack'[j], stack'[j - 1])
    BY DEF Called, Calls
  <2>1. Calls(stack[j + 1], stack[j])
    BY <1>3 DEF Called
  <2>2. QED  BY <1>3, <2>1
<1>5. ASSUME NEW j \in DOMAIN stack' PROVE Fits(j)'
  <2>1. CASE j = 1
    BY <2>1
  <2>2. CASE j # 1
    <3>1. PICK i \in DOMAIN stack : i = j + 1
      BY <1>3, <2>2
    <3>2. i \notin {1, 2} /\ stack'[j] = stack[i] /\ Fits(i) /\ Kept(i)
      BY <1>3, <2>2, <3>1 DEF Fit
    <3>3. stack'[j - 1] = stack[i - 1]
      BY <1>3, <2>2, <3>1
    <3>4. Above(j)' = Above(i)
      BY <2>2, <3>2, <3>3 DEF Above
    <3>5. QED  BY <2>2, <3>2, <3>4, FitsKept
  <2>3. QED  BY <2>1, <2>2
<1>6. QED  BY <1>4, <1>5 DEF Fit

\* The inductive invariant of a static sysroot.
WaitInv == Called /\ NoWipe /\ Fit /\ Rebuildable /\ Untouched

\* What a line needs to know of the call stack below it.
LEMMA Below2 ==
    ASSUME stack \in Seq(Frames), stack # <<>>
    PROVE  /\ 1 \in DOMAIN stack /\ stack[1] = Head(stack)
           /\ \A j \in DOMAIN stack :
                /\ j \in Nat \ {0} /\ stack[j].pkg \in Pkg
                /\ j # 1 => 1 < j /\ 2 \in DOMAIN stack
                /\ j \notin {1, 2} => 2 < j /\ 3 \in DOMAIN stack
BY TopShape DEF Frames

\* After the end of a script the frame below its own is the first.
LEMMA ReturnTop ==
    ASSUME stack \in Seq(Frames), stack # <<>>, Return, 1 \in DOMAIN stack'
    PROVE  2 \in DOMAIN stack /\ stack'[1] = stack[2]
BY ReturnShape

\* NoWipe where the script on top does not go to the emptying of the toolchain.
LEMMA NoWipeGoto ==
    ASSUME stack \in Seq(Frames), stack # <<>>, NoWipe,
           NEW l \in Labels, NEW todo \in Seq(Pkg), Goto(l, todo),
           stack[1].op = "build" => l \notin {"wipe", "packagedev"}
    PROVE  NoWipe'
BY GotoShape DEF NoWipe

\* NoWipe where it calls another,
LEMMA NoWipeCall ==
    ASSUME stack \in Seq(Frames), stack # <<>>, NoWipe,
           NEW op \in Ops, NEW q \in Pkg,
           NEW l \in Labels, NEW todo \in Seq(Pkg), Call(op, q, l, todo),
           stack[1].op = "build" => l \notin {"wipe", "packagedev"}
    PROVE  NoWipe'
<1> SUFFICES ASSUME NEW j \in DOMAIN stack', stack'[j].op = "build"
             PROVE  stack'[j].at \notin {"wipe", "packagedev"}
  BY DEF NoWipe
<1>f. stack'[1] = Frame(op, q)
  BY CallShape
<1>1. CASE j = 1
  BY <1>1, <1>f DEF Frame
<1>2. CASE j = 2
  BY <1>2, CallShape
<1>3. CASE j \notin {1, 2}
  <2>1. j - 1 \in DOMAIN stack /\ stack'[j] = stack[j - 1]
    BY <1>3, CallShape
  <2>2. QED  BY <2>1 DEF NoWipe
<1>4. QED  BY <1>1, <1>2, <1>3

\* and where it ends.
LEMMA NoWipeReturn ==
    ASSUME stack \in Seq(Frames), stack # <<>>, NoWipe, Return
    PROVE  NoWipe'
BY ReturnShape DEF NoWipe

\* Removing what is not installed removes nothing.
LEMMA WithoutAbsent ==
    ASSUME NEW S, S \cap installed = {}
    PROVE  Without(S) = installed
BY DEF Without, Remaining

\* Removing the conflicts of a package takes nothing from those that need it.
LEMMA WithoutRivals ==
    ASSUME Compatible, installed \subseteq Pkg,
           NEW c \in Pkg, NEW p \in Needs(c)
    PROVE  Depends(c) \cap installed \subseteq Without(Conflicts[p])
<1> SUFFICES ASSUME NEW d \in Depends(c), d \in installed,
                    NEW q \in Conflicts[p], q \in installed,
                    d \in Users(q, DevDepends)
             PROVE  FALSE
  BY DEF Without, Remaining
<1>1. q \in Needs(d)
  BY UsersNeed
<1>2. q \in Needs(c)
  BY <1>1, NeedsSelf, NeedsDown, NeedsTrans
<1>3. QED  BY <1>2 DEF Compatible

\* A build on which others wait removes nothing that is not its own: either
\* its package has an archive, or it is not installed after it was cleaned.
LEMMA BuildStartFiles ==
    ASSUME installed \subseteq Pkg, Rebuildable, NEW p \in Pkg, BuildStart(p)
    PROVE  /\ Rebuildable'
           /\ installed' \subseteq installed
           /\ p \notin archived => p \notin installed' /\ archived' = archived
           /\ p \notin installed => installed' = installed
<1> DEFINE unpack == p \in HasSources \ unpacked
           again == ~unpack /\ p \in built /\ <<"build", p>> \in newer
<1>1. /\ unpacked' = IF unpack THEN (unpacked \ Namesakes[p]) \cup {p} ELSE unpacked
      /\ archived' = IF unpack \/ again THEN archived \ {p} ELSE archived
      /\ unpack => installed' = Without({p})
      /\ again => installed' = Unpackagedev(p)
      /\ ~unpack /\ ~again => installed' = installed
  BY DEF BuildStart
<1>2. p \notin Without({p}) /\ Without({p}) \subseteq installed
  BY WithoutThem, WithoutType
<1>3. p \notin installed => Without({p}) = installed
  BY WithoutAbsent
<1>4. p \in installed => p \in archived \/ unpack
  BY DEF Rebuildable
<1>5. again => ~unpack
  OBVIOUS
<1> HIDE DEF unpack, again
<1>6. /\ installed' \subseteq installed
      /\ p \notin archived => p \notin installed' /\ archived' = archived
      /\ p \notin installed => installed' = installed
      /\ unpack \/ again => p \notin installed'
  <2>1. CASE unpack
    BY <1>1, <1>2, <1>3, <2>1
  <2>2. CASE again
    BY <1>1, <1>2, <1>3, <1>4, <1>5, <2>2 DEF Unpackagedev
  <2>3. CASE ~unpack /\ ~again
    BY <1>1, <1>4, <2>3
  <2>4. QED  BY <2>1, <2>2, <2>3
<1>7. Rebuildable'
  <2>1. CASE unpack
    BY <1>1, <1>6, <2>1 DEF Rebuildable
  <2>2. CASE again
    BY <1>1, <1>5, <1>6, <2>2 DEF Rebuildable
  <2>3. CASE ~unpack /\ ~again
    BY <1>1, <2>3 DEF Rebuildable
  <2>4. QED  BY <2>1, <2>2, <2>3
<1>8. QED  BY <1>6, <1>7

\* Every step of a script keeps what the scripts that wait have fetched.
LEMMA WaitStep ==
    ASSUME ~Dynamic, Compatible, TypeOK, Ordered, Loops, WaitInv,
           NEW p \in Pkg, Step(p)
    PROVE  WaitInv'
<1>d. /\ stack \in Seq(Frames) /\ installed \subseteq Pkg
      /\ BuildDepends[p] \in Seq(Pkg) /\ DevDepends[p] \in Seq(Pkg)
  BY DependsAssumption DEF TypeOK
<1>l. /\ {"start", "wipe", "packagedev", "installdev", "rule", "conflicts",
          "depends", "opkg"} \subseteq Labels
      /\ {"build", "packagedev", "installdev"} \subseteq Ops
      /\ <<>> \in Seq(Pkg) /\ Elems(<<>>) = {}
  BY DEF Labels, Ops, Elems
<1>i. Called /\ NoWipe /\ Fit /\ Rebuildable /\ Untouched
  BY DEF WaitInv
<1>w. SUFFICES Called' /\ NoWipe' /\ Fit' /\ Rebuildable' /\ Untouched'
  BY DEF WaitInv
<1>h. ASSUME stack # <<>>, Head(stack).pkg = p
      PROVE  /\ 1 \in DOMAIN stack /\ stack[1] = Head(stack) /\ stack[1].pkg = p
             /\ Fits(1)
             /\ \A j \in DOMAIN stack :
                  /\ j \in Nat \ {0} /\ stack[j].pkg \in Pkg
                  /\ j # 1 => /\ 2 \in DOMAIN stack
                              /\ Calls(stack[2], stack[1]) /\ Fits(2)
                              /\ p \in Needs(stack[j].pkg)
                              /\ stack[1].op = "installdev"
                                    => p \in Below(stack[j].pkg) /\ stack[j].pkg # p
                  /\ j \notin {1, 2} => /\ 3 \in DOMAIN stack
                                        /\ Calls(stack[3], stack[2]) /\ Fits(3)
                                        /\ Fits(j)
  <2>1. /\ 1 \in DOMAIN stack /\ stack[1] = Head(stack)
        /\ \A j \in DOMAIN stack :
             /\ j \in Nat \ {0} /\ stack[j].pkg \in Pkg
             /\ j # 1 => 1 < j /\ 2 \in DOMAIN stack
             /\ j \notin {1, 2} => 2 < j /\ 3 \in DOMAIN stack
    BY <1>h, <1>d, Below2
  <2>2. Fits(1) /\ \A j \in DOMAIN stack : Fits(j)
    BY <2>1, <1>i DEF Fit
  <2>3. ASSUME NEW j \in DOMAIN stack, j # 1
        PROVE  /\ Calls(stack[2], stack[1])
               /\ p \in Needs(stack[j].pkg)
               /\ stack[1].op = "installdev"
                     => p \in Below(stack[j].pkg) /\ stack[j].pkg # p
    <3>1. Calls(stack[2], stack[2 - 1]) /\ 2 - 1 = 1
      BY <2>1, <2>3, <1>i DEF Called
    <3>2. /\ p \in Needs(stack[j].pkg)
          /\ stack[1].op = "installdev" => p \in Below(stack[j].pkg)
      BY <1>h, <2>1, <2>3 DEF Ordered
    <3>3. QED  BY <3>1, <3>2, NotBelow
  <2>4. ASSUME NEW j \in DOMAIN stack, j \notin {1, 2}
        PROVE  Calls(stack[3], stack[2])
    <3>1. Calls(stack[3], stack[3 - 1]) /\ 3 - 1 = 2
      BY <2>1, <2>4, <1>i DEF Called
    <3>2. QED  BY <3>1
  <2>5. QED  BY <1>h, <2>1, <2>2, <2>3, <2>4
<1>k. ASSUME stack # <<>>, archived' = archived, installed' = installed,
             stack[1].op # "build" \/ stack[1].at # "start"
      PROVE  \A j \in DOMAIN stack : j # 1 => Kept(j)
  BY <1>k, <1>i, KeptSame
<1>1. CASE BuildStart(p)
  <2>1. /\ stack # <<>> /\ Head(stack).pkg = p
        /\ Head(stack).op = "build" /\ Head(stack).at = "start"
    BY <1>1 DEF BuildStart, At
  <2>2. /\ newer' = newer
        /\ Return \/ Goto("installdev", BuildDepends[p])
    BY <1>1 DEF BuildStart
  <2>3. /\ Rebuildable'
        /\ p \notin archived => p \notin installed' /\ archived' = archived
        /\ p \notin installed => installed' = installed
    BY <1>1, <1>d, <1>i, BuildStartFiles
  <2>4. ASSUME 2 \in DOMAIN stack
        PROVE  /\ stack[2].op = "packagedev" /\ stack[2].at = "rule"
               /\ stack[2].pkg = p /\ p \notin archived
    BY <2>1, <2>4, <1>h DEF Calls, Fits
  <2>5. ASSUME NEW j \in DOMAIN stack, j \notin {1, 2} PROVE Kept(j)
    <3>1. /\ 2 \in DOMAIN stack /\ 3 \in DOMAIN stack
          /\ Calls(stack[3], stack[2]) /\ Fits(3)
      BY <2>1, <2>5, <1>h
    <3>2. p \notin installed
      BY <2>4, <3>1 DEF Calls, Fits
    <3>3. archived' = archived /\ installed' = installed
      BY <2>3, <2>4, <3>1, <3>2
    <3>4. QED  BY <2>5, <3>3, <1>i, KeptSame
  <2>6. ASSUME NEW j \in DOMAIN stack, j # 1 PROVE Kept(j)
    <3>1. CASE j = 2
      BY <2>3, <2>4, <3>1 DEF Kept
    <3>2. CASE j # 2
      BY <2>5, <2>6, <3>2
    <3>3. QED  BY <3>1, <3>2
  <2>7. CASE Return
    <3>1. ASSUME 1 \in DOMAIN stack' PROVE Fits(1)'
      <4>1. 2 \in DOMAIN stack /\ stack'[1] = stack[2]
        BY <2>1, <2>7, <3>1, <1>d, ReturnTop
      <4>2. QED  BY <2>3, <2>4, <4>1 DEF Fits
    <3>2. QED
      BY <2>1, <2>2, <2>3, <2>5, <2>7, <3>1, <1>d, <1>i, FitReturn, NoWipeReturn
         DEF Untouched
  <2>8. CASE Goto("installdev", BuildDepends[p])
    <3>1. /\ stack'[1].op = "build" /\ stack'[1].pkg = p
          /\ stack'[1].at = "installdev" /\ stack'[1].todo = BuildDepends[p]
      BY <2>1, <2>8, <1>d, <1>h, <1>l, GotoShape
    <3>2. Fits(1)'
      BY <3>1 DEF Fits, Fetched
    <3>3. QED
      BY <2>1, <2>2, <2>3, <2>6, <2>8, <3>2, <1>d, <1>i, <1>l, FitGoto,
         NoWipeGoto DEF Untouched
  <2>9. QED  BY <2>2, <2>7, <2>8
<1>2. CASE BuildWipe(p) \/ BuildPackagedev(p)
  <2>1. /\ stack # <<>> /\ Head(stack).op = "build"
        /\ Head(stack).at \in {"wipe", "packagedev"}
    BY <1>2 DEF BuildWipe, BuildPackagedev, At
  <2>2. QED  BY <2>1, <1>d, <1>i, Below2 DEF NoWipe
<1>4. CASE BuildInstalldev(p)
  <2>1. /\ stack # <<>> /\ Head(stack).pkg = p
        /\ Head(stack).op = "build" /\ Head(stack).at = "installdev"
        /\ ForEach("installdev", "rule")
        /\ UNCHANGED files
    BY <1>4 DEF BuildInstalldev, At
  <2>2. \A j \in DOMAIN stack : j # 1 => Kept(j)
    BY <2>1, <1>h, <1>k DEF files
  <2>3. /\ stack[1].op = "build" /\ stack[1].at = "installdev"
        /\ stack[1].pkg = p
        /\ Elems(BuildDepends[p]) \subseteq installed \cup Elems(Todo)
    BY <2>1, <1>h DEF Fits, Fetched, Above, Todo
  <2>4. Rebuildable' /\ Untouched'
    BY <2>1, <1>i DEF files, Rebuildable, Untouched
  <2>5. CASE Todo = <<>>
    <3>1. Goto("rule", <<>>)
      BY <2>1, <2>5 DEF ForEach
    <3>2. stack'[1].op = "build" /\ stack'[1].pkg = p /\ stack'[1].at = "rule"
      BY <2>1, <2>3, <3>1, <1>d, <1>l, GotoShape
    <3>3. Fits(1)'
      BY <2>1, <2>3, <2>5, <3>2, <1>l DEF Fits, files
    <3>4. QED
      BY <2>1, <2>2, <2>4, <3>1, <3>3, <1>d, <1>i, <1>l, FitGoto, NoWipeGoto
  <2>6. CASE Todo # <<>>
    <3>1. PICK q \in Pkg : q = Head(Todo)
      BY <2>1, <2>6, <1>d, TopType, ListElems
    <3>2. PICK todo \in Seq(Pkg) : todo = Tail(Todo)
      BY <2>1, <2>6, <1>d, TopType, ListElems
    <3>3. Elems(Todo) \subseteq {q} \cup Elems(todo)
      BY <2>1, <2>6, <3>1, <3>2, <1>d, TopType, ListParts
    <3>4. Call("installdev", q, "installdev", todo)
      BY <2>1, <2>6, <3>1, <3>2 DEF ForEach
    <3>5. /\ stack'[1] = Frame("installdev", q)
          /\ stack'[2].op = "build" /\ stack'[2].pkg = p
          /\ stack'[2].at = "installdev" /\ stack'[2].todo = todo
      BY <2>1, <2>3, <3>4, <1>d, <1>l, CallShape
    <3>6. stack'[1].op = "installdev" /\ stack'[1].pkg = q
      BY <3>5 DEF Frame
    <3>7. Calls(stack'[2], stack'[1])
      BY <3>5, <3>6 DEF Calls
    <3>8. Above(2)' = {q}
      BY <3>6 DEF Above
    <3>9. Fits(2)'
      BY <2>1, <2>3, <3>3, <3>5, <3>8 DEF Fits, Fetched, files
    <3>10. QED
      BY <2>1, <2>2, <2>4, <3>4, <3>7, <3>9, <1>d, <1>i, <1>l, FitCall, NoWipeCall
  <2>7. QED  BY <2>5, <2>6
<1>5. CASE BuildRule(p)
  <2>1. /\ stack # <<>> /\ Head(stack).pkg = p
        /\ Head(stack).op = "build" /\ Head(stack).at = "rule" /\ Return
        /\ UNCHANGED <<unpacked, archived, installed>> /\ newer' \subseteq newer
    BY <1>5 DEF BuildRule, At
  <2>2. \A j \in DOMAIN stack : j # 1 => Kept(j)
    BY <2>1, <1>h, <1>k
  <2>3. Rebuildable' /\ Untouched'
    BY <2>1, <1>i DEF Rebuildable, Untouched
  <2>4. ASSUME 1 \in DOMAIN stack' PROVE Fits(1)'
    <3>1. 2 \in DOMAIN stack /\ stack'[1] = stack[2]
      BY <2>1, <2>4, <1>d, ReturnTop
    <3>2. QED  BY <2>1, <3>1, <1>h DEF Calls, Fits
  <2>5. QED  BY <2>1, <2>2, <2>3, <2>4, <1>d, <1>i, FitReturn, NoWipeReturn
<1>6. CASE PackagedevStart(p)
  <2>1. /\ stack # <<>> /\ Head(stack).pkg = p
        /\ Head(stack).op = "packagedev" /\ Head(stack).at = "start"
        /\ <<"archive", p>> \notin newer
    BY <1>6, <1>i DEF PackagedevStart, At, Untouched
  <2>2. /\ UNCHANGED <<unpacked, archived, installed, newer>>
        /\ p \in archived => Return
        /\ p \notin archived => Call("build", p, "rule", <<>>)
    BY <1>6, <2>1 DEF PackagedevStart
  <2>3. \A j \in DOMAIN stack : j # 1 => Kept(j)
    BY <2>1, <2>2, <1>h, <1>k
  <2>4. Rebuildable' /\ Untouched'
    BY <2>2, <1>i DEF Rebuildable, Untouched
  <2>5. CASE p \in archived
    <3>1. ASSUME 1 \in DOMAIN stack' PROVE Fits(1)'
      <4>1. 2 \in DOMAIN stack /\ stack'[1] = stack[2]
        BY <2>1, <2>2, <2>5, <3>1, <1>d, ReturnTop
      <4>2. QED  BY <2>1, <2>2, <2>5, <4>1, <1>h DEF Calls, Fits
    <3>2. QED
      BY <2>1, <2>2, <2>3, <2>4, <2>5, <3>1, <1>d, <1>i, FitReturn, NoWipeReturn
  <2>6. CASE p \notin archived
    <3>0. stack[1].op = "packagedev" /\ stack[1].pkg = p
      BY <2>1, <1>h
    <3>1. /\ stack'[1] = Frame("build", p)
          /\ stack'[2].op = "packagedev" /\ stack'[2].pkg = p
          /\ stack'[2].at = "rule"
      BY <2>1, <2>2, <2>6, <3>0, <1>d, <1>l, CallShape
    <3>2. /\ stack'[1].op = "build" /\ stack'[1].pkg = p
          /\ stack'[1].at = "start"
      BY <3>1 DEF Frame
    <3>3. Calls(stack'[2], stack'[1])
      BY <3>1, <3>2 DEF Calls
    <3>4. Fits(2)'
      BY <2>2, <2>6, <3>1, <3>2 DEF Fits
    <3>5. QED
      BY <2>1, <2>2, <2>3, <2>4, <2>6, <3>3, <3>4, <1>d, <1>h, <1>i, <1>l,
         FitCall, NoWipeCall
  <2>7. QED  BY <2>5, <2>6
<1>7. CASE PackagedevRule(p)
  <2>1. /\ stack # <<>> /\ Head(stack).pkg = p
        /\ Head(stack).op = "packagedev" /\ Head(stack).at = "rule" /\ Return
        /\ archived' = archived \cup {p}
        /\ UNCHANGED <<unpacked, installed>>
    BY <1>7 DEF PackagedevRule, At
  <2>2. p \notin installed
    BY <2>1, <1>h DEF Fits
  <2>3. newer' \subseteq newer
    BY <1>7, <2>2 DEF PackagedevRule
  <2>4. Rebuildable' /\ Untouched'
    BY <2>1, <2>3, <1>i DEF Rebuildable, Untouched
  <2>5. ASSUME NEW j \in DOMAIN stack, j \notin {1, 2} PROVE Kept(j)
    <3>1. /\ 2 \in DOMAIN stack /\ Calls(stack[2], stack[1]) /\ Fits(j)
          /\ j \in Nat \ {0} /\ stack[j].pkg \in Pkg
      BY <2>1, <2>5, <1>h
    <3>2. stack[2].op = "installdev" /\ stack[2].pkg = p /\ 2 < j
      BY <2>1, <2>5, <3>1, <1>h DEF Calls
    <3>3. p \in Below(stack[j].pkg)
      BY <3>1, <3>2 DEF Ordered
    <3>4. stack[j].pkg # p
      BY <3>1, <3>3, NotBelow
    <3>5. Calls(stack[j], stack[j - 1])
      BY <2>5, <1>i DEF Called
    <3>6. QED  BY <2>1, <2>5, <3>1, <3>4, <3>5 DEF Calls, Fits, Kept
  <2>6. ASSUME 1 \in DOMAIN stack' PROVE Fits(1)'
    <3>1. 2 \in DOMAIN stack /\ stack'[1] = stack[2]
      BY <2>1, <2>6, <1>d, ReturnTop
    <3>2. QED  BY <2>1, <3>1, <1>h DEF Calls, Fits
  <2>7. QED  BY <2>1, <2>4, <2>5, <2>6, <1>d, <1>i, FitReturn, NoWipeReturn
<1>8. CASE InstalldevStart(p)
  <2>1. /\ stack # <<>> /\ Head(stack).pkg = p
        /\ Head(stack).op = "installdev" /\ Head(stack).at = "start"
        /\ <<"control", p>> \notin newer /\ <<"control-archive", p>> \notin newer
    BY <1>8, <1>i DEF InstalldevStart, At, Untouched
  <2>2. /\ UNCHANGED <<unpacked, archived, installed, newer>>
        /\ p \in installed => Return
        /\ p \notin installed => Call("packagedev", p, "conflicts", <<>>)
    BY <1>8, <2>1 DEF InstalldevStart
  <2>3. \A j \in DOMAIN stack : j # 1 => Kept(j)
    BY <2>1, <2>2, <1>h, <1>k
  <2>4. Rebuildable' /\ Untouched'
    BY <2>2, <1>i DEF Rebuildable, Untouched
  <2>5. CASE p \in installed
    <3>1. ASSUME 1 \in DOMAIN stack' PROVE Fits(1)'
      <4>1. 2 \in DOMAIN stack /\ stack'[1] = stack[2]
        BY <2>1, <2>2, <2>5, <3>1, <1>d, ReturnTop
      <4>2. Calls(stack[2], stack[1]) /\ Fits(2) /\ stack[1].pkg = p
            /\ stack[1].op = "installdev"
        BY <2>1, <4>1, <1>h
      <4>3. Above(2) \subseteq installed
        BY <2>5, <4>2 DEF Above
      <4>4. QED  BY <2>2, <4>1, <4>2, <4>3 DEF Calls, Fits, Fetched
    <3>2. QED
      BY <2>1, <2>2, <2>3, <2>4, <2>5, <3>1, <1>d, <1>i, FitReturn, NoWipeReturn
  <2>6. CASE p \notin installed
    <3>1. /\ stack'[1] = Frame("packagedev", p)
          /\ stack'[2].op = "installdev" /\ stack'[2].pkg = p
          /\ stack'[2].at = "conflicts"
      <4>1. stack[1].op = "installdev" /\ stack[1].pkg = p
        BY <2>1, <1>h
      <4>2. Call("packagedev", p, "conflicts", <<>>) /\ <<>> \in Seq(Pkg)
        BY <2>2, <2>6
      <4>3. "packagedev" \in Ops /\ "conflicts" \in Labels
        BY <1>l
      <4>4. QED  BY <2>1, <4>1, <4>2, <4>3, <1>d, CallShape
    <3>2. stack'[1].op = "packagedev" /\ stack'[1].pkg = p
      BY <3>1 DEF Frame
    <3>3. Calls(stack'[2], stack'[1])
      BY <3>1, <3>2 DEF Calls
    <3>4. Fits(2)'
      BY <2>2, <2>6, <3>1 DEF Fits
    <3>5. QED
      BY <2>1, <2>2, <2>3, <2>4, <2>6, <3>3, <3>4, <1>d, <1>h, <1>i, <1>l,
         FitCall, NoWipeCall
  <2>7. QED  BY <2>5, <2>6
<1>9. CASE InstalldevConflicts(p)
  <2>1. /\ stack # <<>> /\ Head(stack).pkg = p
        /\ Head(stack).op = "installdev" /\ Head(stack).at = "conflicts"
        /\ installed' = Without(Conflicts[p]) /\ Goto("depends", DevDepends[p])
        /\ UNCHANGED <<unpacked, archived, newer>>
    BY <1>9 DEF InstalldevConflicts, At
  <2>2. installed' \subseteq installed
    BY <2>1, WithoutType
  <2>3. Rebuildable' /\ Untouched'
    BY <2>1, <2>2, <1>i DEF Rebuildable, Untouched
  <2>4. ASSUME NEW j \in DOMAIN stack, j # 1 PROVE Kept(j)
    <3>1. PICK c \in Pkg : c = stack[j].pkg
      BY <2>1, <1>h
    <3>2. p \in Needs(c) /\ Calls(stack[j], stack[j - 1]) /\ Fits(j)
      BY <2>1, <2>4, <3>1, <1>h, <1>i DEF Called, Fit
    <3>3. Depends(c) \cap installed \subseteq installed'
      BY <2>1, <3>2, <1>d, WithoutRivals
    <3>4. /\ Elems(BuildDepends[c]) \cap installed \subseteq installed'
          /\ Elems(DevDepends[c]) \cap installed \subseteq installed'
      BY <3>3, DependsType
    <3>5. stack[1].op # "build"
      BY <2>1, <1>h
    <3>6. QED
      BY <2>1, <2>2, <3>1, <3>2, <3>4, <3>5 DEF Calls, Fits, Kept
  <2>5. /\ stack'[1].op = "installdev" /\ stack'[1].pkg = p
        /\ stack'[1].at = "depends" /\ stack'[1].todo = DevDepends[p]
    BY <2>1, <1>d, <1>h, <1>l, GotoShape
  <2>6. p \in archived
    BY <2>1, <1>h DEF Fits
  <2>7. Fits(1)'
    BY <2>1, <2>5, <2>6 DEF Fits, Fetched
  <2>8. QED
    BY <2>1, <2>3, <2>4, <2>7, <1>d, <1>h, <1>i, <1>l, FitGoto, NoWipeGoto
<1>10. CASE InstalldevDepends(p)
  <2>1. /\ stack # <<>> /\ Head(stack).pkg = p
        /\ Head(stack).op = "installdev" /\ Head(stack).at = "depends"
        /\ ForEach("installdev", "opkg")
        /\ UNCHANGED files
    BY <1>10 DEF InstalldevDepends, At
  <2>2. \A j \in DOMAIN stack : j # 1 => Kept(j)
    BY <2>1, <1>h, <1>k DEF files
  <2>3. /\ stack[1].op = "installdev" /\ stack[1].at = "depends"
        /\ stack[1].pkg = p /\ p \in archived
        /\ Elems(DevDepends[p]) \subseteq installed \cup Elems(Todo)
    BY <2>1, <1>h DEF Fits, Fetched, Above, Todo
  <2>4. Rebuildable' /\ Untouched'
    BY <2>1, <1>i DEF files, Rebuildable, Untouched
  <2>5. CASE Todo = <<>>
    <3>1. Goto("opkg", <<>>)
      BY <2>1, <2>5 DEF ForEach
    <3>2. /\ stack'[1].op = "installdev" /\ stack'[1].pkg = p
          /\ stack'[1].at = "opkg"
      BY <2>1, <2>3, <3>1, <1>d, <1>l, GotoShape
    <3>3. Fits(1)'
      BY <2>1, <2>3, <2>5, <3>2, <1>l DEF Fits, files
    <3>4. QED
      BY <2>1, <2>2, <2>3, <2>4, <3>1, <3>3, <1>d, <1>i, <1>l, FitGoto, NoWipeGoto
  <2>6. CASE Todo # <<>>
    <3>1. PICK q \in Pkg : q = Head(Todo)
      BY <2>1, <2>6, <1>d, TopType, ListElems
    <3>2. PICK todo \in Seq(Pkg) : todo = Tail(Todo)
      BY <2>1, <2>6, <1>d, TopType, ListElems
    <3>3. Elems(Todo) \subseteq {q} \cup Elems(todo)
      BY <2>1, <2>6, <3>1, <3>2, <1>d, TopType, ListParts
    <3>4. Call("installdev", q, "depends", todo)
      BY <2>1, <2>6, <3>1, <3>2 DEF ForEach
    <3>5. /\ stack'[1] = Frame("installdev", q)
          /\ stack'[2].op = "installdev" /\ stack'[2].pkg = p
          /\ stack'[2].at = "depends" /\ stack'[2].todo = todo
      BY <2>1, <2>3, <3>4, <1>d, <1>l, CallShape
    <3>6. stack'[1].op = "installdev" /\ stack'[1].pkg = q
      BY <3>5 DEF Frame
    <3>7. Calls(stack'[2], stack'[1])
      BY <3>5, <3>6 DEF Calls
    <3>8. Above(2)' = {q}
      BY <3>6 DEF Above
    <3>9. Fits(2)'
      BY <2>1, <2>3, <3>3, <3>5, <3>8 DEF Fits, Fetched, files
    <3>10. QED
      BY <2>1, <2>2, <2>3, <2>4, <3>4, <3>7, <3>9, <1>d, <1>i, <1>l, FitCall,
         NoWipeCall
  <2>7. QED  BY <2>5, <2>6
<1>11. CASE InstalldevOpkg(p)
  <2>1. /\ stack # <<>> /\ Head(stack).pkg = p
        /\ Head(stack).op = "installdev" /\ Head(stack).at = "opkg" /\ Return
        /\ UNCHANGED <<unpacked, archived>>
    BY <1>11 DEF InstalldevOpkg, At
  <2>2. p \in archived
    BY <2>1, <1>h DEF Fits
  <2>3. installed' = installed \cup {p} /\ newer' \subseteq newer
    BY <1>11, <2>2 DEF InstalldevOpkg
  <2>4. Rebuildable' /\ Untouched'
    BY <2>1, <2>2, <2>3, <1>i DEF Rebuildable, Untouched
  <2>5. ASSUME NEW j \in DOMAIN stack, j \notin {1, 2} PROVE Kept(j)
    <3>1. Calls(stack[j], stack[j - 1]) /\ Fits(j) /\ stack[j].pkg # p
      BY <2>1, <2>5, <1>h, <1>i DEF Called
    <3>2. QED  BY <2>1, <2>3, <2>5, <3>1 DEF Calls, Fits, Kept
  <2>6. ASSUME 1 \in DOMAIN stack' PROVE Fits(1)'
    <3>1. 2 \in DOMAIN stack /\ stack'[1] = stack[2]
      BY <2>1, <2>6, <1>d, ReturnTop
    <3>2. /\ Calls(stack[2], stack[1]) /\ Fits(2) /\ stack[1].pkg = p
          /\ stack[1].op = "installdev"
      BY <2>1, <3>1, <1>h
    <3>3. Above(2) = {p}
      BY <3>2 DEF Above
    <3>4. QED  BY <2>1, <2>3, <3>1, <3>2, <3>3 DEF Calls, Fits, Fetched
  <2>7. QED  BY <2>1, <2>4, <2>5, <2>6, <1>d, <1>i, FitReturn, NoWipeReturn
<1>12. CASE InstalldevRefused(p)
  BY <1>12, <1>i
     DEF InstalldevRefused, files, Called, NoWipe, Fit, Rebuildable, Untouched
<1>13. QED
  BY <1>1, <1>2, <1>4, <1>5, <1>6, <1>7, <1>8, <1>9, <1>10, <1>11, <1>12 DEF Step

\* With a static sysroot, whatever a package is built or installed with is in
\* the toolchain when its rule or opkg runs: a package that is rebuilt in the
\* middle of a loop is cleaned before others are installed that need it, and a
\* conflict takes nothing that the waiting scripts have installed.
THEOREM DependsAreThere ==
    ASSUME ~Dynamic, Compatible, Undisturbed
    PROVE  Spec => []DependsInstalled
<1>1. Init => WaitInv
  BY DEF Init, WaitInv, Called, NoWipe, Fit, Rebuildable, Untouched
<1>2. TypeOK /\ (Ordered /\ Loops) /\ WaitInv /\ [Next]_vars => WaitInv'
  <2> SUFFICES ASSUME TypeOK, Ordered, Loops, WaitInv, [Next]_vars
               PROVE  WaitInv'
    OBVIOUS
  <2>i. Called /\ NoWipe /\ Fit /\ Rebuildable /\ Untouched
    BY DEF WaitInv
  <2>s. ASSUME stack = <<>>, UNCHANGED stack PROVE Called' /\ NoWipe' /\ Fit'
    BY <2>s DEF Called, NoWipe, Fit
  <2>1. ASSUME NEW p \in Pkg, Step(p) PROVE WaitInv'
    BY <2>1, WaitStep
  <2>2. ASSUME NEW p \in Pkg, NEW op \in Commands, Start(op, p) PROVE WaitInv'
    <3>1. stack' = <<Frame(op, p)>> /\ Frame(op, p).at = "start"
      BY <2>2 DEF Start, Frame
    <3>2. DOMAIN stack' = {1} /\ stack'[1].at = "start"
      BY <3>1
    <3>3. Fits(1)'
      BY <3>2 DEF Fits
    <3>4. Called' /\ NoWipe' /\ Fit'
      BY <3>2, <3>3 DEF Called, NoWipe, Fit
    <3>5. Rebuildable' /\ Untouched'
      BY <2>2, <2>i DEF Start, files, Rebuildable, Untouched
    <3>6. QED  BY <3>4, <3>5 DEF WaitInv
  <2>3. ASSUME NEW p \in Pkg, "clean" \in EditKinds, Clean(p) PROVE WaitInv'
    <3>1. /\ stack = <<>> /\ UNCHANGED <<stack, newer>>
          /\ unpacked' \subseteq unpacked /\ archived' = archived \ {p}
          /\ installed' \subseteq installed /\ p \notin installed'
      BY <2>3, WithoutType, WithoutThem DEF Clean, TypeOK
    <3>2. Rebuildable' /\ Untouched'
      BY <3>1, <2>i DEF Rebuildable, Untouched
    <3>3. QED  BY <3>1, <3>2, <2>s DEF WaitInv
  <2>4. ASSUME NEW p \in Pkg, "rev" \in EditKinds, Bump(p) PROVE WaitInv'
    <3>1. /\ stack = <<>> /\ UNCHANGED <<stack, newer, installed>>
          /\ unpacked' = unpacked \ {p} /\ archived' = archived \ {p}
          /\ HasSources = Pkg
      BY <2>4 DEF Bump, Undisturbed
    <3>2. Rebuildable' /\ Untouched'
      BY <3>1, <2>i DEF Rebuildable, Untouched
    <3>3. QED  BY <3>1, <3>2, <2>s DEF WaitInv
  <2>5. ASSUME NEW p \in Pkg, EditBuild(p) PROVE WaitInv'
    <3>1. /\ stack = <<>>
          /\ UNCHANGED <<stack, unpacked, archived, installed>>
          /\ newer' \subseteq newer \cup {<<"build", p>>}
      BY <2>5 DEF EditBuild
    <3>2. Rebuildable' /\ Untouched'
      BY <3>1, <2>i DEF Rebuildable, Untouched
    <3>3. QED  BY <3>1, <3>2, <2>s DEF WaitInv
  <2>6. CASE \E p \in Pkg : Edit(p)
    BY <2>3, <2>4, <2>5, <2>6 DEF Edit, Undisturbed
  <2>7. CASE Abort
    BY <2>7, <2>i
       DEF Abort, files, WaitInv, Called, NoWipe, Fit, Rebuildable, Untouched
  <2>8. CASE UNCHANGED vars
    BY <2>8, <2>i
       DEF vars, WaitInv, Called, NoWipe, Fit, Fits, Calls, Fetched, Above,
           Rebuildable, Untouched
  <2>9. QED  BY <2>1, <2>2, <2>6, <2>7, <2>8 DEF Next
<1>3. TypeOK /\ WaitInv => DependsInstalled
  <2> SUFFICES ASSUME TypeOK, WaitInv, NEW p \in Pkg
               PROVE  /\ At("build", "rule", p) =>
                            Elems(BuildDepends[p]) \subseteq installed
                      /\ At("installdev", "opkg", p) /\ p \in archived => Usable(p)
    BY DEF DependsInstalled, DependsAtBuild, DependsAtInstall
  <2>1. ASSUME stack # <<>> PROVE stack[1] = Head(stack) /\ Fits(1)
    BY <2>1, Below2 DEF TypeOK, WaitInv, Fit
  <2>2. QED  BY <2>1 DEF At, Fits, Usable
<1>4. QED  BY <1>1, <1>2, <1>3, TypeCorrect, AlwaysInOrder, PTL DEF Spec

----------------------------------------------------------------------------
\* A dynamic sysroot holds nothing else

\* Hypothesis: packages are used with what they are built with, as get_meta
\* has it where PKG_DEV_DEPENDS is not set.
UsedAsBuilt ==
    \A p \in Pkg : Elems(DevDepends[p]) = Elems(BuildDepends[p])

\* Who needs a package by what it is built with is a user of it, where packages
\* are used with what they are built with.
LEMMA NeedersUse ==
    ASSUME UsedAsBuilt, NEW p \in Pkg, NEW q \in Needs(p)
    PROVE  p \in Users(q, DevDepends)
<1> SUFFICES ASSUME NEW S \in SUBSET Pkg, q \in S,
                    \A r \in Pkg : Elems(DevDepends[r]) \cap S # {} => r \in S,
                    p \notin S
             PROVE  FALSE
  BY DEF Users
<1> DEFINE T == Pkg \ S
<1>1. T \in SUBSET Pkg /\ p \in T
  OBVIOUS
<1>2. ASSUME NEW r \in T PROVE Depends(r) \subseteq T
  <2>1. Elems(DevDepends[r]) \cap S = {} /\ Depends(r) \subseteq Pkg
    BY DependsType
  <2>2. QED  BY <2>1 DEF Depends, UsedAsBuilt
<1> HIDE DEF T
<1>3. q \in T
  BY <1>1, <1>2 DEF Needs
<1>4. QED  BY <1>3 DEF T

\* Once a build has emptied the toolchain, there is only what is needed
\* before its package: by itself, or by what is built for it on the way.
OnlyNeeded ==
    \A j \in DOMAIN stack :
        Dynamic /\ stack[j].op = "build"
                /\ stack[j].at \in {"packagedev", "installdev", "rule"}
            => installed \subseteq Below(stack[j].pkg)

\* It stays so while nothing is installed: when the script on top goes on,
LEMMA OnlyNeededGoto ==
    ASSUME stack \in Seq(Frames), stack # <<>>, OnlyNeeded,
           installed' \subseteq installed,
           NEW l \in Labels, NEW todo \in Seq(Pkg), Goto(l, todo),
           \/ stack[1].op # "build"
           \/ Dynamic => l = "wipe"
           \/ stack[1].at \in {"packagedev", "installdev", "rule"}
           \/ installed = {}
    PROVE  OnlyNeeded'
<1> SUFFICES ASSUME NEW j \in DOMAIN stack', Dynamic, stack'[j].op = "build",
                    stack'[j].at \in {"packagedev", "installdev", "rule"}
             PROVE  installed' \subseteq Below(stack'[j].pkg)
  BY DEF OnlyNeeded, Below, Needs, Depends
<1>1. CASE j = 1
  <2>1. /\ 1 \in DOMAIN stack
        /\ stack'[1].op = stack[1].op /\ stack'[1].pkg = stack[1].pkg
        /\ stack'[1].at = l
    BY <1>1, GotoShape, TopShape
  <2>2. QED  BY <1>1, <2>1 DEF OnlyNeeded
<1>2. CASE j # 1
  <2>1. j \in DOMAIN stack /\ stack'[j] = stack[j]
    BY <1>2, GotoShape
  <2>2. QED  BY <2>1 DEF OnlyNeeded
<1>3. QED  BY <1>1, <1>2

\* when it calls another,
LEMMA OnlyNeededCall ==
    ASSUME stack \in Seq(Frames), stack # <<>>, OnlyNeeded,
           installed' \subseteq installed,
           NEW op \in Ops, NEW q \in Pkg,
           NEW l \in Labels, NEW todo \in Seq(Pkg), Call(op, q, l, todo),
           \/ stack[1].op # "build"
           \/ stack[1].at \in {"packagedev", "installdev", "rule"}
    PROVE  OnlyNeeded'
<1> SUFFICES ASSUME NEW j \in DOMAIN stack', Dynamic, stack'[j].op = "build",
                    stack'[j].at \in {"packagedev", "installdev", "rule"}
             PROVE  installed' \subseteq Below(stack'[j].pkg)
  BY DEF OnlyNeeded, Below, Needs, Depends
<1>f. stack'[1] = Frame(op, q)
  BY CallShape
<1>0. stack'[1].at = "start"
  BY <1>f DEF Frame
<1>1. CASE j = 1
  BY <1>0, <1>1
<1>2. CASE j = 2
  <2>1. /\ 1 \in DOMAIN stack
        /\ stack'[2].op = stack[1].op /\ stack'[2].pkg = stack[1].pkg
    BY CallShape, TopShape
  <2>2. QED  BY <1>2, <2>1 DEF OnlyNeeded
<1>3. CASE j \notin {1, 2}
  <2>1. j - 1 \in DOMAIN stack /\ stack'[j] = stack[j - 1]
    BY <1>3, CallShape
  <2>2. QED  BY <2>1 DEF OnlyNeeded
<1>4. QED  BY <1>1, <1>2, <1>3

\* and when it ends.
LEMMA OnlyNeededReturn ==
    ASSUME stack \in Seq(Frames), stack # <<>>, OnlyNeeded, Return,
           installed' \subseteq installed
    PROVE  OnlyNeeded'
<1> SUFFICES ASSUME NEW j \in DOMAIN stack', Dynamic, stack'[j].op = "build",
                    stack'[j].at \in {"packagedev", "installdev", "rule"}
             PROVE  installed' \subseteq Below(stack'[j].pkg)
  BY DEF OnlyNeeded, Below, Needs, Depends
<1>1. j + 1 \in DOMAIN stack /\ stack'[j] = stack[j + 1]
  BY ReturnShape
<1>2. QED  BY <1>1 DEF OnlyNeeded

\* A loop over dependencies keeps it, for nothing is installed by calling.
LEMMA OnlyNeededForEach ==
    ASSUME stack \in Seq(Frames), stack # <<>>, OnlyNeeded,
           installed' \subseteq installed,
           NEW op \in Ops, NEW l \in Labels, ForEach(op, l),
           \/ stack[1].op # "build"
           \/ stack[1].at \in {"packagedev", "installdev", "rule"}
    PROVE  OnlyNeeded'
<1>1. CASE Todo = <<>>
  <2>1. Goto(l, <<>>) /\ <<>> \in Seq(Pkg)
    BY <1>1 DEF ForEach
  <2>2. QED  BY <2>1, OnlyNeededGoto
<1>2. CASE Todo # <<>>
  <2>1. Head(Todo) \in Pkg /\ Tail(Todo) \in Seq(Pkg)
    BY <1>2, TopType, ListElems
  <2>2. Head(stack).at \in Labels
    BY TopType DEF Frames
  <2>3. Call(op, Head(Todo), Head(stack).at, Tail(Todo))
    BY <1>2 DEF ForEach
  <2>4. QED  BY <2>1, <2>2, <2>3, OnlyNeededCall
<1>3. QED  BY <1>1, <1>2

\* Every step of a script keeps the toolchain to what is needed.
LEMMA OnlyNeededStep ==
    ASSUME TypeOK, Ordered, OnlyNeeded, NEW p \in Pkg, Step(p)
    PROVE  OnlyNeeded'
<1>d. /\ stack \in Seq(Frames) /\ installed \subseteq Pkg
      /\ BuildDepends[p] \in Seq(Pkg) /\ DevDepends[p] \in Seq(Pkg)
  BY DependsAssumption DEF TypeOK
<1>l. /\ {"start", "wipe", "packagedev", "installdev", "rule", "conflicts",
          "depends", "opkg"} \subseteq Labels
      /\ {"build", "packagedev", "installdev"} \subseteq Ops
      /\ <<>> \in Seq(Pkg)
  BY DEF Labels, Ops
<1>h. ASSUME stack # <<>>
      PROVE  /\ stack[1] = Head(stack) /\ 1 \in DOMAIN stack
             /\ Todo \in Seq(Pkg)
  BY <1>h, <1>d, TopShape, TopType
<1>1. CASE BuildStart(p)
  <2>1. stack # <<>> /\ installed' \subseteq installed
    BY <1>1, WithoutType DEF BuildStart, At, Unpackagedev
  <2>2. \/ Return
        \/ Dynamic /\ Goto("wipe", BuildDepends[p])
        \/ ~Dynamic /\ Goto("installdev", BuildDepends[p])
    BY <1>1, <1>l DEF BuildStart
  <2>3. QED  BY <2>1, <2>2, <1>d, <1>l, OnlyNeededGoto, OnlyNeededReturn
<1>2. CASE BuildWipe(p)
  <2>1. stack # <<>> /\ stack[1].op = "build" /\ installed' \subseteq installed
    BY <1>2, <1>h, WithoutType DEF BuildWipe, At
  <2>2. CASE installed = {}
    <3>1. Goto("packagedev", Todo)
      BY <1>2, <2>2 DEF BuildWipe
    <3>2. QED  BY <2>1, <2>2, <3>1, <1>d, <1>h, <1>l, OnlyNeededGoto
  <2>3. CASE installed # {}
    <3>1. stack' = stack
      BY <1>2, <2>3 DEF BuildWipe
    <3>2. QED  BY <2>1, <3>1 DEF OnlyNeeded, Below, Needs, Depends
  <2>4. QED  BY <2>2, <2>3
<1>3. CASE BuildPackagedev(p)
  <2>1. /\ stack # <<>> /\ stack[1].op = "build" /\ stack[1].at = "packagedev"
        /\ installed' \subseteq installed
    BY <1>3, <1>h DEF BuildPackagedev, At, files
  <2>2. CASE Todo = <<>>
    <3>1. Goto("installdev", BuildDepends[p])
      BY <1>3, <2>2 DEF BuildPackagedev
    <3>2. QED  BY <2>1, <3>1, <1>d, <1>l, OnlyNeededGoto
  <2>3. CASE Todo # <<>>
    <3>1. Head(Todo) \in Pkg /\ Tail(Todo) \in Seq(Pkg)
      BY <2>1, <2>3, <1>h, ListElems
    <3>2. Call("packagedev", Head(Todo), "packagedev", Tail(Todo))
      BY <1>3, <2>3 DEF BuildPackagedev
    <3>3. QED  BY <2>1, <3>1, <3>2, <1>d, <1>l, OnlyNeededCall
  <2>4. QED  BY <2>2, <2>3
<1>4. CASE BuildInstalldev(p)
  <2>1. /\ stack # <<>> /\ stack[1].op = "build" /\ stack[1].at = "installdev"
        /\ installed' \subseteq installed /\ ForEach("installdev", "rule")
    BY <1>4, <1>h DEF BuildInstalldev, At, files
  <2>2. QED  BY <2>1, <1>d, <1>l, OnlyNeededForEach
<1>5. CASE BuildRule(p) \/ PackagedevRule(p)
  <2>1. stack # <<>> /\ Return /\ installed' \subseteq installed
    BY <1>5 DEF BuildRule, PackagedevRule, At
  <2>2. QED  BY <2>1, <1>d, OnlyNeededReturn
<1>6. CASE PackagedevStart(p)
  <2>1. /\ stack # <<>> /\ stack[1].op = "packagedev"
        /\ installed' \subseteq installed
    BY <1>6, <1>h, WithoutType DEF PackagedevStart, At
  <2>2. \/ Return
        \/ Call("build", p, "rule", <<>>)
    BY <1>6 DEF PackagedevStart
  <2>3. QED  BY <2>1, <2>2, <1>d, <1>l, OnlyNeededCall, OnlyNeededReturn
<1>7. CASE InstalldevStart(p)
  <2>1. /\ stack # <<>> /\ stack[1].op = "installdev"
        /\ installed' \subseteq installed
    BY <1>7, <1>h, WithoutType DEF InstalldevStart, At, Unpackagedev
  <2>2. \/ Return
        \/ Call("packagedev", p, "conflicts", <<>>)
    BY <1>7 DEF InstalldevStart
  <2>3. QED  BY <2>1, <2>2, <1>d, <1>l, OnlyNeededCall, OnlyNeededReturn
<1>8. CASE InstalldevConflicts(p)
  <2>1. /\ stack # <<>> /\ stack[1].op = "installdev"
        /\ installed' \subseteq installed /\ Goto("depends", DevDepends[p])
    BY <1>8, <1>h, WithoutType DEF InstalldevConflicts, At
  <2>2. QED  BY <2>1, <1>d, <1>l, OnlyNeededGoto
<1>9. CASE InstalldevDepends(p)
  <2>1. /\ stack # <<>> /\ stack[1].op = "installdev"
        /\ installed' \subseteq installed /\ ForEach("installdev", "opkg")
    BY <1>9, <1>h DEF InstalldevDepends, At, files
  <2>2. QED  BY <2>1, <1>d, <1>l, OnlyNeededForEach
<1>10. CASE InstalldevOpkg(p)
  <2>1. /\ stack # <<>> /\ Return /\ installed' \subseteq installed \cup {p}
        /\ stack[1].op = "installdev" /\ stack[1].pkg = p
    BY <1>10, <1>h DEF InstalldevOpkg, At
  <2>2. ASSUME NEW j \in DOMAIN stack', Dynamic, stack'[j].op = "build",
               stack'[j].at \in {"packagedev", "installdev", "rule"}
        PROVE  installed' \subseteq Below(stack'[j].pkg)
    <3>1. j \in Nat \ {0} /\ j + 1 \in DOMAIN stack /\ stack'[j] = stack[j + 1]
      BY <2>1, <1>d, ReturnShape
    <3>2. 1 < j + 1
      BY <3>1
    <3>3. p \in Below(stack[j + 1].pkg)
      BY <2>1, <3>1, <3>2, <1>h DEF Ordered
    <3>4. installed \subseteq Below(stack[j + 1].pkg)
      BY <2>2, <3>1 DEF OnlyNeeded
    <3>5. QED  BY <2>1, <3>1, <3>3, <3>4
  <2>3. QED  BY <2>2 DEF OnlyNeeded, Below, Needs, Depends
<1>11. CASE InstalldevRefused(p)
  BY <1>11 DEF InstalldevRefused, OnlyNeeded
<1>12. QED
  BY <1>1, <1>2, <1>3, <1>4, <1>5, <1>6, <1>7, <1>8, <1>9, <1>10, <1>11 DEF Step

\* With a dynamic sysroot the rule of a package finds nothing but what the
\* package depends on and what that needs, whatever was installed, edited or
\* interrupted before, if packages are used with what they are built with.
THEOREM NothingElseIsThere ==
    ASSUME UsedAsBuilt
    PROVE  Spec => []NothingElseAtBuild
<1>1. Init => OnlyNeeded
  BY DEF Init, OnlyNeeded
<1>2. TypeOK /\ (Ordered /\ Loops) /\ OnlyNeeded /\ [Next]_vars => OnlyNeeded'
  <2> SUFFICES ASSUME TypeOK, Ordered, OnlyNeeded, [Next]_vars
               PROVE  OnlyNeeded'
    OBVIOUS
  <2>1. ASSUME NEW p \in Pkg, Step(p) PROVE OnlyNeeded'
    BY <2>1, OnlyNeededStep
  <2>2. ASSUME NEW p \in Pkg, NEW op \in Commands, Start(op, p) PROVE OnlyNeeded'
    <3>1. stack' = <<Frame(op, p)>> /\ Frame(op, p).at = "start"
      BY <2>2 DEF Start, Frame
    <3>2. DOMAIN stack' = {1} /\ stack'[1].at = "start"
      BY <3>1
    <3>3. QED  BY <3>2 DEF OnlyNeeded
  <2>3. ASSUME stack' = <<>> PROVE OnlyNeeded'
    BY <2>3 DEF OnlyNeeded
  <2>4. CASE \E p \in Pkg : Edit(p)
    BY <2>3, <2>4 DEF Edit, Clean, Bump, EditBuild, EditInstalldev
  <2>5. CASE Abort
    BY <2>3, <2>5 DEF Abort
  <2>6. CASE UNCHANGED vars
    BY <2>6 DEF vars, OnlyNeeded, Below, Needs, Depends
  <2>7. QED  BY <2>1, <2>2, <2>4, <2>5, <2>6 DEF Next
<1>3. TypeOK /\ OnlyNeeded => NothingElseAtBuild
  <2> SUFFICES ASSUME TypeOK, OnlyNeeded, NEW p \in Pkg,
                      Dynamic, At("build", "rule", p), NEW q \in installed
               PROVE  q \in UsedWith(Elems(BuildDepends[p]))
    BY DEF NothingElseAtBuild
  <2>1. stack[1] = Head(stack) /\ 1 \in DOMAIN stack
    BY Below2 DEF At, TypeOK
  <2>2. q \in Below(p) /\ q \in Pkg
    BY <2>1 DEF At, OnlyNeeded, TypeOK
  <2>3. PICK d \in Depends(p) : q \in Needs(d)
    BY <2>2 DEF Below
  <2>4. d \in Elems(BuildDepends[p]) /\ d \in Pkg
    BY <2>3, DependsType DEF Depends, UsedAsBuilt
  <2>5. d \in Users(q, DevDepends)
    BY <2>3, <2>4, NeedersUse
  <2>6. QED  BY <2>2, <2>4, <2>5 DEF UsedWith
<1>4. QED  BY <1>1, <1>2, <1>3, TypeCorrect, AlwaysInOrder, PTL DEF Spec

----------------------------------------------------------------------------
\* With a dynamic sysroot dependencies are there

\* Hypotheses: nothing is edited or cleaned between runs, no package shares
\* the stamps of another, and a package is built with all it is used with.
Plain ==
    /\ EditKinds = {}
    /\ \A p \in Pkg : Namesakes[p] = {p}
    /\ \A p \in Pkg : Elems(DevDepends[p]) \subseteq Elems(BuildDepends[p])

\* What is installed has an archive, what has an archive has been built, and
\* what has been built, once and for all, found archives of its dependencies.
Archives ==
    /\ installed \subseteq archived
    /\ archived \subseteq built
    /\ built \cap HasSources \subseteq unpacked
    /\ \A p \in built : Depends(p) \subseteq archived
    /\ newer = {}

\* Frame c waits for the script of frame f; with a dynamic sysroot a build
\* waits for the archives of its dependencies too.
DynCalls(c, f) ==
    \/ Calls(c, f)
    \/ /\ c.op = "build" /\ c.at = "packagedev" /\ f.op = "packagedev"
       /\ f.pkg \in Depends(c.pkg)

\* Every frame waits for the one above it.
DynCalled == \A j \in DOMAIN stack : j # 1 => DynCalls(stack[j], stack[j - 1])

\* Frame c is in a loop that installs, so it counts on what is installed.
Installing(c) == \/ c.op = "build" /\ c.at = "installdev"
                 \/ c.op = "installdev" /\ c.at = "depends"

\* No build runs, to empty the toolchain, above a loop that installs.
Quiet == \A i, j \in DOMAIN stack :
             i < j /\ stack[i].op = "build" => ~Installing(stack[j])

\* The package that the packagedev above frame j packages.
Packed(j) ==
    IF j # 1 /\ stack[j - 1].op = "packagedev" THEN {stack[j - 1].pkg} ELSE {}

\* What frame j can count on where it is: before the first dependency is
\* installed all of them have archives.
DynFits(j) ==
    LET c == stack[j]
        D == Elems(BuildDepends[c.pkg])
    IN
    /\ c.op = "build" /\ c.at # "start" => ({c.pkg} \cap HasSources) \subseteq unpacked
    /\ c.op = "build" /\ c.at = "wipe" => D \subseteq Elems(c.todo)
    /\ c.op = "build" /\ c.at = "packagedev" =>
         D \subseteq archived \cup Elems(c.todo) \cup Packed(j)
    /\ c.op = "build" /\ c.at = "installdev" => D \subseteq archived /\ Fetched(D, j)
    /\ c.op = "build" /\ c.at = "rule" => D \subseteq archived /\ D \subseteq installed
    /\ c.op = "packagedev" /\ c.at = "rule" =>
         c.pkg \notin archived /\ (j = 1 => c.pkg \in built)
    /\ c.op = "installdev" /\ c.at = "conflicts" => (j = 1 => c.pkg \in archived)
    /\ c.op = "installdev" /\ c.at = "depends" =>
         c.pkg \in archived /\ Fetched(Elems(DevDepends[c.pkg]), j)
    /\ c.op = "installdev" /\ c.at = "opkg" =>
         c.pkg \in archived /\ Elems(DevDepends[c.pkg]) \subseteq installed

\* Every frame can count on it.
DynFit == \A j \in DOMAIN stack : DynFits(j)

\* What a step must leave as it is for a script that waits.
DynKept(j) ==
    LET c == stack[j] IN
    /\ archived \subseteq archived' /\ unpacked \subseteq unpacked'
    /\ Installing(c) => installed \subseteq installed' \cup (Pkg \ Depends(c.pkg))
    /\ c.op = "packagedev" => c.pkg \notin archived'

\* A build that waits and is left alone has what it had.
LEMMA DynFitsKept ==
    ASSUME DynCalled, TypeOK, NEW j \in DOMAIN stack, j # 1, DynFits(j), DynKept(j),
           NEW k \in DOMAIN stack', k # 1,
           stack'[k] = stack[j], Above(k)' = Above(j), Packed(k)' = Packed(j)
    PROVE  DynFits(k)'
<1>1. DynCalls(stack[j], stack[j - 1])
  BY DEF DynCalled
<1>p. stack[j].pkg \in Pkg
  BY TopShape DEF TypeOK, Frames
<1>d. /\ Elems(BuildDepends[stack[j].pkg]) \subseteq Depends(stack[j].pkg)
      /\ Elems(DevDepends[stack[j].pkg]) \subseteq Depends(stack[j].pkg)
  BY <1>p, DependsType
<1>2. CASE stack[j].op = "build" /\ stack[j].at = "installdev"
  BY <1>d, <1>2 DEF DynFits, DynKept, Fetched, Installing
<1>3. CASE stack[j].op = "packagedev" /\ stack[j].at = "rule"
  BY <1>3 DEF DynFits, DynKept
<1>4. CASE stack[j].op = "installdev" /\ stack[j].at = "conflicts"
  BY <1>4 DEF DynFits
<1>5. CASE stack[j].op = "installdev" /\ stack[j].at = "depends"
  BY <1>d, <1>5 DEF DynFits, DynKept, Fetched, Installing
<1>6. CASE stack[j].op = "build" /\ stack[j].at = "packagedev"
  BY <1>6 DEF DynFits, DynKept
<1>7. QED  BY <1>1, <1>2, <1>3, <1>4, <1>5, <1>6 DEF DynCalls, Calls

\* The part of the invariant that is about the call stack.
DynOrder == DynCalled /\ Quiet /\ DynFit

\* The order of the scripts when the one on top goes on,
LEMMA DynGoto ==
    ASSUME TypeOK, stack # <<>>, DynOrder,
           NEW l \in Labels, NEW todo \in Seq(Pkg), Goto(l, todo),
           \A j \in DOMAIN stack : j # 1 => DynKept(j),
           DynFits(1)'
    PROVE  DynOrder'
<1>s. stack \in Seq(Frames) /\ DynCalled /\ Quiet /\ DynFit
  BY DEF TypeOK, DynOrder
<1>1. /\ DOMAIN stack' = DOMAIN stack
      /\ stack'[1].op = stack[1].op /\ stack'[1].pkg = stack[1].pkg
      /\ \A j \in DOMAIN stack : j # 1 => stack'[j] = stack[j]
  BY <1>s, GotoShape
<1>t. /\ \A j \in DOMAIN stack : j \in Nat \ {0}
      /\ \A j \in DOMAIN stack : j # 1 => j - 1 \in DOMAIN stack
  BY <1>s, TopShape
<1>2. \A j \in DOMAIN stack : /\ stack'[j].op = stack[j].op
                              /\ stack'[j].pkg = stack[j].pkg
  BY <1>1
<1>3. DynCalled'
  <2> SUFFICES ASSUME NEW j \in DOMAIN stack', j # 1
               PROVE  DynCalls(stack'[j], stack'[j - 1])
    BY DEF DynCalled, DynCalls, Calls, Depends
  <2>1. /\ j \in DOMAIN stack /\ stack'[j] = stack[j]
        /\ stack'[j - 1].op = stack[j - 1].op
        /\ stack'[j - 1].pkg = stack[j - 1].pkg
        /\ DynCalls(stack[j], stack[j - 1])
    BY <1>1, <1>2, <1>t, <1>s DEF DynCalled
  <2>2. QED  BY <2>1 DEF DynCalls, Calls
<1>4. Quiet'
  <2> SUFFICES ASSUME NEW i \in DOMAIN stack', NEW j \in DOMAIN stack', i < j,
                      stack'[i].op = "build"
               PROVE  ~Installing(stack'[j])
    BY DEF Quiet, Installing
  <2>1. /\ i \in DOMAIN stack /\ j \in DOMAIN stack /\ j # 1
        /\ stack[i].op = "build" /\ stack'[j] = stack[j]
    BY <1>1, <1>2, <1>t
  <2>2. QED  BY <2>1, <1>s DEF Quiet
<1>5. ASSUME NEW j \in DOMAIN stack' PROVE DynFits(j)'
  <2>1. CASE j = 1
    BY <2>1
  <2>2. CASE j # 1
    <3>1. j \in DOMAIN stack /\ stack'[j] = stack[j] /\ DynFits(j) /\ DynKept(j)
      BY <1>1, <1>s, <2>2 DEF DynFit
    <3>2. /\ stack'[j - 1].op = stack[j - 1].op
          /\ stack'[j - 1].pkg = stack[j - 1].pkg
      BY <1>2, <1>t, <2>2, <3>1
    <3>3. Above(j)' = Above(j) /\ Packed(j)' = Packed(j)
      BY <3>2 DEF Above, Packed
    <3>4. QED  BY <1>s, <2>2, <3>1, <3>3, DynFitsKept
  <2>3. QED  BY <2>1, <2>2
<1>6. QED  BY <1>3, <1>4, <1>5 DEF DynOrder, DynFit

\* when it calls another,
LEMMA DynCall ==
    ASSUME TypeOK, stack # <<>>, DynOrder,
           NEW op \in Ops, NEW q \in Pkg,
           NEW l \in Labels, NEW todo \in Seq(Pkg), Call(op, q, l, todo),
           \A j \in DOMAIN stack : j # 1 => DynKept(j),
           op = "build" => /\ \A j \in DOMAIN stack : j # 1 => ~Installing(stack[j])
                           /\ ~Installing(stack'[2]),
           DynCalls(stack'[2], stack'[1]), DynFits(2)'
    PROVE  DynOrder'
<1>s. stack \in Seq(Frames) /\ DynCalled /\ Quiet /\ DynFit
  BY DEF TypeOK, DynOrder
<1>t. Len(stack) \in Nat \ {0} /\ DOMAIN stack = 1 .. Len(stack)
  BY <1>s, TopShape
<1>1. /\ DOMAIN stack' = 1 .. (Len(stack) + 1)
      /\ stack'[1] = Frame(op, q)
      /\ stack'[2].op = stack[1].op /\ stack'[2].pkg = stack[1].pkg
      /\ \A j \in DOMAIN stack' : j \notin {1, 2} =>
           /\ j - 1 \in DOMAIN stack /\ j - 1 # 1
           /\ stack'[j] = stack[j - 1]
  BY <1>s, CallShape
<1>f. stack'[1].op = op /\ stack'[1].at = "start"
  BY <1>1 DEF Frame
<1>2. ASSUME NEW j \in DOMAIN stack', j \notin {1, 2}
      PROVE  /\ j - 1 \in DOMAIN stack /\ j - 1 # 1
             /\ stack'[j] = stack[j - 1]
             /\ stack'[j - 1].op = stack[j - 2].op
             /\ stack'[j - 1].pkg = stack[j - 2].pkg
  <2>1. j - 1 \in DOMAIN stack /\ j - 1 # 1 /\ stack'[j] = stack[j - 1]
    BY <1>1, <1>2
  <2>2. CASE j - 1 = 2
    <3>1. j - 2 = 1
      BY <2>2, <1>1, <1>t
    <3>2. QED  BY <2>1, <2>2, <3>1, <1>1
  <2>3. CASE j - 1 # 2
    <3>1. j - 1 \in DOMAIN stack' /\ j - 1 \notin {1, 2} /\ (j - 1) - 1 = j - 2
      BY <2>1, <2>3, <1>1, <1>t
    <3>2. stack'[j - 1] = stack[j - 2]
      BY <3>1, <1>1
    <3>3. QED  BY <2>1, <3>2
  <2>4. QED  BY <2>2, <2>3
<1>3. \A j \in DOMAIN stack' : j \in Nat \ {0} /\ (j - 1) - 1 = j - 2
  BY <1>1, <1>t
<1>4. DynCalled'
  <2> SUFFICES ASSUME NEW j \in DOMAIN stack', j # 1
               PROVE  DynCalls(stack'[j], stack'[j - 1])
    BY DEF DynCalled, DynCalls, Calls, Depends
  <2>1. CASE j = 2
    BY <2>1
  <2>2. CASE j # 2
    <3>1. DynCalls(stack[j - 1], stack[j - 2])
      BY <1>2, <1>3, <1>s, <2>2 DEF DynCalled
    <3>2. QED  BY <1>2, <2>2, <3>1 DEF DynCalls, Calls
  <2>3. QED  BY <2>1, <2>2
<1>5. Quiet'
  <2> SUFFICES ASSUME NEW i \in DOMAIN stack', NEW j \in DOMAIN stack', i < j,
                      stack'[i].op = "build"
               PROVE  ~Installing(stack'[j])
    BY DEF Quiet, Installing
  <2>0. i \in Nat \ {0} /\ j \in Nat \ {0} /\ j # 1
    BY <1>3
  <2>1. CASE i = 1
    <3>1. CASE j = 2
      BY <2>1, <3>1, <1>f
    <3>2. CASE j # 2
      BY <2>0, <2>1, <3>2, <1>2, <1>f
    <3>3. QED  BY <3>1, <3>2
  <2>2. CASE i # 1
    <3>1. /\ j \notin {1, 2} /\ i - 1 \in DOMAIN stack /\ i - 1 < j - 1
          /\ stack[i - 1].op = "build"
      <4>1. CASE i = 2
        BY <2>0, <4>1, <1>1, <1>t
      <4>2. CASE i # 2
        BY <2>0, <2>2, <4>2, <1>2
      <4>3. QED  BY <4>1, <4>2
    <3>2. j - 1 \in DOMAIN stack /\ stack'[j] = stack[j - 1]
      BY <3>1, <1>2
    <3>3. QED  BY <3>1, <3>2, <1>s DEF Quiet
  <2>3. QED  BY <2>1, <2>2
<1>6. ASSUME NEW j \in DOMAIN stack' PROVE DynFits(j)'
  <2>1. CASE j = 1
    BY <2>1, <1>f DEF DynFits
  <2>2. CASE j = 2
    BY <2>2
  <2>3. CASE j \notin {1, 2}
    <3>1. PICK i \in DOMAIN stack : i = j - 1
      BY <1>2, <2>3
    <3>2. i # 1 /\ stack'[j] = stack[i] /\ DynFits(i) /\ DynKept(i)
      BY <1>2, <1>s, <2>3, <3>1 DEF DynFit
    <3>3. /\ stack'[j - 1].op = stack[i - 1].op
          /\ stack'[j - 1].pkg = stack[i - 1].pkg
      BY <1>2, <1>3, <2>3, <3>1
    <3>4. Above(j)' = Above(i) /\ Packed(j)' = Packed(i)
      BY <2>3, <3>2, <3>3 DEF Above, Packed
    <3>5. QED  BY <1>s, <2>3, <3>2, <3>4, DynFitsKept
  <2>4. QED  BY <2>1, <2>2, <2>3
<1>7. QED  BY <1>4, <1>5, <1>6 DEF DynOrder, DynFit

\* and when it ends.
LEMMA DynReturn ==
    ASSUME TypeOK, stack # <<>>, DynOrder, Return,
           \A j \in DOMAIN stack : j \notin {1, 2} => DynKept(j),
           1 \in DOMAIN stack' => DynFits(1)'
    PROVE  DynOrder'
<1>s. stack \in Seq(Frames) /\ DynCalled /\ Quiet /\ DynFit
  BY DEF TypeOK, DynOrder
<1>1. \A j \in DOMAIN stack' :
          /\ j \in Nat \ {0} /\ j + 1 \in DOMAIN stack
          /\ stack'[j] = stack[j + 1]
  BY <1>s, ReturnShape
<1>2. DOMAIN stack' = 1 .. Len(stack')
  BY <1>s, TopType, LenProperties DEF Return
<1>l. Len(stack') \in Nat
  BY <1>s, TopType, LenProperties DEF Return
<1>3. ASSUME NEW j \in DOMAIN stack', j # 1
      PROVE  /\ j + 1 \in DOMAIN stack /\ j + 1 \notin {1, 2}
             /\ (j + 1) - 1 = j
             /\ stack'[j] = stack[j + 1] /\ stack'[j - 1] = stack[j]
  <2>1. j - 1 \in DOMAIN stack' /\ (j - 1) + 1 = j
    BY <1>1, <1>2, <1>3, <1>l
  <2>2. stack'[j - 1] = stack[j]
    BY <1>1, <2>1
  <2>3. QED  BY <1>1, <1>3, <2>2
<1>4. DynCalled'
  <2> SUFFICES ASSUME NEW j \in DOMAIN stack', j # 1
               PROVE  DynCalls(stack'[j], stack'[j - 1])
    BY DEF DynCalled, DynCalls, Calls, Depends
  <2>1. DynCalls(stack[j + 1], stack[j])
    BY <1>3, <1>s DEF DynCalled
  <2>2. QED  BY <1>3, <2>1
<1>5. Quiet'
  <2> SUFFICES ASSUME NEW i \in DOMAIN stack', NEW j \in DOMAIN stack', i < j,
                      stack'[i].op = "build"
               PROVE  ~Installing(stack'[j])
    BY DEF Quiet, Installing
  <2>1. /\ i + 1 \in DOMAIN stack /\ j + 1 \in DOMAIN stack /\ i + 1 < j + 1
        /\ stack'[i] = stack[i + 1] /\ stack'[j] = stack[j + 1]
    BY <1>1
  <2>2. QED  BY <2>1, <1>s DEF Quiet
<1>6. ASSUME NEW j \in DOMAIN stack' PROVE DynFits(j)'
  <2>1. CASE j = 1
    BY <2>1
  <2>2. CASE j # 1
    <3>1. PICK i \in DOMAIN stack : i = j + 1
      BY <1>3, <2>2
    <3>2. i \notin {1, 2} /\ stack'[j] = stack[i] /\ DynFits(i) /\ DynKept(i)
      BY <1>3, <1>s, <2>2, <3>1 DEF DynFit
    <3>3. stack'[j - 1] = stack[i - 1]
      BY <1>3, <2>2, <3>1
    <3>4. Above(j)' = Above(i) /\ Packed(j)' = Packed(i)
      BY <2>2, <3>2, <3>3 DEF Above, Packed
    <3>5. QED  BY <1>s, <2>2, <3>2, <3>4, DynFitsKept
  <2>3. QED  BY <2>1, <2>2
<1>7. QED  BY <1>4, <1>5, <1>6 DEF DynOrder, DynFit

\* What is needed before a package that is needed before another is so too.
LEMMA BelowTrans ==
    ASSUME NEW p, NEW q \in Below(p), NEW r \in Needs(q)
    PROVE  r \in Below(p)
<1>1. PICK d \in Depends(p) : q \in Needs(d)
  BY DEF Below
<1>2. r \in Needs(d) /\ r \in Pkg
  BY <1>1, NeedsTrans DEF Needs
<1>3. QED  BY <1>1, <1>2 DEF Below

\* What a package with an archive needs has an archive,
LEMMA NeedsArchived ==
    ASSUME TypeOK, Archives, NEW p \in archived
    PROVE  Needs(p) \subseteq archived
<1>1. archived \in SUBSET Pkg /\ \A r \in archived : Depends(r) \subseteq archived
  BY DEF TypeOK, Archives
<1>2. QED  BY <1>1 DEF Needs

\* and so has all that is needed before a package whose dependencies have.
LEMMA BelowArchived ==
    ASSUME TypeOK, Archives, NEW p, Depends(p) \subseteq archived
    PROVE  Below(p) \subseteq archived
BY NeedsArchived DEF Below

\* The inductive invariant of a dynamic sysroot.
DynInv == DynOrder /\ Archives

\* Nobody is disturbed where no archive is made, and nothing removed while a
\* script waits in the middle of what it installs.
LEMMA DynKeptOthers ==
    ASSUME TypeOK, DynOrder, NEW j \in DOMAIN stack, j # 1,
           archived' = archived, unpacked \subseteq unpacked',
           installed \subseteq installed' \/ ~Installing(stack[j])
    PROVE  DynKept(j)
<1>1. DynFits(j) /\ DynCalls(stack[j], stack[j - 1])
  BY DEF DynOrder, DynFit, DynCalled
<1>2. QED  BY <1>1 DEF DynCalls, Calls, DynFits, DynKept

\* Every step of a script keeps what the builds that wait have made.
LEMMA DynStep ==
    ASSUME Dynamic, Plain, Compatible, TypeOK, Ordered, Loops, DynInv,
           NEW p \in Pkg, Step(p)
    PROVE  DynInv'
<1>d. /\ stack \in Seq(Frames) /\ installed \subseteq Pkg
      /\ BuildDepends[p] \in Seq(Pkg) /\ DevDepends[p] \in Seq(Pkg)
      /\ Depends(p) = Elems(BuildDepends[p])
      /\ Elems(DevDepends[p]) \subseteq Depends(p)
  BY DependsAssumption DEF TypeOK, Plain, Depends
<1>l. /\ {"start", "wipe", "packagedev", "installdev", "rule", "conflicts",
          "depends", "opkg"} \subseteq Labels
      /\ {"build", "packagedev", "installdev"} \subseteq Ops
      /\ <<>> \in Seq(Pkg) /\ Elems(<<>>) = {}
  BY DEF Labels, Ops, Elems
<1>i. DynOrder /\ DynCalled /\ Quiet /\ DynFit /\ Archives
  BY DEF DynInv, DynOrder
<1>a. /\ installed \subseteq archived /\ archived \subseteq built
      /\ built \cap HasSources \subseteq unpacked
      /\ \A q \in built : Depends(q) \subseteq archived
      /\ newer = {}
  BY <1>i DEF Archives
<1>h. ASSUME stack # <<>>, Head(stack).pkg = p
      PROVE  /\ 1 \in DOMAIN stack /\ stack[1] = Head(stack) /\ stack[1].pkg = p
             /\ DynFits(1) /\ Todo = stack[1].todo
             /\ Elems(Todo) \subseteq Depends(p)
             /\ \A j \in DOMAIN stack :
                  /\ j \in Nat \ {0} /\ stack[j].pkg \in Pkg
                  /\ j # 1 => /\ 2 \in DOMAIN stack
                              /\ DynCalls(stack[2], stack[1]) /\ DynFits(2)
                              /\ p \in Needs(stack[j].pkg)
                              /\ stack[1].op = "installdev"
                                    => p \in Below(stack[j].pkg) /\ stack[j].pkg # p
                              /\ stack[1].op = "build" => ~Installing(stack[j])
                              /\ DynFits(j) /\ DynCalls(stack[j], stack[j - 1])
                  /\ j \notin {1, 2} => 2 < j
  <2>1. /\ 1 \in DOMAIN stack /\ stack[1] = Head(stack)
        /\ \A j \in DOMAIN stack :
             /\ j \in Nat \ {0} /\ stack[j].pkg \in Pkg
             /\ j # 1 => 1 < j /\ 2 \in DOMAIN stack
             /\ j \notin {1, 2} => 2 < j
    BY <1>h, <1>d, Below2
  <2>2. DynFits(1) /\ \A j \in DOMAIN stack : DynFits(j)
    BY <2>1, <1>i DEF DynFit
  <2>t. Elems(Todo) \subseteq Depends(p) /\ Todo = stack[1].todo
    BY <1>h, <2>1 DEF Loops, Todo
  <2>3. ASSUME NEW j \in DOMAIN stack, j # 1
        PROVE  /\ DynCalls(stack[2], stack[1])
               /\ DynCalls(stack[j], stack[j - 1])
               /\ p \in Needs(stack[j].pkg)
               /\ stack[1].op = "installdev"
                     => p \in Below(stack[j].pkg) /\ stack[j].pkg # p
               /\ stack[1].op = "build" => ~Installing(stack[j])
    <3>0. PICK i \in DOMAIN stack : i = 2
      BY <2>1, <2>3
    <3>1. DynCalls(stack[2], stack[1])
      <4>1. DynCalls(stack[i], stack[i - 1])
        BY <3>0, <1>i DEF DynCalled
      <4>2. i - 1 = 1
        BY <3>0
      <4>3. QED  BY <3>0, <4>1, <4>2
    <3>2. /\ p \in Needs(stack[j].pkg)
          /\ stack[1].op = "installdev" => p \in Below(stack[j].pkg)
      BY <1>h, <2>1, <2>3 DEF Ordered
    <3>3. stack[1].op = "build" => ~Installing(stack[j])
      BY <2>1, <2>3, <1>i DEF Quiet
    <3>4. DynCalls(stack[j], stack[j - 1])
      BY <2>3, <1>i DEF DynCalled
    <3>5. QED  BY <3>1, <3>2, <3>3, <3>4, NotBelow
  <2>4. QED  BY <1>h, <2>1, <2>2, <2>3, <2>t
<1>k. ASSUME stack # <<>>, Head(stack).pkg = p, archived' = archived,
             unpacked \subseteq unpacked',
             installed \subseteq installed' \/ stack[1].op = "build"
      PROVE  \A j \in DOMAIN stack : j # 1 => DynKept(j)
  BY <1>k, <1>h, <1>i, DynKeptOthers
<1>q. SUFFICES DynOrder' /\ Archives'
  BY DEF DynInv
<1>1. CASE BuildStart(p)
  <2>1. /\ stack # <<>> /\ Head(stack).pkg = p
        /\ Head(stack).op = "build" /\ Head(stack).at = "start"
    BY <1>1 DEF BuildStart, At
  <2>2. /\ newer' = newer
        /\ p \in built' => Return
        /\ p \notin built' => Goto("wipe", BuildDepends[p])
    BY <1>1 DEF BuildStart
  <2>3. /\ archived' = archived /\ installed' = installed
        /\ unpacked \subseteq unpacked' /\ archived \subseteq built'
        /\ built' \subseteq built /\ built' \cap HasSources \subseteq unpacked'
        /\ {p} \cap HasSources \subseteq unpacked'
    <3>1. CASE p \in HasSources \ unpacked
      <4>1. p \notin archived /\ p \notin installed /\ Namesakes[p] = {p}
        BY <1>a, <3>1 DEF Plain
      <4>2. /\ unpacked' = (unpacked \ {p}) \cup {p} /\ built' = built \ {p}
            /\ archived' = archived \ {p} /\ installed' = Without({p})
        BY <1>1, <3>1, <4>1 DEF BuildStart
      <4>3. Without({p}) = installed
        BY <4>1, WithoutAbsent
      <4>4. QED  BY <1>a, <4>1, <4>2, <4>3
    <3>2. CASE p \notin HasSources \ unpacked
      <4>1. <<"build", p>> \notin newer
        BY <1>a
      <4>2. /\ unpacked' = unpacked /\ built' = built
            /\ archived' = archived /\ installed' = installed
        BY <1>1, <3>2, <4>1 DEF BuildStart
      <4>3. QED  BY <1>a, <3>2, <4>2
    <3>3. QED  BY <3>1, <3>2
  <2>4. Archives'
    BY <2>2, <2>3, <1>a DEF Archives
  <2>5. \A j \in DOMAIN stack : j # 1 => DynKept(j)
    BY <2>1, <2>3, <1>k
  <2>6. CASE p \in built'
    <3>1. ASSUME 1 \in DOMAIN stack' PROVE DynFits(1)'
      <4>1. 2 \in DOMAIN stack /\ stack'[1] = stack[2]
        BY <2>1, <2>2, <2>6, <3>1, <1>d, ReturnTop
      <4>2. DynCalls(stack[2], stack[1]) /\ DynFits(2) /\ stack[1].pkg = p
            /\ stack[1].op = "build"
        BY <2>1, <4>1, <1>h
      <4>3. QED  BY <2>3, <2>6, <4>1, <4>2 DEF DynCalls, Calls, DynFits
    <3>2. QED  BY <2>1, <2>2, <2>4, <2>5, <2>6, <3>1, <1>i, DynReturn
  <2>7. CASE p \notin built'
    <3>1. /\ stack'[1].op = "build" /\ stack'[1].pkg = p
          /\ stack'[1].at = "wipe" /\ stack'[1].todo = BuildDepends[p]
      BY <2>1, <2>2, <2>7, <1>d, <1>h, <1>l, GotoShape
    <3>2. DynFits(1)'
      BY <2>3, <3>1 DEF DynFits
    <3>3. QED  BY <2>1, <2>2, <2>4, <2>5, <2>7, <3>2, <1>d, <1>i, <1>l, DynGoto
  <2>8. QED  BY <2>6, <2>7
<1>2. CASE BuildWipe(p)
  <2>1. /\ stack # <<>> /\ Head(stack).pkg = p
        /\ Head(stack).op = "build" /\ Head(stack).at = "wipe"
        /\ UNCHANGED <<unpacked, built, archived, newer>>
        /\ installed' \subseteq installed
    BY <1>2, WithoutType DEF BuildWipe, At
  <2>2. Archives'
    BY <2>1, <1>a DEF Archives
  <2>3. \A j \in DOMAIN stack : j # 1 => DynKept(j)
    BY <2>1, <1>h, <1>k
  <2>h. /\ 1 \in DOMAIN stack /\ stack[1].op = "build" /\ stack[1].pkg = p
        /\ stack[1].at = "wipe" /\ Todo = stack[1].todo
        /\ {p} \cap HasSources \subseteq unpacked
        /\ Elems(BuildDepends[p]) \subseteq Elems(Todo)
    BY <2>1, <1>h DEF DynFits
  <2>4. CASE installed = {}
    <3>1. Goto("packagedev", Todo)
      BY <1>2, <2>4 DEF BuildWipe
    <3>t. Todo \in Seq(Pkg)
      BY <2>1, <1>d, TopType
    <3>2. /\ stack'[1].op = "build" /\ stack'[1].pkg = p
          /\ stack'[1].at = "packagedev" /\ stack'[1].todo = Todo
      BY <2>1, <2>h, <3>1, <3>t, <1>d, <1>l, GotoShape
    <3>3. DynFits(1)'
      BY <2>1, <2>h, <3>2 DEF DynFits
    <3>4. QED  BY <2>1, <2>2, <2>3, <3>1, <3>3, <3>t, <1>i, <1>l, DynGoto
  <2>5. CASE installed # {}
    <3>1. stack' = stack
      BY <1>2, <2>5 DEF BuildWipe
    <3>2. DynCalled' /\ Quiet'
      BY <3>1, <1>i
         DEF DynCalled, DynCalls, Calls, Depends, Quiet, Installing
    <3>3. ASSUME NEW j \in DOMAIN stack PROVE DynFits(j)'
      <4>1. CASE j = 1
        BY <2>1, <2>h, <3>1, <4>1 DEF DynFits
      <4>2. CASE j # 1
        <5>1. /\ stack'[j] = stack[j] /\ Above(j)' = Above(j)
              /\ Packed(j)' = Packed(j) /\ j \in DOMAIN stack'
          BY <3>1 DEF Above, Packed
        <5>2. DynFits(j) /\ DynKept(j)
          BY <2>3, <4>2, <1>i DEF DynFit
        <5>3. QED  BY <4>2, <5>1, <5>2, <1>i, DynFitsKept
      <4>3. QED  BY <4>1, <4>2
    <3>4. QED  BY <2>2, <3>1, <3>2, <3>3 DEF DynOrder, DynFit
  <2>6. QED  BY <2>4, <2>5
<1>3. CASE BuildPackagedev(p)
  <2>1. /\ stack # <<>> /\ Head(stack).pkg = p
        /\ Head(stack).op = "build" /\ Head(stack).at = "packagedev"
        /\ UNCHANGED files
    BY <1>3 DEF BuildPackagedev, At
  <2>2. Archives'
    BY <2>1, <1>a DEF Archives, files
  <2>3. \A j \in DOMAIN stack : j # 1 => DynKept(j)
    BY <2>1, <1>k DEF files
  <2>h. /\ 1 \in DOMAIN stack /\ stack[1].op = "build" /\ stack[1].pkg = p
        /\ {p} \cap HasSources \subseteq unpacked
        /\ stack[1].at = "packagedev" /\ Elems(Todo) \subseteq Depends(p)
        /\ Elems(BuildDepends[p]) \subseteq archived \cup Elems(Todo)
    BY <2>1, <1>h DEF DynFits, Packed
  <2>4. CASE Todo = <<>>
    <3>1. Goto("installdev", BuildDepends[p])
      BY <1>3, <2>4 DEF BuildPackagedev
    <3>2. /\ stack'[1].op = "build" /\ stack'[1].pkg = p
          /\ stack'[1].at = "installdev" /\ stack'[1].todo = BuildDepends[p]
      BY <2>1, <2>h, <3>1, <1>d, <1>l, GotoShape
    <3>3. DynFits(1)'
      BY <2>1, <2>4, <2>h, <3>2, <1>l DEF DynFits, Fetched, files
    <3>4. QED  BY <2>1, <2>2, <2>3, <3>1, <3>3, <1>d, <1>i, <1>l, DynGoto
  <2>5. CASE Todo # <<>>
    <3>1. PICK q \in Pkg : q = Head(Todo) /\ q \in Elems(Todo)
      BY <2>1, <2>5, <1>d, TopType, ListElems
    <3>2. PICK todo \in Seq(Pkg) : todo = Tail(Todo)
      BY <2>1, <2>5, <1>d, TopType, ListElems
    <3>3. Elems(Todo) \subseteq {q} \cup Elems(todo)
      BY <2>1, <2>5, <3>1, <3>2, <1>d, TopType, ListParts
    <3>4. Call("packagedev", q, "packagedev", todo)
      BY <1>3, <2>5, <3>1, <3>2 DEF BuildPackagedev
    <3>5. /\ stack'[1] = Frame("packagedev", q)
          /\ stack'[2].op = "build" /\ stack'[2].pkg = p
          /\ stack'[2].at = "packagedev" /\ stack'[2].todo = todo
      BY <2>1, <2>h, <3>4, <1>d, <1>l, CallShape
    <3>6. stack'[1].op = "packagedev" /\ stack'[1].pkg = q
      BY <3>5 DEF Frame
    <3>7. DynCalls(stack'[2], stack'[1])
      BY <2>h, <3>1, <3>5, <3>6 DEF DynCalls
    <3>8. Packed(2)' = {q}
      BY <3>6 DEF Packed
    <3>9. DynFits(2)'
      BY <2>1, <2>h, <3>3, <3>5, <3>8 DEF DynFits, files
    <3>10. QED
      BY <2>1, <2>2, <2>3, <3>4, <3>7, <3>9, <1>i, <1>l, DynCall
  <2>6. QED  BY <2>4, <2>5
<1>4. CASE BuildInstalldev(p)
  <2>1. /\ stack # <<>> /\ Head(stack).pkg = p
        /\ Head(stack).op = "build" /\ Head(stack).at = "installdev"
        /\ ForEach("installdev", "rule")
        /\ UNCHANGED files
    BY <1>4 DEF BuildInstalldev, At
  <2>2. Archives'
    BY <2>1, <1>a DEF Archives, files
  <2>3. \A j \in DOMAIN stack : j # 1 => DynKept(j)
    BY <2>1, <1>k DEF files
  <2>h. /\ 1 \in DOMAIN stack /\ stack[1].op = "build" /\ stack[1].pkg = p
        /\ stack[1].at = "installdev" /\ {p} \cap HasSources \subseteq unpacked
        /\ Elems(BuildDepends[p]) \subseteq archived
        /\ Elems(BuildDepends[p]) \subseteq installed \cup Elems(Todo)
    BY <2>1, <1>h DEF DynFits, Fetched, Above
  <2>4. CASE Todo = <<>>
    <3>1. Goto("rule", <<>>)
      BY <2>1, <2>4 DEF ForEach
    <3>2. stack'[1].op = "build" /\ stack'[1].pkg = p /\ stack'[1].at = "rule"
      BY <2>1, <2>h, <3>1, <1>d, <1>l, GotoShape
    <3>3. DynFits(1)'
      BY <2>1, <2>4, <2>h, <3>2, <1>l DEF DynFits, files
    <3>4. QED  BY <2>1, <2>2, <2>3, <3>1, <3>3, <1>d, <1>i, <1>l, DynGoto
  <2>5. CASE Todo # <<>>
    <3>1. PICK q \in Pkg : q = Head(Todo)
      BY <2>1, <2>5, <1>d, TopType, ListElems
    <3>2. PICK todo \in Seq(Pkg) : todo = Tail(Todo)
      BY <2>1, <2>5, <1>d, TopType, ListElems
    <3>3. Elems(Todo) \subseteq {q} \cup Elems(todo)
      BY <2>1, <2>5, <3>1, <3>2, <1>d, TopType, ListParts
    <3>4. Call("installdev", q, "installdev", todo)
      BY <2>1, <2>5, <3>1, <3>2 DEF ForEach
    <3>5. /\ stack'[1] = Frame("installdev", q)
          /\ stack'[2].op = "build" /\ stack'[2].pkg = p
          /\ stack'[2].at = "installdev" /\ stack'[2].todo = todo
      BY <2>1, <2>h, <3>4, <1>d, <1>l, CallShape
    <3>6. stack'[1].op = "installdev" /\ stack'[1].pkg = q
      BY <3>5 DEF Frame
    <3>7. DynCalls(stack'[2], stack'[1])
      BY <3>5, <3>6 DEF DynCalls, Calls
    <3>8. Above(2)' = {q}
      BY <3>6 DEF Above
    <3>9. DynFits(2)'
      BY <2>1, <2>h, <3>3, <3>5, <3>8 DEF DynFits, Fetched, files
    <3>10. QED
      BY <2>1, <2>2, <2>3, <3>4, <3>7, <3>9, <1>i, <1>l, DynCall
  <2>6. QED  BY <2>4, <2>5
<1>5. CASE BuildRule(p)
  <2>1. /\ stack # <<>> /\ Head(stack).pkg = p
        /\ Head(stack).op = "build" /\ Head(stack).at = "rule" /\ Return
        /\ UNCHANGED <<unpacked, archived, installed>> /\ newer' \subseteq newer
        /\ built' = built \cup {p}
    BY <1>5 DEF BuildRule, At
  <2>2. \A j \in DOMAIN stack : j # 1 => DynKept(j)
    BY <2>1, <1>k
  <2>h. /\ Depends(p) \subseteq archived /\ {p} \cap HasSources \subseteq unpacked
        /\ stack[1].op = "build" /\ stack[1].pkg = p
    BY <2>1, <1>d, <1>h DEF DynFits
  <2>3. Archives'
    BY <2>1, <2>h, <1>a DEF Archives
  <2>4. ASSUME 1 \in DOMAIN stack' PROVE DynFits(1)'
    <3>1. 2 \in DOMAIN stack /\ stack'[1] = stack[2]
      BY <2>1, <2>4, <1>d, ReturnTop
    <3>2. QED  BY <2>1, <2>h, <3>1, <1>h DEF DynCalls, Calls, DynFits
  <2>5. QED  BY <2>1, <2>2, <2>3, <2>4, <1>i, DynReturn
<1>6. CASE PackagedevStart(p)
  <2>1. /\ stack # <<>> /\ Head(stack).pkg = p
        /\ Head(stack).op = "packagedev" /\ Head(stack).at = "start"
        /\ <<"archive", p>> \notin newer
    BY <1>6, <1>a DEF PackagedevStart, At
  <2>2. /\ UNCHANGED <<unpacked, built, archived, installed, newer>>
        /\ p \in archived => Return
        /\ p \notin archived => Call("build", p, "rule", <<>>)
    BY <1>6, <2>1 DEF PackagedevStart
  <2>3. \A j \in DOMAIN stack : j # 1 => DynKept(j)
    BY <2>1, <2>2, <1>k
  <2>4. Archives'
    BY <2>2, <1>a DEF Archives
  <2>h. stack[1].op = "packagedev" /\ stack[1].pkg = p
    BY <2>1, <1>h
  <2>5. CASE p \in archived
    <3>1. ASSUME 1 \in DOMAIN stack' PROVE DynFits(1)'
      <4>1. 2 \in DOMAIN stack /\ stack'[1] = stack[2]
        BY <2>1, <2>2, <2>5, <3>1, <1>d, ReturnTop
      <4>2. DynCalls(stack[2], stack[1]) /\ DynFits(2)
        BY <2>1, <4>1, <1>h
      <4>3. Packed(2) = {p}
        BY <2>h DEF Packed
      <4>4. QED
        BY <2>2, <2>5, <2>h, <4>1, <4>2, <4>3 DEF DynCalls, Calls, DynFits
    <3>2. QED  BY <2>1, <2>2, <2>3, <2>4, <2>5, <3>1, <1>i, DynReturn
  <2>6. CASE p \notin archived
    <3>1. /\ stack'[1] = Frame("build", p)
          /\ stack'[2].op = "packagedev" /\ stack'[2].pkg = p
          /\ stack'[2].at = "rule"
      BY <2>1, <2>2, <2>6, <2>h, <1>d, <1>l, CallShape
    <3>2. /\ stack'[1].op = "build" /\ stack'[1].pkg = p
      BY <3>1 DEF Frame
    <3>3. DynCalls(stack'[2], stack'[1])
      BY <3>1, <3>2 DEF DynCalls, Calls
    <3>4. DynFits(2)'
      BY <2>2, <2>6, <3>1 DEF DynFits
    <3>5. ASSUME NEW j \in DOMAIN stack, j # 1, Installing(stack[j]) PROVE FALSE
      <4>1. PICK c \in Pkg : c = stack[j].pkg
        BY <2>1, <1>h
      <4>2. /\ p \in Needs(c) /\ DynFits(j) /\ DynCalls(stack[j], stack[j - 1])
            /\ j \in Nat \ {0} /\ 1 \in DOMAIN stack
        BY <2>1, <3>5, <4>1, <1>h
      <4>3. CASE stack[j].op = "installdev"
        <5>1. c \in archived
          BY <3>5, <4>1, <4>2, <4>3 DEF Installing, DynFits
        <5>2. QED  BY <2>6, <4>2, <5>1, <1>i, NeedsArchived
      <4>4. CASE stack[j].op = "build"
        <5>1. Depends(c) \subseteq archived
          BY <3>5, <4>1, <4>2, <4>4, DependsType
             DEF Installing, DynFits, Plain, Depends
        <5>2. p \notin Below(c)
          BY <2>6, <5>1, <1>i, BelowArchived
        <5>3. p = c
          BY <4>2, <5>2, NeedsSplit
        <5>4. stack[j - 1].op = "installdev"
          BY <3>5, <4>2, <4>4 DEF Installing, DynCalls, Calls
        <5>5. j - 1 # 1
          BY <2>h, <5>4
        <5>6. j - 1 \in DOMAIN stack /\ j - 1 < j /\ 1 < j - 1
          BY <3>5, <4>2, <5>5, <1>d, TopShape
        <5>7. stack[j - 1].pkg \in Below(c) /\ p \in Needs(stack[j - 1].pkg)
          BY <2>h, <4>1, <4>2, <5>4, <5>6 DEF Ordered
        <5>8. p \in Below(c)
          BY <5>7, BelowTrans
        <5>9. QED  BY <5>2, <5>8
      <4>5. QED  BY <3>5, <4>3, <4>4 DEF Installing
    <3>6. ~Installing(stack'[2])
      BY <3>1 DEF Installing
    <3>7. QED
      BY <2>1, <2>2, <2>3, <2>4, <2>6, <3>3, <3>4, <3>5, <3>6, <1>i, <1>l,
         DynCall
  <2>7. QED  BY <2>5, <2>6
<1>7. CASE PackagedevRule(p)
  <2>1. /\ stack # <<>> /\ Head(stack).pkg = p
        /\ Head(stack).op = "packagedev" /\ Head(stack).at = "rule" /\ Return
        /\ archived' = archived \cup {p}
        /\ UNCHANGED <<unpacked, built, installed>>
    BY <1>7 DEF PackagedevRule, At
  <2>h. p \notin archived /\ p \in built /\ stack[1].op = "packagedev"
        /\ stack[1].pkg = p
    BY <2>1, <1>h DEF DynFits
  <2>2. p \notin installed
    BY <2>h, <1>a
  <2>3. newer' = {}
    BY <1>7, <2>2, <1>a DEF PackagedevRule
  <2>4. Archives'
    BY <2>1, <2>3, <2>h, <1>a DEF Archives
  <2>5. ASSUME NEW j \in DOMAIN stack, j \notin {1, 2} PROVE DynKept(j)
    <3>1. /\ 2 \in DOMAIN stack /\ DynCalls(stack[2], stack[1])
          /\ j \in Nat \ {0} /\ stack[j].pkg \in Pkg /\ 2 < j
          /\ DynFits(j) /\ DynCalls(stack[j], stack[j - 1])
          /\ stack[2].pkg \in Pkg
      BY <2>1, <2>5, <1>h
    <3>2. /\ stack[2].pkg \in Needs(stack[j].pkg)
          /\ stack[2].op = "installdev" => stack[2].pkg \in Below(stack[j].pkg)
      BY <3>1 DEF Ordered
    <3>3. p \in Below(stack[j].pkg)
      <4>1. CASE stack[2].op = "installdev"
        BY <2>h, <3>1, <3>2, <4>1 DEF DynCalls, Calls
      <4>2. CASE stack[2].op # "installdev"
        BY <2>h, <3>1, <3>2, <4>2, BelowDown DEF DynCalls, Calls
      <4>3. QED  BY <4>1, <4>2
    <3>4. stack[j].pkg # p
      BY <3>1, <3>3, NotBelow
    <3>5. QED  BY <2>1, <3>1, <3>4 DEF DynCalls, Calls, DynFits, DynKept
  <2>6. ASSUME 1 \in DOMAIN stack' PROVE DynFits(1)'
    <3>1. 2 \in DOMAIN stack /\ stack'[1] = stack[2]
      BY <2>1, <2>6, <1>d, ReturnTop
    <3>2. DynCalls(stack[2], stack[1]) /\ DynFits(2)
      BY <2>1, <3>1, <1>h
    <3>3. Packed(2) = {p}
      BY <2>h DEF Packed
    <3>4. QED  BY <2>1, <2>h, <3>1, <3>2, <3>3 DEF DynCalls, Calls, DynFits
  <2>7. QED  BY <2>1, <2>4, <2>5, <2>6, <1>i, DynReturn
<1>8. CASE InstalldevStart(p)
  <2>1. /\ stack # <<>> /\ Head(stack).pkg = p
        /\ Head(stack).op = "installdev" /\ Head(stack).at = "start"
        /\ <<"control", p>> \notin newer /\ <<"control-archive", p>> \notin newer
    BY <1>8, <1>a DEF InstalldevStart, At
  <2>2. /\ UNCHANGED <<unpacked, built, archived, installed, newer>>
        /\ p \in installed => Return
        /\ p \notin installed => Call("packagedev", p, "conflicts", <<>>)
    BY <1>8, <2>1 DEF InstalldevStart
  <2>3. \A j \in DOMAIN stack : j # 1 => DynKept(j)
    BY <2>1, <2>2, <1>k
  <2>4. Archives'
    BY <2>2, <1>a DEF Archives
  <2>h. stack[1].op = "installdev" /\ stack[1].pkg = p
    BY <2>1, <1>h
  <2>5. CASE p \in installed
    <3>1. ASSUME 1 \in DOMAIN stack' PROVE DynFits(1)'
      <4>1. 2 \in DOMAIN stack /\ stack'[1] = stack[2]
        BY <2>1, <2>2, <2>5, <3>1, <1>d, ReturnTop
      <4>2. DynCalls(stack[2], stack[1]) /\ DynFits(2)
        BY <2>1, <4>1, <1>h
      <4>3. Above(2) \subseteq installed
        BY <2>5, <2>h DEF Above
      <4>4. QED
        BY <2>2, <2>h, <4>1, <4>2, <4>3 DEF DynCalls, Calls, DynFits, Fetched
    <3>2. QED  BY <2>1, <2>2, <2>3, <2>4, <2>5, <3>1, <1>i, DynReturn
  <2>6. CASE p \notin installed
    <3>1. /\ stack'[1] = Frame("packagedev", p)
          /\ stack'[2].op = "installdev" /\ stack'[2].pkg = p
          /\ stack'[2].at = "conflicts"
      BY <2>1, <2>2, <2>6, <2>h, <1>d, <1>l, CallShape
    <3>2. stack'[1].op = "packagedev" /\ stack'[1].pkg = p
      BY <3>1 DEF Frame
    <3>3. DynCalls(stack'[2], stack'[1])
      BY <3>1, <3>2 DEF DynCalls, Calls
    <3>4. DynFits(2)'
      BY <3>1 DEF DynFits
    <3>5. QED
      BY <2>1, <2>2, <2>3, <2>4, <2>6, <3>3, <3>4, <1>i, <1>l, DynCall
  <2>7. QED  BY <2>5, <2>6
<1>9. CASE InstalldevConflicts(p)
  <2>1. /\ stack # <<>> /\ Head(stack).pkg = p
        /\ Head(stack).op = "installdev" /\ Head(stack).at = "conflicts"
        /\ installed' = Without(Conflicts[p]) /\ Goto("depends", DevDepends[p])
        /\ UNCHANGED <<unpacked, built, archived, newer>>
    BY <1>9 DEF InstalldevConflicts, At
  <2>2. installed' \subseteq installed
    BY <2>1, WithoutType
  <2>3. Archives'
    BY <2>1, <2>2, <1>a DEF Archives
  <2>4. ASSUME NEW j \in DOMAIN stack, j # 1 PROVE DynKept(j)
    <3>1. PICK c \in Pkg : c = stack[j].pkg
      BY <2>1, <1>h
    <3>2. p \in Needs(c) /\ DynCalls(stack[j], stack[j - 1]) /\ DynFits(j)
      BY <2>1, <2>4, <3>1, <1>h
    <3>3. Depends(c) \cap installed \subseteq installed'
      BY <2>1, <3>2, <1>d, WithoutRivals
    <3>4. installed \subseteq installed' \cup (Pkg \ Depends(c))
      BY <3>3, <1>d
    <3>5. QED
      BY <2>1, <3>1, <3>2, <3>4 DEF DynCalls, Calls, DynFits, DynKept
  <2>5. /\ stack'[1].op = "installdev" /\ stack'[1].pkg = p
        /\ stack'[1].at = "depends" /\ stack'[1].todo = DevDepends[p]
    BY <2>1, <1>d, <1>h, <1>l, GotoShape
  <2>6. p \in archived
    BY <2>1, <1>h DEF DynFits
  <2>7. DynFits(1)'
    BY <2>1, <2>5, <2>6 DEF DynFits, Fetched
  <2>8. QED  BY <2>1, <2>3, <2>4, <2>7, <1>d, <1>i, <1>l, DynGoto
<1>10. CASE InstalldevDepends(p)
  <2>1. /\ stack # <<>> /\ Head(stack).pkg = p
        /\ Head(stack).op = "installdev" /\ Head(stack).at = "depends"
        /\ ForEach("installdev", "opkg")
        /\ UNCHANGED files
    BY <1>10 DEF InstalldevDepends, At
  <2>2. Archives'
    BY <2>1, <1>a DEF Archives, files
  <2>3. \A j \in DOMAIN stack : j # 1 => DynKept(j)
    BY <2>1, <1>k DEF files
  <2>h. /\ 1 \in DOMAIN stack /\ stack[1].op = "installdev" /\ stack[1].pkg = p
        /\ stack[1].at = "depends" /\ p \in archived
        /\ Elems(DevDepends[p]) \subseteq installed \cup Elems(Todo)
    BY <2>1, <1>h DEF DynFits, Fetched, Above
  <2>4. CASE Todo = <<>>
    <3>1. Goto("opkg", <<>>)
      BY <2>1, <2>4 DEF ForEach
    <3>2. /\ stack'[1].op = "installdev" /\ stack'[1].pkg = p
          /\ stack'[1].at = "opkg"
      BY <2>1, <2>h, <3>1, <1>d, <1>l, GotoShape
    <3>3. DynFits(1)'
      BY <2>1, <2>4, <2>h, <3>2, <1>l DEF DynFits, files
    <3>4. QED  BY <2>1, <2>2, <2>3, <3>1, <3>3, <1>d, <1>i, <1>l, DynGoto
  <2>5. CASE Todo # <<>>
    <3>1. PICK q \in Pkg : q = Head(Todo)
      BY <2>1, <2>5, <1>d, TopType, ListElems
    <3>2. PICK todo \in Seq(Pkg) : todo = Tail(Todo)
      BY <2>1, <2>5, <1>d, TopType, ListElems
    <3>3. Elems(Todo) \subseteq {q} \cup Elems(todo)
      BY <2>1, <2>5, <3>1, <3>2, <1>d, TopType, ListParts
    <3>4. Call("installdev", q, "depends", todo)
      BY <2>1, <2>5, <3>1, <3>2 DEF ForEach
    <3>5. /\ stack'[1] = Frame("installdev", q)
          /\ stack'[2].op = "installdev" /\ stack'[2].pkg = p
          /\ stack'[2].at = "depends" /\ stack'[2].todo = todo
      BY <2>1, <2>h, <3>4, <1>d, <1>l, CallShape
    <3>6. stack'[1].op = "installdev" /\ stack'[1].pkg = q
      BY <3>5 DEF Frame
    <3>7. DynCalls(stack'[2], stack'[1])
      BY <3>5, <3>6 DEF DynCalls, Calls
    <3>8. Above(2)' = {q}
      BY <3>6 DEF Above
    <3>9. DynFits(2)'
      BY <2>1, <2>h, <3>3, <3>5, <3>8 DEF DynFits, Fetched, files
    <3>10. QED
      BY <2>1, <2>2, <2>3, <3>4, <3>7, <3>9, <1>i, <1>l, DynCall
  <2>6. QED  BY <2>4, <2>5
<1>11. CASE InstalldevOpkg(p)
  <2>1. /\ stack # <<>> /\ Head(stack).pkg = p
        /\ Head(stack).op = "installdev" /\ Head(stack).at = "opkg" /\ Return
        /\ UNCHANGED <<unpacked, built, archived>>
    BY <1>11 DEF InstalldevOpkg, At
  <2>2. p \in archived /\ stack[1].op = "installdev" /\ stack[1].pkg = p
    BY <2>1, <1>h DEF DynFits
  <2>3. installed' = installed \cup {p} /\ newer' \subseteq newer
    BY <1>11, <2>2 DEF InstalldevOpkg
  <2>4. Archives'
    BY <2>1, <2>2, <2>3, <1>a DEF Archives
  <2>5. \A j \in DOMAIN stack : j # 1 => DynKept(j)
    BY <2>1, <2>3, <1>k
  <2>6. ASSUME 1 \in DOMAIN stack' PROVE DynFits(1)'
    <3>1. 2 \in DOMAIN stack /\ stack'[1] = stack[2]
      BY <2>1, <2>6, <1>d, ReturnTop
    <3>2. DynCalls(stack[2], stack[1]) /\ DynFits(2)
      BY <2>1, <3>1, <1>h
    <3>3. Above(2) = {p}
      BY <2>2 DEF Above
    <3>4. QED
      BY <2>1, <2>2, <2>3, <3>1, <3>2, <3>3 DEF DynCalls, Calls, DynFits, Fetched
  <2>7. QED  BY <2>1, <2>4, <2>5, <2>6, <1>i, DynReturn
<1>12. CASE InstalldevRefused(p)
  BY <1>12, <1>i
     DEF InstalldevRefused, files, DynOrder, DynCalled, Quiet, DynFit, Archives
<1>13. QED
  BY <1>1, <1>2, <1>3, <1>4, <1>5, <1>6, <1>7, <1>8, <1>9, <1>10, <1>11,
     <1>12 DEF Step

\* With a dynamic sysroot, as long as nothing is edited or cleaned between
\* runs, whatever a package is built or installed with is in the toolchain.
THEOREM DependsAreThereDynamic ==
    ASSUME Dynamic, Plain, Compatible
    PROVE  Spec => []DependsInstalled
<1>1. Init => DynInv
  BY DEF Init, DynInv, DynOrder, DynCalled, Quiet, DynFit, Archives
<1>2. TypeOK /\ (Ordered /\ Loops) /\ DynInv /\ [Next]_vars => DynInv'
  <2> SUFFICES ASSUME TypeOK, Ordered, Loops, DynInv, [Next]_vars
               PROVE  DynInv'
    OBVIOUS
  <2>i. DynCalled /\ Quiet /\ DynFit /\ Archives
    BY DEF DynInv, DynOrder
  <2>1. ASSUME NEW p \in Pkg, Step(p) PROVE DynInv'
    BY <2>1, DynStep
  <2>2. ASSUME NEW p \in Pkg, NEW op \in Commands, Start(op, p) PROVE DynInv'
    <3>1. stack' = <<Frame(op, p)>> /\ Frame(op, p).at = "start"
      BY <2>2 DEF Start, Frame
    <3>2. DOMAIN stack' = {1} /\ stack'[1].at = "start"
      BY <3>1
    <3>3. DynFits(1)'
      BY <3>2 DEF DynFits
    <3>4. DynCalled' /\ DynFit'
      BY <3>2, <3>3 DEF DynCalled, DynFit
    <3>5. Quiet'
      BY <3>2 DEF Quiet
    <3>6. Archives'
      BY <2>2, <2>i DEF Start, files, Archives
    <3>7. QED  BY <3>4, <3>5, <3>6 DEF DynInv, DynOrder
  <2>3. ASSUME NEW p \in Pkg, Edit(p) PROVE FALSE
    BY <2>3 DEF Edit, Plain
  <2>4. CASE Abort
    BY <2>4, <2>i
       DEF Abort, files, DynInv, DynOrder, DynCalled, Quiet, DynFit, Archives
  <2>5. CASE UNCHANGED vars
    BY <2>5, <2>i
       DEF vars, DynInv, DynOrder, DynCalled, DynCalls, Calls, Depends, Quiet,
           Installing, DynFit, DynFits, Fetched, Above, Packed, Archives
  <2>6. QED  BY <2>1, <2>2, <2>3, <2>4, <2>5 DEF Next
<1>3. TypeOK /\ DynInv => DependsInstalled
  <2> SUFFICES ASSUME TypeOK, DynInv, NEW p \in Pkg
               PROVE  /\ At("build", "rule", p) =>
                            Elems(BuildDepends[p]) \subseteq installed
                      /\ At("installdev", "opkg", p) /\ p \in archived => Usable(p)
    BY DEF DependsInstalled, DependsAtBuild, DependsAtInstall
  <2>1. ASSUME stack # <<>> PROVE stack[1] = Head(stack) /\ DynFits(1)
    BY <2>1, Below2 DEF TypeOK, DynInv, DynOrder, DynFit
  <2>2. QED  BY <2>1 DEF At, DynFits, Usable
<1>4. QED  BY <1>1, <1>2, <1>3, TypeCorrect, AlwaysInOrder, PTL DEF Spec
=============================================================================
